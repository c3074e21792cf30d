SPECIFICATION EncoderFairSpec
CONSTANTS
    Pipeline = {old, new}
    NoPipeline = NoPipeline
    Configs <- PlatformConfigs
INVARIANTS
    SingleLoop
    CallsAreReady
    NothingHeld
PROPERTIES
    StopReturns
    ImplementsContract
CHECK_DEADLOCK FALSE
