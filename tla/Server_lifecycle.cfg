SPECIFICATION ProgramFairSpec
CONSTANT
    Handler = {h1, h2}
INVARIANTS
    NoSessionMissed
    DevicesOutliveSessions
    NoCaptureAtExit
PROPERTIES
    ShutdownEnds
CHECK_DEADLOCK FALSE
