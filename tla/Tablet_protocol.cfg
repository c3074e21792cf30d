SPECIFICATION SharedTicksSpec
CONSTANTS
    KeepAliveOn = TRUE
    Buttons <- AllButtons
    RawPressure <- EdgePressures
    Absent = Absent
    Timer = {t1, t2}
    NoTimer = NoTimer
    MaxFired = 2
    Client = {a, b, c}
    TrackpadMissing = TRUE
SYMMETRY ClientSymmetry
INVARIANTS
    KernelMirrorsDriver
    NoOrphanTimer
    NoTwoTicksUnseen
    NoGhostTip
PROPERTIES
    PenProtocol
    EveryStrokeVisible
    LateTickHarmless
    HoverKeptAlive
    QuietWithoutSessions
CHECK_DEADLOCK FALSE
