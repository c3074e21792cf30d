SPECIFICATION FairSpec
CONSTANTS
    Conn = {c1, c2}
    MaxStarts = 2
    Passcode = TRUE
    MaxVersion = 2
    MaxDelay = 2
INVARIANTS
    NothingLeaks
PROPERTIES
    ReloadsEnd
    Recovers
CHECK_DEADLOCK FALSE
