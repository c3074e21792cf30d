SPECIFICATION FairSpec
CONSTANTS
    Device <- BothDevices
    VideoEnabled = TRUE
    Stream = {v1, v2}
    NoStream = NoStream
    NoMessage = NoMessage
    MaxOffers = 2
    MaxCallbacks = 2
INVARIANTS
    NoCaptureAfterTeardown
    ContactsAccounted
PROPERTIES
    RunReturns
    VideoStarts
CHECK_DEADLOCK FALSE
