SPECIFICATION Spec
CONSTANTS
    Device <- BothDevices
    VideoEnabled = TRUE
    Stream = {v1, v2}
    NoStream = NoStream
    NoMessage = NoMessage
    MaxOffers = 1
    MaxCallbacks = 2
INVARIANTS
    ContactsReleased
CHECK_DEADLOCK FALSE
