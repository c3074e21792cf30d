SPECIFICATION FairSpec
CONSTANTS
    Sender = {s1, s2}
    QueueLen = 1
    MaxSend = 2
    MaxRegister = 2
INVARIANTS
    FlushedBeforeDestroy
PROPERTIES
    EventsInOrder
    UnregisterReturns
