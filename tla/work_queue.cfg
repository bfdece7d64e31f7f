SPECIFICATION Spec
CONSTANTS
    w1 = w1
    w2 = w2
    w3 = w3
    r1 = r1
    r2 = r2
    r3 = r3
    Stopper = Stopper
    NoRequest = NoRequest
    Threads <- MCThreads
    Requests <- MCRequests
    MaxDepth = 2
INVARIANTS
    TypeOK
    OneOwner
PROPERTIES
    ExitWhenStopped
    QueuedAnswered
    ShutdownEnds
CHECK_DEADLOCK FALSE
