SPECIFICATION Spec
CONSTANTS
    t1 = t1
    t2 = t2
    None = None
    Genesis = 0
    Blocks <- MCBlocks
    Prev <- MCPrev
    Work <- MCWork
    MaybeFaulty <- MCFaulty
    Fickle <- MCFickle
    Threads <- OneThread
    MaxReorg = 2
    ReplayBlocks = 0
    MaxManual = 1
    MaxCrashes = 1
\* the system may rest: nothing obliges a block to arrive
CHECK_DEADLOCK FALSE
INVARIANTS
    TypeOK
    LinkedExact
    UnlinkedExact
    NoStaleCandidate
    ActiveChainSound
    StoredChainComplete
    PruneLeavesOne
