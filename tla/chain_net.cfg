SPECIFICATION LiveSpec
CONSTANTS
    t1 = t1
    t2 = t2
    None = None
    Genesis = 0
    Blocks <- MCBlocks
    Prev <- MCPrev
    Work <- MCWork
    MaybeFaulty <- MCFaulty
    Fickle <- MCFickle
    Threads <- MCThreads
    MaxReorg = 2
    ReplayBlocks = 0
    MaxManual = 0
    MaxCrashes = 0
\* the system may rest: nothing obliges a block to arrive
CHECK_DEADLOCK FALSE
INVARIANTS
    CandidatesAtRest
    FailureHasCause
    BestChainActive
PROPERTIES
    CallsReturn
