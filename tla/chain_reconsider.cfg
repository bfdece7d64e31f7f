SPECIFICATION Spec
CONSTANTS
    t1 = t1
    t2 = t2
    None = None
    Genesis = 0
    Blocks <- MCBlocks
    Prev <- MCPrev
    Work <- MCWork
    MaybeFaulty <- NoFaulty
    Fickle <- NoFaulty
    Threads <- OneThread
    MaxReorg = 2
    ReplayBlocks = 0
    MaxManual = 2
    MaxCrashes = 0
\* the system may rest: nothing obliges a block to arrive
CHECK_DEADLOCK FALSE
INVARIANTS
    BestChainActive
