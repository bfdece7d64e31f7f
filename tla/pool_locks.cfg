SPECIFICATION Spec
CONSTANTS
    n1 = n1
    n2 = n2
    Txs <- MCTxs
    In <- MCIn
    Outs <- MCOuts
    OldCoins <- MCOldCoins
    Generated <- MCGenerated
    Serial <- MCSerial
    Blocks <- MCBlocks
    Maturity = 2
    MaxHeight = 2
    Nodes <- MCNodes
    Self = {n2}
    Lockable <- MCLockable
    VoteHeights = {4, 5}
    Required = 2
    InputAge = 2
    ReprocessDepth = 2
    MaxVotes = 2
INVARIANTS
    TypeOK
    PoolConsistent
    OneVotePerNode
PROPERTIES
    DroppedForCause
    LockedStays
CHECK_DEADLOCK FALSE
