SPECIFICATION Spec
CONSTANTS
    None = None
    Genesis = 0
    Blocks <- MCBlocks
    Prev <- MCPrev
    Txs <- MCTxs
    Contents <- MCContents
    In <- MCIn
    Out <- MCOut
    Base <- MCBase
    Stakes <- MCStakes
    Serial <- MCSerial
    Mint <- MCMint
    Positions <- MCPositions
    Serials <- MCSerials
    Pubcoins <- MCPubcoins
    MintsChecked = FALSE
    Maturity = 1
    MaxReorg = 1
    StartDepth = 2
    RpcDepth = 1
    CacheFits = TRUE
    MaxVerify = 2
    MaxStops = 3
INVARIANTS
    TypeOK
    LedgerExact
    StoredExact
    ZerocoinsRecorded
    NoSerialTwice
    StakeSpentExact
    UndoIsClean
