SPECIFICATION Spec
CONSTANTS
    None = None
    Genesis = 0
    Blocks <- MCBlocks
    Prev <- MCPrev
    Txs <- MCTxs
    Contents <- ApartContents
    In <- MCIn
    Out <- MCOut
    Base <- MCBase
    Stakes <- MCStakes
    Serial <- MCSerial
    Mint <- MCMint
    Positions <- MCPositions
    Serials <- MCSerials
    Pubcoins <- MCPubcoins
    MintsChecked = FALSE
    Maturity = 1
    MaxReorg = 1
    StartDepth = 1
    RpcDepth = 3
    CacheFits = TRUE
    MaxVerify = 1
    MaxStops = 1
INVARIANTS
    NoSerialTwice
