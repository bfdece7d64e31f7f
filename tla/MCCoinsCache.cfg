SPECIFICATION Spec
CONSTANTS
    x1 = x1
    x2 = x2
    o1 = o1
    o2 = o2
    b1 = b1
    b2 = b2
    None = None
    Absent = Absent
    Txids <- MCTxids
    Outs <- MCOuts
    Blocks <- MCBlocks
SYMMETRY MCSymmetry
INVARIANTS
    TypeOK
    FreshSound
    CleanEqualsParent
    BatchWriteAsserts
PROPERTIES
    ImplementsMap
