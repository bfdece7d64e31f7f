---------------------------- MODULE MCCoinsCache ----------------------------
EXTENDS CoinsCache, TLC

CONSTANTS x1, x2, o1, o2, b1, b2
MCTxids == {x1, x2}
MCOuts == {o1, o2}
MCBlocks == {b1, b2}
MCSymmetry == Permutations(MCTxids) \cup Permutations(MCOuts) \cup Permutations(MCBlocks)
=============================================================================
