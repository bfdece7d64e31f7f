---------------------------- MODULE MCChainState ----------------------------
(* Two branches from the genesis block 0: 1 <- 2 and 3 <- 4 <- 5.           *)
EXTENDS ChainState, TLC

MCBlocks == 0 .. 5
MCPrev == (1 :> 0) @@ (2 :> 1) @@ (3 :> 0) @@ (4 :> 3) @@ (5 :> 4)
MCWork == (0 :> 1) @@ (1 :> 2) @@ (2 :> 3) @@ (3 :> 2) @@ (4 :> 3) @@ (5 :> 4)
MCFaulty == {4}
NoFaulty == {}
MCFickle == {1}

CONSTANTS t1, t2
MCThreads == {t1, t2}
OneThread == {t1}
ThreadSymmetry == Permutations(MCThreads)
=============================================================================
