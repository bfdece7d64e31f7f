------------------------------ MODULE MCLedger ------------------------------
(* A chain 1 <- 2 <- 3 <- 4 and a branch 2 <- 5 <- 6.  The zerocoin spends   *)
(* "z" and "y" reveal the same serial; "z" is in both branches, "y" comes    *)
(* after it in both, so that 4 and 6 are valid only if "z" was forgotten.    *)
EXTENDS Ledger

MCBlocks == 0 .. 6
MCPrev == [b \in 1 .. 6 |-> CASE b = 5 -> 2 [] OTHER -> b - 1]
MCTxs == {"c1", "c2", "c3", "st", "a", "d", "z", "y"}
\* st and d take one output of c1 each, d the reward of st too; a takes what d
\* left.  The first output of the coinstake is the empty one that marks it.
MCContents ==
    [b \in MCBlocks |->
        CASE b = 0 -> <<>>
          [] b = 1 -> <<"c1">>
          [] b = 2 -> <<"c2", "st">>
          [] b = 3 -> <<"c3", "d", "z">>
          [] b = 4 -> <<"a", "y">>
          [] b = 5 -> <<"d", "z", "a">>
          [] b = 6 -> <<"y">>]
MCIn ==
    [t \in MCTxs |->
        CASE t = "st" -> <<<<"c1", 1>>>>
          [] t = "d"  -> <<<<"c1", 2>>, <<"st", 2>>>>
          [] t = "a"  -> <<<<"d", 1>>, <<"d", 2>>>>
          [] OTHER -> <<>>]
MCOut == [t \in MCTxs |-> IF t \in {"c1", "st", "d"} THEN {1, 2} ELSE {1}]
MCBase == {"c1", "c2", "c3"}
MCStakes == {"st"}
MCSerial == [t \in MCTxs |-> IF t \in {"z", "y"} THEN {"s"} ELSE {}]
\* st and a mint the same coin, which the chain parameters let pass
MCMint == [t \in MCTxs |-> CASE t = "d" -> {"p"} [] t \in {"st", "a"} -> {"q"} [] OTHER -> {}]
MCPositions == 1 .. 2
MCSerials == {"s"}
MCPubcoins == {"p", "q"}

\* The serial revealed in the first block and again in the fourth
ApartContents ==
    [b \in MCBlocks |->
        CASE b = 0 -> <<>>
          [] b = 1 -> <<"c1", "z">>
          [] b = 2 -> <<"c2", "st">>
          [] b = 3 -> <<"c3", "d">>
          [] b = 4 -> <<"a", "y">>
          [] b = 5 -> <<"d">>
          [] b = 6 -> <<"a">>]

\* A coinstake both outputs of which are spent, the marker too
FullIn == [MCIn EXCEPT !["d"] = <<<<"st", 1>>, <<"st", 2>>>>]
=============================================================================
