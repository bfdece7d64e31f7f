------------------------------ MODULE MCSwiftTX ------------------------------
(* "a" and "c" spend the same old coin, "b" what "a" and the zerocoin spend   *)
(* "z" give, "d" the coinstake "s".                                          *)
EXTENDS SwiftTX, TLC
CONSTANTS n1, n2

MCTxs == {"a", "b", "c", "d", "s", "z"}
MCIn ==
    [t \in MCTxs |->
        CASE t = "a" -> <<<<"g", 1>>>>
          [] t = "b" -> <<<<"a", 1>>, <<"z", 1>>>>
          [] t = "c" -> <<<<"g", 1>>>>
          [] t = "d" -> <<<<"s", 1>>>>
          [] t = "s" -> <<<<"g", 2>>>>
          [] t = "z" -> <<>>]
MCOuts == [t \in MCTxs |-> IF t \in {"a", "s", "z"} THEN 1 ELSE 0]
MCOldCoins == {<<"g", 1>>, <<"g", 2>>}
MCGenerated == {"s"}
MCSerial == [t \in MCTxs |-> IF t = "z" THEN {"serial"} ELSE {}]
MCBlocks == {<<"s", "a">>, <<"z">>}
MCLockable == {"a", "c"}
MCNodes == {n1, n2}
=============================================================================
