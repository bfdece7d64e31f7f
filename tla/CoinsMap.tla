------------------------------ MODULE CoinsMap ------------------------------
(***************************************************************************)
(* What block connection expects of the coins views, with no cache in      *)
(* them: three versions of the set of unspent outputs, each with the block *)
(* whose state it is.  CoinsCache.tla implements it.                       *)
(***************************************************************************)
CONSTANTS
    Txids,  \* transactions
    Outs,   \* output positions; the coins of a transaction are a subset
    Blocks, \* block hashes
    None    \* the null hash

VARIABLES
    stored,     \* survives a crash: [coins, best]
    current,    \* pcoinsTip: the state after the last connected block
    working,    \* the view in which a block is being (dis)connected
    open        \* whether there is such a view

vars == <<stored, current, working, open>>

Init ==
    /\ stored = [coins |-> [x \in Txids |-> {}], best |-> None]
    /\ current = stored
    /\ working = stored
    /\ open = FALSE

Open ==
    /\ ~open /\ open' = TRUE
    /\ UNCHANGED <<stored, current, working>>

Write ==
    /\ open
    /\ \E x \in Txids, c \in SUBSET Outs :
          working' = [working EXCEPT !.coins = [working.coins EXCEPT ![x] = c]]
    /\ UNCHANGED <<stored, current, open>>

SetBest ==
    /\ open
    /\ \E b \in Blocks : working' = [working EXCEPT !.best = b]
    /\ UNCHANGED <<stored, current, open>>

\* The whole view becomes current, or none of it
Commit ==
    /\ open /\ open' = FALSE
    /\ current' = working
    /\ UNCHANGED <<stored, working>>

Discard ==
    /\ open /\ open' = FALSE
    /\ working' = current
    /\ UNCHANGED <<stored, current>>

\* Coins and best block reach the disk together
Persist ==
    /\ ~open
    /\ stored' = current
    /\ UNCHANGED <<current, working, open>>

\* The coins cannot be stored: their changes are lost, the best block is not, and
\* the two no longer belong together
LoseChanges ==
    /\ ~open
    /\ current' = [current EXCEPT !.coins = stored.coins]
    /\ working' = current'
    /\ UNCHANGED <<stored, open>>

Crash ==
    /\ current' = stored
    /\ working' = stored
    /\ open' = FALSE
    /\ UNCHANGED stored

Next == Open \/ Write \/ SetBest \/ Commit \/ Discard \/ Persist \/ LoseChanges \/ Crash

Spec == Init /\ [][Next]_vars
=============================================================================
