------------------------------- MODULE SwiftTX -------------------------------
(***************************************************************************)
(* SwiftTX (swifttx.cpp): requests to lock the inputs of a transaction,    *)
(* the votes of the service nodes, the locks and their expiry, composed    *)
(* with the memory pool and the chain of TxMemPool.tla, which the locks    *)
(* filter and which complete locks may roll back (ReprocessBlocks).        *)
(*                                                                         *)
(* One handler is one step: its maps have no mutex of their own, and what  *)
(* two threads inside them at once may do is not modelled.  SPORK_2 and    *)
(* SPORK_3 are active and the chain is synchronised.                       *)
(***************************************************************************)
EXTENDS TxMemPool, FiniteSetsExt

CONSTANTS
    Nodes,          \* service nodes, by their vin
    Self,           \* the local node if it is one of them: {} or {n}
    Lockable,       \* transactions that IsIXTXValid and the script test let pass;
                    \* zerocoin spends, whose inputs are null, are left out
    VoteHeights,    \* heights a vote may name
    Required,       \* SWIFTTX_SIGNATURES_REQUIRED
    InputAge,       \* confirmations a lock asks of its inputs, 5 in the code
    ReprocessDepth, \* blocks that ReprocessBlocks disconnects
    MaxVotes        \* bound: votes on record at once

ASSUME LockableAssumption ==
    Lockable \subseteq Txs /\ \A t \in Lockable : In[t] # <<>>
ASSUME SwiftAssumption ==
    Self \subseteq Nodes /\ InputAge \in Nat /\ ReprocessDepth \in Nat

VARIABLES
    txLockReq,      \* mapTxLockReq: TRUE where the transaction is in it, FALSE
                    \* where operator[] has made an empty one
    rejected,       \* mapTxLockReqRejected
    txLockVote,     \* mapTxLockVote, by what a vote hashes: its node and transaction
    txLocks,        \* mapTxLocks: nBlockHeight, and how often each vote was added
    byExpiration    \* the keys of txLocks, first to expire first

swiftVars == <<txLockReq, rejected, txLockVote, txLocks, byExpiration, lockedInputs>>
vars == <<chain, checked, pool, swiftVars>>

\* The maps that the functions below change, as one record
Maps == [req |-> txLockReq, locks |-> txLocks, order |-> byExpiration, locked |-> lockedInputs]

-----------------------------------------------------------------------------
(* Locks and votes                                                         *)

CountSignatures(lock) ==
    IF lock.height = 0 THEN -1
    ELSE MapThenSumSet(LAMBDA v : lock.votes[v], {v \in DOMAIN lock.votes : v[2] = lock.height})
Complete(m, t) == t \in DOMAIN m.locks /\ CountSignatures(m.locks[t]) >= Required

AddSignature(lock, v) ==
    [lock EXCEPT !.votes = [w \in DOMAIN @ \cup {v} |->
        (IF w \in DOMAIN @ THEN @[w] ELSE 0) + (IF w = v THEN 1 ELSE 0)]]

NewLock(m, t, nBlockHeight) ==
    [m EXCEPT !.locks = [u \in DOMAIN @ \cup {t} |->
                            IF u = t THEN [height |-> nBlockHeight, votes |-> <<>>] ELSE @[u]],
              !.order = Append(@, t)]

\* GetInputAge.  The old coins are as old as the first of the old blocks.
TipHeight == InputAge + Len(chain)
AgeOf(o) ==
    IF o[1] \in pool.tx \/ ~HaveCoins(chain, o[1]) THEN -1
    ELSE TipHeight + 1 - (IF o[1] \in Mined(chain) THEN InputAge + HeightOf(chain, o[1]) ELSE 1)

CreateNewLock(m, t) ==
    LET nBlockHeight == TipHeight - AgeOf(In[t][1]) + 4
    IN  IF \E o \in Inputs(t) : AgeOf(o) < InputAge THEN m
        ELSE IF t \in DOMAIN m.locks THEN [m EXCEPT !.locks[t].height = nBlockHeight]
        ELSE NewLock(m, t, nBlockHeight)

\* The inputs of vin that another transaction than t has locked
ConflictingInputs(m, vin, t) ==
    {i \in DOMAIN vin : vin[i] \in DOMAIN m.locked /\ m.locked[vin[i]] # t}

\* The members of sequence q that are in S
Among(q, S) == FoldLeft(LAMBDA found, t : IF t \in S THEN Append(found, t) ELSE found, <<>>, q)

\* Both locks of the first conflict expire now: before the others, and after
\* those of the first k locks that have expired already
CancelBoth(m, vin, t, k) ==
    LET both == {t, m.locked[vin[Min(ConflictingInputs(m, vin, t))]]}
        expired == ToSet(SubSeq(m.order, 1, k)) \ both
        others == ToSet(m.order) \ (both \cup expired)
    IN  [m EXCEPT !.order = Among(@, expired) \o Among(@, both) \o Among(@, others)]

LockInputs(m, vin, t) ==
    [m EXCEPT !.locked = [o \in DOMAIN @ \cup ToSet(vin) |-> IF o \in DOMAIN @ THEN @[o] ELSE t]]

\* mapTxLockReq.insert, which leaves an entry that is there alone
Insert(req, t, known) == [u \in DOMAIN req \cup {t} |-> IF u \in DOMAIN req THEN req[u] ELSE known]

\* The vin of mapTxLockReq[t]
ReqInputs(m, t) == IF m.req[t] THEN In[t] ELSE <<>>

\* ProcessConsensusVote once the vote is known to be valid, when the first k
\* locks have expired
CountVote(m, n, t, h, k) ==
    LET found == IF t \in DOMAIN m.locks THEN m ELSE NewLock(m, t, 0)
        added == [found EXCEPT !.locks[t] = AddSignature(@, <<n, h>>)]
        asked == [added EXCEPT !.req = Insert(@, t, FALSE)]
        vin == ReqInputs(asked, t)
    IN  IF ~Complete(added, t) THEN added
        ELSE IF ConflictingInputs(asked, vin, t) # {} THEN CancelBoth(asked, vin, t, k)
        ELSE LockInputs(asked, vin, t)

\* Whether it goes on to ReprocessBlocks
VoteReprocesses(m, t) ==
    /\ t \in rejected
    /\ Complete(m, t)
    /\ ConflictingInputs(m, ReqInputs(m, t), t) = {}

-----------------------------------------------------------------------------
(* The steps                                                               *)

SetMaps(m) ==
    /\ txLockReq' = m.req
    /\ txLocks' = m.locks
    /\ byExpiration' = m.order
    /\ lockedInputs' = m.locked

\* DisconnectBlocksAndReprocess; ActivateBestChain then connects what it finds
\* best, by the steps of TxMemPool.  Below the old blocks nothing changes.
ReprocessBlocks(locked, refused) ==
    LET Disconnect(s, i) ==
            IF s.chain = <<>> THEN s
            ELSE [chain |-> Front(s.chain), pool |-> Resurrect(s.pool, s.chain, locked, refused)]
        end == FoldLeft(Disconnect, [chain |-> chain, pool |-> pool], [i \in 1 .. ReprocessDepth |-> i])
    IN  chain' = end.chain /\ pool' = end.pool /\ UNCHANGED checked

Init ==
    /\ PoolInit
    /\ lockedInputs = <<>>
    /\ txLockReq = <<>>
    /\ rejected = {}
    /\ txLockVote = {}
    /\ txLocks = <<>>
    /\ byExpiration = <<>>

\* "ix", the transaction enters the pool and the local node votes for it
LockRequest(t) ==
    /\ t \notin DOMAIN txLockReq \cup rejected
    /\ AcceptToMemoryPool(t)
    /\ LET m == CreateNewLock(Maps, t) IN SetMaps([m EXCEPT !.req = Insert(@, t, TRUE)])
    /\ \E votes \in {{}, Self \X {t}} : txLockVote' = txLockVote \cup votes
    /\ UNCHANGED rejected

\* "ix", the transaction does not enter the pool: it conflicts, is there
\* already, or is refused for its fee or scripts
LockRequestRejected(t) ==
    /\ t \notin DOMAIN txLockReq \cup rejected
    /\ rejected' = rejected \cup {t}
    /\ LET m == LockInputs(CreateNewLock(Maps, t), In[t], t)
       IN  IF ~Complete(m, t) THEN SetMaps(m) /\ UNCHANGED <<chain, checked, pool>>
           ELSE IF ConflictingInputs(m, In[t], t) # {}
                THEN /\ \E k \in 0 .. Len(byExpiration) : SetMaps(CancelBoth(m, In[t], t, k))
                     /\ UNCHANGED <<chain, checked, pool>>
           ELSE /\ SetMaps([m EXCEPT !.req = Insert(@, t, TRUE)])
                /\ \E refused \in SUBSET Mined(chain) : ReprocessBlocks(m.locked, refused)
    /\ UNCHANGED txLockVote

\* mutant: the vote is not recorded
TxLockVoteUnrecorded(n, t, h, valid) ==
    /\ <<n, t>> \notin txLockVote
    /\ \E k \in 0 .. Len(byExpiration) :
       LET m == IF valid THEN CountVote(Maps, n, t, h, k) ELSE Maps
       IN  /\ SetMaps(m)
           /\ IF valid /\ VoteReprocesses(m, t)
              THEN \E refused \in SUBSET Mined(chain) : ReprocessBlocks(m.locked, refused)
              ELSE UNCHANGED <<chain, checked, pool>>
    /\ UNCHANGED <<rejected, txLockVote>>

\* "txlvote"; one that is not valid (an unknown node, a rank that is too low, a
\* bad signature) is recorded and not counted
TxLockVote(n, t, h, valid) ==
    /\ <<n, t>> \notin txLockVote
    /\ Cardinality(txLockVote) < MaxVotes
    /\ txLockVote' = txLockVote \cup {<<n, t>>}
    /\ \E k \in 0 .. Len(byExpiration) :
       LET m == IF valid THEN CountVote(Maps, n, t, h, k) ELSE Maps
       IN  /\ SetMaps(m)
           /\ IF valid /\ VoteReprocesses(m, t)
              THEN \E refused \in SUBSET Mined(chain) : ReprocessBlocks(m.locked, refused)
              ELSE UNCHANGED <<chain, checked, pool>>
    /\ UNCHANGED rejected

\* sendrawtransaction with swiftx: the request is entered before the pool decides
SendRawTransaction(t) ==
    /\ t \notin pool.tx /\ ~HaveCoins(chain, t)
    /\ SetMaps(CreateNewLock([Maps EXCEPT !.req = Insert(@, t, TRUE)], t))
    /\ AcceptToMemoryPool(t) \/ UNCHANGED <<chain, checked, pool>>
    /\ UNCHANGED <<rejected, txLockVote>>

\* The wallet asks for a lock of a transaction of its own that is in the pool
RelayWalletTransaction(t) ==
    /\ t \in pool.tx
    /\ SetMaps(CreateNewLock([Maps EXCEPT !.req = Insert(@, t, TRUE)], t))
    /\ UNCHANGED <<chain, checked, pool, rejected, txLockVote>>

\* mutant: the last of the expired locks is visited again
CleanButOrder(k) ==
    LET gone == ToSet(SubSeq(byExpiration, 1, k))
        asked == gone \cap DOMAIN txLockReq
        freed == UNION {ToSet(ReqInputs(Maps, t)) : t \in asked}
    IN  /\ byExpiration' = SubSeq(byExpiration, k, Len(byExpiration))
        /\ txLocks' = Restrict(txLocks, DOMAIN txLocks \ gone)
        /\ lockedInputs' = Restrict(lockedInputs, DOMAIN lockedInputs \ freed)
        /\ txLockReq' = Restrict(txLockReq, DOMAIN txLockReq \ asked)
        /\ rejected' = rejected \ asked
        /\ txLockVote' = txLockVote \ UNION {{<<v[1], t>> : v \in DOMAIN txLocks[t].votes} : t \in asked}
        /\ UNCHANGED <<chain, checked, pool>>

\* CleanTransactionLocksList, when the first k locks to expire have expired.
\* Of a lock without a request only the lock itself goes.
CleanTransactionLocksList(k) ==
    LET gone == ToSet(SubSeq(byExpiration, 1, k))
        asked == gone \cap DOMAIN txLockReq
        freed == UNION {ToSet(ReqInputs(Maps, t)) : t \in asked}
    IN  /\ byExpiration' = SubSeq(byExpiration, k + 1, Len(byExpiration))
        /\ txLocks' = Restrict(txLocks, DOMAIN txLocks \ gone)
        /\ lockedInputs' = Restrict(lockedInputs, DOMAIN lockedInputs \ freed)
        /\ txLockReq' = Restrict(txLockReq, DOMAIN txLockReq \ asked)
        /\ rejected' = rejected \ asked
        /\ txLockVote' = txLockVote \ UNION {{<<v[1], t>> : v \in DOMAIN txLocks[t].votes} : t \in asked}
        /\ UNCHANGED <<chain, checked, pool>>

Next ==
    \/ PoolNext /\ UNCHANGED swiftVars
    \/ \E t \in Lockable :
           \/ LockRequest(t)
           \/ LockRequestRejected(t)
           \/ SendRawTransaction(t)
           \/ RelayWalletTransaction(t)
           \/ \E n \in Nodes, h \in VoteHeights, valid \in BOOLEAN : TxLockVote(n, t, h, valid)
    \/ \E k \in 1 .. Len(byExpiration) : CleanTransactionLocksList(k)

Spec == Init /\ [][Next]_vars

-----------------------------------------------------------------------------

TypeOK ==
    /\ PoolTypeOK
    /\ DOMAIN lockedInputs \subseteq Outpoints
    /\ \A o \in DOMAIN lockedInputs : lockedInputs[o] \in Lockable
    /\ DOMAIN txLockReq \subseteq Lockable
    /\ \A t \in DOMAIN txLockReq : txLockReq[t] \in BOOLEAN
    /\ rejected \subseteq Lockable
    /\ txLockVote \subseteq Nodes \X Lockable
    /\ ToSet(byExpiration) = DOMAIN txLocks /\ IsInjective(byExpiration)
    /\ DOMAIN txLocks \subseteq Lockable
    /\ \A t \in DOMAIN txLocks :
           /\ txLocks[t].height \in Nat
           /\ DOMAIN txLocks[t].votes \subseteq Nodes \X VoteHeights
           /\ \A v \in DOMAIN txLocks[t].votes : txLocks[t].votes[v] \in Nat \ {0}

\* A lock counts the vote of a node once, however often the vote comes, at
\* whatever height it names, and whenever locks and votes have expired between.
OneVotePerNode ==
    \A t \in DOMAIN txLocks : \A v, w \in DOMAIN txLocks[t].votes :
        /\ txLocks[t].votes[v] = 1
        /\ v[1] = w[1] => v = w

Holds(t) == \A o \in Inputs(t) : o \in DOMAIN lockedInputs /\ lockedInputs[o] = t

\* A transaction of the pool that spends coins of the chain and holds the lock
\* of all of them leaves the pool only into the chain or in a reorganisation:
\* nothing that conflicts with it is mined, unless the block was checked
\* (before cs_main was taken) when the inputs were not yet locked.
LockedStays ==
    [][\A t \in pool.tx \ pool'.tx :
           Holds(t) /\ Inputs(t) # {} /\ Inputs(t) \subseteq Unspent(chain) =>
               \/ t \in Mined(chain')
               \/ Len(chain') < Len(chain)
               \/ Last(chain') \in checked]_vars

\* "only reject blocks when it's based on complete consensus" (main.cpp:4315): a
\* block that would extend the tip and is refused for a lock conflicts with a
\* lock that has the signatures it needs.
BlocksRefusedByConsensus ==
    \A vtx \in Blocks :
        ValidBlock(chain, vtx) /\ ~CheckBlock(lockedInputs, vtx) =>
            \E t \in ToSet(vtx) : \E o \in Inputs(t) \cap DOMAIN lockedInputs :
                lockedInputs[o] # t /\ Complete(Maps, lockedInputs[o])
=============================================================================
