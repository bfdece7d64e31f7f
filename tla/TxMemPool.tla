------------------------------ MODULE TxMemPool ------------------------------
(***************************************************************************)
(* The memory pool (txmempool.cpp) and the code of main.cpp that feeds and *)
(* prunes it: AcceptToMemoryPool, ConnectTip, DisconnectTip, and the part  *)
(* of ProcessNewBlock that checks a block before it takes cs_main.         *)
(*                                                                         *)
(* pcoinsTip is what Ledger.tla shows it to be, the coins of the active    *)
(* chain, and is computed from it.  Which blocks come, and when the tip is *)
(* disconnected, is left open (ChainState.tla).  mapLockedInputs is read   *)
(* here and written by SwiftTX.tla.  Fees, priorities, standardness and    *)
(* scripts may refuse any transaction; orphan transactions, which wait     *)
(* outside the pool, are not part of this module.                          *)
(***************************************************************************)
EXTENDS Integers, Sequences, FiniteSets, SequencesExt

CONSTANTS
    Txs,            \* transactions, by hash
    In,             \* vin without the null inputs of zerocoin spends, [Txs -> Seq(Outpoints)]
    Outs,           \* the number of outputs, [Txs -> Nat]
    OldCoins,       \* outpoints of old, mature transactions that are not in Txs
    Generated,      \* the coinbases and coinstakes
    Serial,         \* serials a zerocoin spend reveals, [Txs -> SUBSET STRING]
    Blocks,         \* vtx of the blocks that may come, a set of sequences over Txs
    Maturity,       \* COINBASE_MATURITY
    MaxHeight       \* bound: blocks above the old ones

VARIABLES
    chain,          \* chainActive above the old blocks: the vtx of each block
    checked,        \* blocks a thread in ProcessNewBlock has checked, not yet connected
    pool,           \* [tx |-> the keys of mapTx, next |-> mapNextTx by transaction]
    lockedInputs    \* mapLockedInputs

poolVars == <<chain, checked, pool>>

Outputs(t) == {<<t, n>> : n \in 1 .. Outs[t]}
Inputs(t) == ToSet(In[t])
Outpoints == OldCoins \cup UNION {Outputs(t) : t \in Txs}
IsZerocoinSpend(t) == Serial[t] # {}

ASSUME TxsAssumption ==
    /\ IsFiniteSet(Txs)
    /\ Outs \in [Txs -> Nat]
    /\ In \in [Txs -> Seq(Outpoints)]
    /\ \A o \in OldCoins : o[1] \notin Txs
ASSUME BlocksAssumption == Blocks \subseteq Seq(Txs)
\* CheckTransaction: all inputs of a zerocoin spend are zerocoins, and only a
\* coinbase or coinstake has no other input
ASSUME InputsAssumption ==
    \A t \in Txs : IF IsZerocoinSpend(t) THEN In[t] = <<>> ELSE In[t] # <<>> \/ t \in Generated
ASSUME LimitsAssumption == Maturity \in Nat /\ MaxHeight \in Nat

-----------------------------------------------------------------------------
(* The coins of a chain c                                                  *)

Mined(c) == UNION {ToSet(c[i]) : i \in DOMAIN c}
HeightOf(c, t) == CHOOSE i \in DOMAIN c : t \in ToSet(c[i])
Unspent(c) ==
    (OldCoins \cup UNION {Outputs(t) : t \in Mined(c)}) \ UNION {Inputs(t) : t \in Mined(c)}
HaveCoins(c, h) == \E o \in Unspent(c) : o[1] = h
Serials(c) == UNION {Serial[t] : t \in Mined(c)}

\* Too young for a transaction in a block at nSpendHeight
Immature(c, h, nSpendHeight) ==
    h \in Generated \cap Mined(c) /\ nSpendHeight - HeightOf(c, h) < Maturity
CheckInput(c, o, nSpendHeight) == o \in Unspent(c) /\ ~Immature(c, o[1], nSpendHeight)

\* What ConnectBlock demands of the i-th transaction of a block on c
ValidTx(c, vtx, i) ==
    LET view == Append(c, SubSeq(vtx, 1, i - 1))
        tx == vtx[i]
    IN  /\ tx \notin Mined(view)
        /\ tx \in Generated => i = 1
        /\ Serial[tx] \cap Serials(view) = {}
        /\ \A o \in Inputs(tx) : CheckInput(view, o, Len(view))
ValidBlock(c, vtx) == \A i \in DOMAIN vtx : ValidTx(c, vtx, i)

ConflictsWithLock(locked, t) ==
    \E o \in Inputs(t) \cap DOMAIN locked : locked[o] # t
\* mutant: blocks are not filtered by the locks
CheckBlockUnlocked(locked, vtx) == TRUE

\* The SwiftTX part of CheckBlock (SPORK_3 is active)
CheckBlock(locked, vtx) == \A t \in ToSet(vtx) : ~ConflictsWithLock(locked, t)

-----------------------------------------------------------------------------
(* CTxMemPool                                                              *)

AddUnchecked(p, t) ==
    [tx |-> p.tx \cup {t},
     next |-> [o \in DOMAIN p.next \cup Inputs(t) |-> IF o \in Inputs(t) THEN t ELSE p.next[o]]]

\* The transactions of the pool that spend outputs of those of S
Children(p, S) == {p.next[o] : o \in {q \in DOMAIN p.next : q[1] \in S}}
Descendants(p, t) ==
    LET reach[n \in 0 .. Cardinality(Txs)] ==
            IF n = 0 THEN {t} ELSE reach[n - 1] \cup Children(p, reach[n - 1])
    IN  reach[Cardinality(Txs)]

RemoveTx(p, t, fRecursive) ==
    LET gone == p.tx \cap (IF fRecursive THEN Descendants(p, t) ELSE {t})
        erased == UNION {Inputs(u) : u \in gone}
    IN  [tx |-> p.tx \ gone, next |-> Restrict(p.next, DOMAIN p.next \ erased)]

RemoveConflicts(p, t) ==
    LET RemoveSpender(q, o) ==
            IF o \in DOMAIN q.next /\ q.next[o] # t THEN RemoveTx(q, q.next[o], TRUE) ELSE q
    IN  FoldLeft(RemoveSpender, p, In[t])

\* mutant: what depends on a mined transaction goes with it
RemoveForBlockDeep(p, vtx) ==
    FoldLeft(LAMBDA q, t : RemoveConflicts(RemoveTx(q, t, TRUE), t), p, vtx)

RemoveForBlock(p, vtx) ==
    FoldLeft(LAMBDA q, t : RemoveConflicts(RemoveTx(q, t, FALSE), t), p, vtx)

\* The entries with an input that is neither of the pool nor a mature coin.  A
\* zerocoin spend has a null input, which is neither.
CoinbaseSpends(p, c) ==
    {t \in p.tx :
        \/ IsZerocoinSpend(t)
        \/ \E o \in Inputs(t) :
               /\ o[1] \notin p.tx
               /\ ~HaveCoins(c, o[1]) \/ Immature(c, o[1], Len(c) + 1)}
RemoveCoinbaseSpends(p, c) ==
    FoldLeft(LAMBDA q, t : RemoveTx(q, t, TRUE), p, SetToSeq(CoinbaseSpends(p, c)))

\* AcceptToMemoryPool says yes, fees and scripts permitting: c is the chain of
\* pcoinsTip, active is chainActive, which differ while the tip is disconnected
CanAccept(c, active, p, locked, t) ==
    /\ t \notin Generated \cup p.tx
    /\ ~ConflictsWithLock(locked, t)
    /\ IF IsZerocoinSpend(t)
       THEN t \notin Mined(active) /\ Serial[t] \cap Serials(c) = {}
       ELSE /\ Inputs(t) \cap DOMAIN p.next = {}
            /\ ~HaveCoins(c, t)
            /\ \A o \in Inputs(t) :
                   IF o[1] \in p.tx THEN o \in Outputs(o[1]) ELSE CheckInput(c, o, Len(c) + 1)

\* mutant: what has become immature stays
ResurrectOnly(p, active, locked, refused) ==
    LET Return(q, t) ==
            IF t \notin refused /\ CanAccept(Front(active), active, q, locked, t)
            THEN AddUnchecked(q, t)
            ELSE RemoveTx(q, t, TRUE)
    IN  FoldLeft(Return, p, Last(active))

\* DisconnectTip on the pool; refused are the transactions that policy refuses
Resurrect(p, active, locked, refused) ==
    LET c == Front(active)
        Return(q, t) ==
            IF t \notin refused /\ CanAccept(c, active, q, locked, t)
            THEN AddUnchecked(q, t)
            ELSE RemoveTx(q, t, TRUE)
    IN  RemoveCoinbaseSpends(FoldLeft(Return, p, Last(active)), c)

-----------------------------------------------------------------------------
(* The steps, each under cs_main but CheckNewBlock                         *)

PoolInit ==
    /\ chain = <<>>
    /\ checked = {}
    /\ pool = [tx |-> {}, next |-> <<>>]

AcceptToMemoryPool(t) ==
    /\ CanAccept(chain, chain, pool, lockedInputs, t)
    /\ pool' = AddUnchecked(pool, t)
    /\ UNCHANGED <<chain, checked>>

\* ProcessNewBlock checks a block before it takes cs_main
CheckNewBlock(vtx) ==
    /\ checked = {}
    /\ CheckBlock(lockedInputs, vtx)
    /\ checked' = {vtx}
    /\ UNCHANGED <<chain, pool>>

\* ... and returns; the block may not have been the best one
NewBlockDone ==
    /\ checked # {}
    /\ checked' = {}
    /\ UNCHANGED <<chain, pool>>

\* A block is checked again unless its thread has done so already
ConnectTip(vtx) ==
    /\ Len(chain) < MaxHeight
    /\ vtx \in checked \/ CheckBlock(lockedInputs, vtx)
    /\ ValidBlock(chain, vtx)
    /\ chain' = Append(chain, vtx)
    /\ checked' = checked \ {vtx}
    /\ pool' = RemoveForBlock(pool, vtx)

DisconnectTip(refused) ==
    /\ chain # <<>>
    /\ chain' = Front(chain)
    /\ pool' = Resurrect(pool, chain, lockedInputs, refused)
    /\ UNCHANGED checked

PoolNext ==
    \/ \E t \in Txs : AcceptToMemoryPool(t)
    \/ \E vtx \in Blocks : CheckNewBlock(vtx) \/ ConnectTip(vtx)
    \/ NewBlockDone
    \/ \E refused \in SUBSET (IF chain = <<>> THEN {} ELSE ToSet(Last(chain))) : DisconnectTip(refused)

-----------------------------------------------------------------------------

PoolTypeOK ==
    /\ chain \in Seq(Blocks) /\ Len(chain) <= MaxHeight
    /\ checked \in SUBSET Blocks
    /\ pool.tx \in SUBSET Txs
    /\ DOMAIN pool.next \subseteq Outpoints
    /\ \A o \in DOMAIN pool.next : pool.next[o] \in Txs

\* CTxMemPool::check: mapNextTx holds the inputs of the entries and nothing
\* else, so that no two entries spend one output, and each input is an output
\* of another entry or a coin of the tip; beyond it, that coin is mature for
\* the next block.  After each reorganisation, refusal and conflict.
PoolConsistent ==
    /\ DOMAIN pool.next = UNION {Inputs(t) : t \in pool.tx}
    /\ \A t \in pool.tx : \A o \in Inputs(t) :
           /\ pool.next[o] = t
           /\ \/ o[1] \in pool.tx /\ o \in Outputs(o[1])
              \/ CheckInput(chain, o, Len(chain) + 1)

\* The largest subset of S that is consistent with the coins of chain c
Keepable(S, c) ==
    UNION {K \in SUBSET S :
        \A t \in K : \A o \in Inputs(t) :
            \/ o[1] \in K /\ o \in Outputs(o[1])
            \/ CheckInput(c, o, Len(c) + 1)}

\* The transactions that a step could leave in the pool.  Zerocoin spends are
\* excepted when the tip is disconnected, see removeCoinbaseSpends.
Candidates ==
    {t \in (pool.tx \cup pool'.tx) \ Mined(chain') :
        Len(chain') < Len(chain) => ~IsZerocoinSpend(t)}

\* No step loses a transaction that could stay: one that leaves the pool was
\* mined, or an input of it, or of one it depends on, is spent, immature or gone.
DroppedForCause ==
    [][(pool.tx \ pool'.tx) \cap Keepable(Candidates, chain') = {}]_<<chain, checked, pool, lockedInputs>>
=============================================================================
