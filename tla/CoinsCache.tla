----------------------------- MODULE CoinsCache -----------------------------
(***************************************************************************)
(* The layers of the set of unspent outputs (coins.cpp, txdb.cpp): the     *)
(* coins database, pcoinsTip over it, and the short-lived view over        *)
(* pcoinsTip in which ConnectTip or DisconnectTip works on one block.      *)
(* Both caches are CCoinsViewCache objects: an entry is loaded at the      *)
(* first read, carries the flags DIRTY and FRESH, and is merged into the   *)
(* layer below by BatchWrite.  cs_main is held throughout.                 *)
(*                                                                         *)
(* The coins of a transaction are the set of its unspent outputs; {} is a  *)
(* pruned CCoins.                                                          *)
(***************************************************************************)
EXTENDS Naturals

CONSTANTS
    Txids,  \* transactions
    Outs,   \* output positions
    Blocks, \* block hashes
    None,   \* the null hash
    Absent  \* "not in the map"

Coins == SUBSET Outs
\* CCoinsCacheEntry
Entry == [coins : Coins, flags : SUBSET {"DIRTY", "FRESH"}]

ASSUME NamesAssumption == None \notin Blocks /\ Absent \notin Entry

VARIABLES
    db,         \* the 'c' records of the database, {} where there is none
    dbBest,     \* its 'B' record
    tip,        \* cacheCoins of pcoinsTip
    tipBest,    \* its hashBlock, None until it is read or set
    view,       \* cacheCoins of the block's view
    viewBest,   \* its hashBlock
    open        \* whether the view exists

vars == <<db, dbBest, tip, tipBest, view, viewBest, open>>

EmptyCache == [x \in Txids |-> Absent]

TypeOK ==
    /\ db \in [Txids -> Coins]
    /\ dbBest \in Blocks \cup {None}
    /\ tip \in [Txids -> Entry \cup {Absent}]
    /\ tipBest \in Blocks \cup {None}
    /\ view \in [Txids -> Entry \cup {Absent}]
    /\ viewBest \in Blocks \cup {None}
    /\ open \in BOOLEAN
    /\ ~open => view = EmptyCache /\ viewBest = None

Has(cache, x) == cache[x] # Absent
Marked(cache, x, flag) == Has(cache, x) /\ flag \in cache[x].flags

\* A read through a cache over base (a cache or, for tip, the database)
Value(cache, base, x) == IF Has(cache, x) THEN cache[x].coins ELSE base[x]
TipValue == [x \in Txids |-> Value(tip, db, x)]
ViewValue == [x \in Txids |-> Value(view, TipValue, x)]
TipBestBlock == IF tipBest = None THEN dbBest ELSE tipBest
ViewBestBlock == IF viewBest = None THEN TipBestBlock ELSE viewBest

Init ==
    /\ db = [x \in Txids |-> {}]
    /\ dbBest = None
    /\ tip = EmptyCache /\ tipBest = None
    /\ view = EmptyCache /\ viewBest = None
    /\ open = FALSE

-----------------------------------------------------------------------------
(* CCoinsViewCache over a base that holds c for x (if found)               *)

\* "The parent only has an empty entry; we can consider our version as fresh"
LoadedFlags(c) == IF c = {} THEN {"FRESH"} ELSE {}

\* FetchCoins
Fetched(cache, x, found, c) ==
    IF Has(cache, x) \/ ~found THEN cache
    ELSE [cache EXCEPT ![x] = [coins |-> c, flags |-> LoadedFlags(c)]]

\* mutant: an entry the parent lacks is not marked
NotFresh(cache, x, found, c) == IF Has(cache, x) THEN cache[x].flags ELSE {}
\* The flags of the entry ModifyCoins returns, but for DIRTY
ModifiedFlags(cache, x, found, c) ==
    IF Has(cache, x) THEN cache[x].flags
    ELSE IF ~found \/ c = {} THEN {"FRESH"} ELSE {}

\* mutant: the change is not marked
ModifiedClean(cache, x, found, c, new) ==
    [cache EXCEPT ![x] = [coins |-> new, flags |-> ModifiedFlags(cache, x, found, c)]]
\* ModifyCoins, a change of the coins to new, ~CCoinsModifier
Modified(cache, x, found, c, new) ==
    LET flags == ModifiedFlags(cache, x, found, c)
    IN  IF "FRESH" \in flags /\ new = {}
        THEN [cache EXCEPT ![x] = Absent]
        ELSE [cache EXCEPT ![x] = [coins |-> new, flags |-> flags \cup {"DIRTY"}]]

\* mutant: the child's flags replace ours
MergedFlags(cache, child, x) ==
    IF ~Marked(child, x, "DIRTY") THEN cache[x]
    ELSE IF ~Has(cache, x) /\ child[x].coins = {} THEN Absent
    ELSE IF Marked(cache, x, "FRESH") /\ child[x].coins = {} THEN Absent
    ELSE [coins |-> child[x].coins, flags |-> {"DIRTY"} \cup child[x].flags]

\* BatchWrite: what becomes of the entry for x when child is flushed into cache
Merged(cache, child, x) ==
    IF ~Marked(child, x, "DIRTY") THEN cache[x]
    ELSE IF ~Has(cache, x)
    THEN IF child[x].coins = {} THEN Absent
         ELSE [coins |-> child[x].coins, flags |-> {"DIRTY", "FRESH"}]
    ELSE IF Marked(cache, x, "FRESH") /\ child[x].coins = {} THEN Absent
    ELSE [coins |-> child[x].coins, flags |-> cache[x].flags \cup {"DIRTY"}]

-----------------------------------------------------------------------------
(* Reads fill the caches, from the top down                                *)

TipFetched(x) == Fetched(tip, x, db[x] # {}, db[x])
\* pcoinsTip after a read of x that comes from the view
TipUnderView(x) == IF Has(view, x) THEN tip ELSE TipFetched(x)

\* AccessCoins, HaveCoins or GetCoins on pcoinsTip: memory pool, RPC, wallet
ReadTip(x) ==
    /\ tip' = TipFetched(x)
    /\ UNCHANGED <<db, dbBest, tipBest, view, viewBest, open>>

\* The same on the block's view
ReadView(x) ==
    /\ open
    /\ tip' = TipUnderView(x)
    /\ view' = Fetched(view, x, Has(tip', x), tip'[x].coins)
    /\ UNCHANGED <<db, dbBest, tipBest, viewBest, open>>

ReadBestBlock ==
    /\ tipBest' = TipBestBlock
    /\ viewBest' = IF open THEN ViewBestBlock ELSE viewBest
    /\ UNCHANGED <<db, dbBest, tip, view, open>>

-----------------------------------------------------------------------------
(* ConnectTip and DisconnectTip                                            *)

OpenView ==
    /\ ~open /\ open' = TRUE
    /\ UNCHANGED <<db, dbBest, tip, tipBest, view, viewBest>>

\* A spend, a creation, an undo: any change of the coins of x
Modify(x, new) ==
    /\ open
    /\ tip' = TipUnderView(x)
    /\ view' = Modified(view, x, Has(tip', x), tip'[x].coins, new)
    /\ UNCHANGED <<db, dbBest, tipBest, viewBest, open>>

SetBestBlock(b) ==
    /\ open
    /\ viewBest' = b
    /\ UNCHANGED <<db, dbBest, tip, tipBest, view, open>>

\* view.Flush(), after ConnectBlock or DisconnectBlock has set the best block
FlushView ==
    /\ open /\ viewBest # None
    /\ tip' = [x \in Txids |-> Merged(tip, view, x)]
    /\ tipBest' = viewBest
    /\ view' = EmptyCache /\ viewBest' = None
    /\ open' = FALSE
    /\ UNCHANGED <<db, dbBest>>

\* mutant: the discarded view is used for the next block
DiscardViewLate ==
    /\ open /\ open' = FALSE
    /\ UNCHANGED <<db, dbBest, tip, tipBest, view, viewBest>>

\* The block is invalid, or was only tried (TestBlockValidity)
DiscardView ==
    /\ open /\ open' = FALSE
    /\ view' = EmptyCache /\ viewBest' = None
    /\ UNCHANGED <<db, dbBest, tip, tipBest>>

\* mutant: the best block is written when it is next asked for
FlushTipLate ==
    /\ ~open
    /\ db' = TipValue
    /\ tip' = EmptyCache
    /\ UNCHANGED <<dbBest, tipBest, view, viewBest, open>>

\* pcoinsTip->Flush() in FlushStateToDisk: one batch, records of pruned coins
\* erased.  pcoinsTip keeps its hashBlock.
FlushTip ==
    /\ ~open
    /\ db' = [x \in Txids |->
                 IF Marked(tip, x, "DIRTY") THEN tip[x].coins ELSE db[x]]
    /\ dbBest' = IF tipBest = None THEN dbBest ELSE tipBest
    /\ tip' = EmptyCache
    /\ UNCHANGED <<tipBest, view, viewBest, open>>

\* The same when the batch cannot be written.  BatchWrite has taken every entry out
\* of the map before WriteBatch throws; FlushStateToDisk catches the exception and
\* asks for a shutdown.  pcoinsTip keeps its hashBlock, and the flush of
\* PrepareShutdown may store it yet, without the coins.
FlushTipFails ==
    /\ ~open
    /\ tip' = EmptyCache
    /\ UNCHANGED <<db, dbBest, tipBest, view, viewBest, open>>

\* A crash, or the exit of a shutdown: the caches are gone
Crash ==
    /\ tip' = EmptyCache /\ tipBest' = None
    /\ view' = EmptyCache /\ viewBest' = None
    /\ open' = FALSE
    /\ UNCHANGED <<db, dbBest>>

Next ==
    \/ \E x \in Txids : ReadTip(x) \/ ReadView(x)
    \/ \E x \in Txids, new \in Coins : Modify(x, new)
    \/ \E b \in Blocks : SetBestBlock(b)
    \/ ReadBestBlock \/ OpenView \/ FlushView \/ DiscardView
    \/ FlushTip \/ FlushTipFails \/ Crash

Spec == Init /\ [][Next]_vars

-----------------------------------------------------------------------------
(* Properties                                                              *)

\* "The parent view does not have this entry (or it is pruned)": a FRESH entry
\* whose parent still has coins would be erased instead of written as spent, and
\* the spent outputs would come back.
FreshSound ==
    \A x \in Txids :
        /\ Marked(tip, x, "FRESH") => db[x] = {}
        /\ Marked(view, x, "FRESH") => TipValue[x] = {}

\* An entry that is not DIRTY is not written: it must be what the parent holds,
\* whatever was read, modified and flushed before.
CleanEqualsParent ==
    \A x \in Txids :
        /\ Has(tip, x) /\ ~Marked(tip, x, "DIRTY") => tip[x].coins = db[x]
        /\ Has(view, x) /\ ~Marked(view, x, "DIRTY") => view[x].coins = TipValue[x]

\* BatchWrite's assert(it->second.flags & FRESH), at any moment the view might be
\* flushed: "if the grandparent did have it, we would have pulled it in".
BatchWriteAsserts ==
    \A x \in Txids :
        Marked(view, x, "DIRTY") /\ view[x].coins # {} /\ ~Has(tip, x)
            => Marked(view, x, "FRESH")

\* The layers behave as three plain versions of the coins: a block's view is
\* merged whole or not at all, coins and best block reach the disk together, and
\* no read shows a spent output again, but for a write that fails (LoseChanges),
\* which takes the coins back to the stored ones and leaves the best block.
Abstract == INSTANCE CoinsMap WITH
    stored  <- [coins |-> db, best |-> dbBest],
    current <- [coins |-> TipValue, best |-> TipBestBlock],
    working <- [coins |-> ViewValue, best |-> ViewBestBlock]
ImplementsMap == Abstract!Spec
=============================================================================
