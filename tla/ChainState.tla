----------------------------- MODULE ChainState -----------------------------
(***************************************************************************)
(* The block index and the selection of the active chain (main.cpp):       *)
(* AcceptBlock, ReceivedBlockTransactions, FindMostWorkChain,              *)
(* ActivateBestChain and its steps, InvalidateBlock, ReconsiderBlock,      *)
(* ReprocessBlocks, the flush of the index and of the coins' best block,   *)
(* a crash at any point of it and LoadBlockIndexDB.                        *)
(*                                                                         *)
(* Several threads hold blocks to process.  cs_main is `lock': the network *)
(* thread, the staker and the RPC threads take it once per iteration of    *)
(* ActivateBestChain and release it in between.  Blocks are numbers, their *)
(* contents are the constants and the (frozen) variable fault.  What stands *)
(* in the databases and the block files is assumed to be what was written.  *)
(***************************************************************************)
EXTENDS Integers, FiniteSets

CONSTANTS
    Blocks,         \* the blocks that exist, all header trees included
    Genesis,
    Prev,           \* hashPrevBlock, [Blocks \ {Genesis} -> Blocks]
    Work,           \* nChainWork, [Blocks -> Nat]
    MaybeFaulty,    \* blocks that may be invalid (see fault)
    Fickle,         \* blocks that may fail on one connection and pass another
    Threads,        \* threads that call into validation
    None,           \* "no thread" and "no block"
    MaxReorg,       \* -maxreorg, Params().MaxReorganizationDepth()
    ReplayBlocks,   \* the argument of ReprocessBlocks
    MaxManual,      \* bound: manual interventions (see manual)
    MaxCrashes      \* bound: crashes and shutdowns

ASSUME TreeAssumption ==
    /\ IsFiniteSet(Blocks) /\ Blocks \subseteq Nat
    /\ Genesis \in Blocks
    /\ Prev \in [Blocks \ {Genesis} -> Blocks]
ASSUME WorkAssumption ==
    /\ Work \in [Blocks -> Nat]
    /\ \A b \in Blocks \ {Genesis} : Work[Prev[b]] < Work[b]
ASSUME NamesAssumption ==
    /\ None \notin Threads /\ None \notin Blocks
    /\ MaybeFaulty \subseteq Blocks \ {Genesis}
    /\ Fickle \subseteq Blocks \ {Genesis}
ASSUME BoundsAssumption ==
    /\ MaxReorg \in Nat /\ ReplayBlocks \in Nat
    /\ MaxManual \in Nat /\ MaxCrashes \in Nat

-----------------------------------------------------------------------------
(* The header tree, which no operation changes.                            *)

Closed(S) == \A x \in S : x # Genesis => Prev[x] \in S

\* A block and all its ancestors (pprev followed to the end): the smallest
\* set that holds it and is closed under Prev.
Ancestors ==
    [b \in Blocks |->
        {a \in Blocks : \A S \in SUBSET Blocks : b \in S /\ Closed(S) => a \in S}]

Height(b) == Cardinality(Ancestors[b]) - 1
Descendants(b) == {x \in Blocks : b \in Ancestors[x]}

-----------------------------------------------------------------------------
\* CBlockIndex::nStatus.  "tree": the entry exists (BLOCK_VALID_TREE); "data":
\* BLOCK_HAVE_DATA with VALID_TRANSACTIONS; "scripts": BLOCK_VALID_SCRIPTS with
\* BLOCK_HAVE_UNDO; the failure flags are BLOCK_FAILED_VALID and _CHILD.
Flags == {"tree", "data", "scripts", "failed_valid", "failed_child"}
FailedMask == {"failed_valid", "failed_child"}

VARIABLES
    fault,      \* what is wrong with a block: "none", "contextual", "connect"
    status,     \* mapBlockIndex: the nStatus of each entry, {} if absent
    dirty,      \* setDirtyBlockIndex
    linked,     \* entries with nChainTx # 0
    seq,        \* nSequenceId
    lowFirst,   \* which way the addresses of the entries happen to be ordered
    candidates, \* setBlockIndexCandidates
    unlinked,   \* mapBlocksUnlinked, the B of its pairs (Prev[B], B)
    tip,        \* chainActive.Tip(), also the best block of pcoinsTip
    lock,       \* the thread that holds cs_main across a step, or None
    pc,         \* where each thread is
    mostWork,   \* its pindexMostWork, or the argument of InvalidateBlock
    oldTip,     \* its pindexOldTip
    replay,     \* DisconnectBlocksAndReprocess: blocks left to disconnect
    disk,       \* the index entries in the block tree database
    diskBest,   \* the best block of the coins database
    node,       \* "up", or why it cannot go on: "assert", "damaged"
    manual,     \* manual interventions so far
    crashes     \* crashes and shutdowns so far

index == <<status, dirty, linked, seq, lowFirst, candidates, unlinked, tip>>
threads == <<lock, pc, mostWork, oldTip, replay>>
stored == <<disk, diskBest>>
bounds == <<node, manual, crashes>>
vars == <<fault, index, threads, stored, bounds>>

\* "loop": at the top of ActivateBestChain's do; "step": in
\* ActivateBestChainStep; "test": at its while condition, cs_main released;
\* "done": past the loop, before CheckBlockIndex and the periodic flush;
\* "invalidate", "replay": in the loops of InvalidateBlock and of
\* DisconnectBlocksAndReprocess; "disconnect": in the body of the former, the
\* tip marked and about to be disconnected.
PC == {"idle", "loop", "step", "test", "done", "invalidate", "disconnect", "replay"}

TypeOK ==
    /\ fault \in [Blocks -> {"none", "contextual", "connect"}]
    /\ status \in [Blocks -> SUBSET Flags]
    /\ dirty \in SUBSET Blocks
    /\ linked \in SUBSET Blocks
    /\ seq \in [Blocks -> Nat]
    /\ lowFirst \in BOOLEAN
    /\ candidates \in SUBSET Blocks
    /\ unlinked \in SUBSET Blocks
    /\ tip \in Blocks
    /\ lock \in Threads \cup {None}
    /\ pc \in [Threads -> PC]
    /\ mostWork \in [Threads -> Blocks \cup {None}]
    /\ oldTip \in [Threads -> Blocks \cup {None}]
    /\ replay \in 0 .. ReplayBlocks + 1
    /\ disk \in [Blocks -> SUBSET Flags]
    /\ diskBest \in Blocks
    /\ node \in {"up", "assert", "damaged"}
    /\ manual \in Nat /\ crashes \in Nat

Known == {b \in Blocks : status[b] # {}}
Failed(b) == status[b] \cap FailedMask # {}
HasData(b) == "data" \in status[b]

\* CBlockIndexWorkComparator: a sorts before b
WorseBy(a, b, ids, low) ==
    \/ Work[a] < Work[b]
    \/ Work[a] = Work[b] /\ ids[a] > ids[b]
    \/ Work[a] = Work[b] /\ ids[a] = ids[b] /\ IF low THEN a > b ELSE a < b
Worse(a, b) == WorseBy(a, b, seq, lowFirst)

\* CBlockIndex::IsValid(BLOCK_VALID_TRANSACTIONS)
IsValidTransactions(b, st) == "data" \in st[b] /\ st[b] \cap FailedMask = {}

Init ==
    /\ fault \in [Blocks -> {"none", "contextual", "connect"}]
    /\ \A b \in Blocks \ MaybeFaulty : fault[b] = "none"
    \* InitBlockIndex has stored, connected and flushed the genesis block
    /\ status = [b \in Blocks |-> IF b = Genesis THEN {"tree", "data", "scripts"} ELSE {}]
    /\ dirty = {}
    /\ linked = {Genesis}
    /\ seq = [b \in Blocks |-> IF b = Genesis THEN 1 ELSE 0]
    /\ lowFirst = TRUE
    /\ candidates = {Genesis}
    /\ unlinked = {}
    /\ tip = Genesis
    /\ lock = None
    /\ pc = [t \in Threads |-> "idle"]
    /\ mostWork = [t \in Threads |-> None]
    /\ oldTip = [t \in Threads |-> None]
    /\ replay = 0
    /\ disk = status
    /\ diskBest = Genesis
    /\ node = "up"
    /\ manual = 0
    /\ crashes = 0

Add(st, S, flag) == [b \in Blocks |-> IF b \in S THEN st[b] \cup {flag} ELSE st[b]]
Goto(t, l) == pc' = [pc EXCEPT ![t] = l]

Strip(st, S) == [b \in Blocks |-> IF b \in S THEN st[b] \ FailedMask ELSE st[b]]
Running == node = "up"

-----------------------------------------------------------------------------
(* FlushStateToDisk: the dirty entries one by one, in the order of their   *)
(* addresses, then the coins cache in one batch.  Nothing but a crash sees *)
(* the state in between (see Crash).                                       *)

Written(S, st) == [b \in Blocks |-> IF b \in S THEN st[b] ELSE disk[b]]

\* mutant: the coins are written without the index entries they refer to
FlushCoinsFirst(st, d, best) ==
    /\ diskBest' = best
    /\ dirty' = d
    /\ UNCHANGED disk

Flush(st, d, best) ==
    /\ disk' = Written(d, st)
    /\ diskBest' = best
    /\ dirty' = {}

\* The flush of FLUSH_STATE_IF_NEEDED and _PERIODIC happens or not
MayFlush(st, d, best) ==
    \/ Flush(st, d, best)
    \/ dirty' = d /\ UNCHANGED stored

\* DisconnectTip: undo the tip in the coins cache, FLUSH_STATE_ALWAYS, UpdateTip
DisconnectTip(st, d) ==
    /\ tip # Genesis
    /\ tip' = Prev[tip]
    /\ status' = st
    /\ Flush(st, d, Prev[tip])

-----------------------------------------------------------------------------
(* ProcessNewBlock: AcceptBlock under cs_main, then ActivateBestChain.  A  *)
(* block refused before it touches the index (unknown or failed parent,    *)
(* failed duplicate, fork deeper than MaxReorg) changes nothing.           *)

AcceptBlockHeader(b) ==
    /\ b # Genesis
    /\ Prev[b] \in Known /\ ~Failed(Prev[b])
    /\ ~Failed(b)
    /\ b \in Known \/ Height(tip) - Height(b) < MaxReorg

Calls(t) == Running /\ pc[t] = "idle" /\ lock = None

\* nStatus |= BLOCK_FAILED_VALID
MarkNothing(b, st) == st                                \* mutant
MarkChild(b, st) == Add(st, {b}, "failed_child")        \* mutant
MarkInvalid(b, st) == Add(st, {b}, "failed_valid")

\* "TODO: deal better with duplicate blocks": AcceptBlock returns true
ProcessDuplicate(t, b) ==
    /\ Calls(t)
    /\ AcceptBlockHeader(b) /\ HasData(b)
    /\ Goto(t, "loop")
    /\ UNCHANGED <<fault, index, lock, mostWork, oldTip, replay, stored, bounds>>

\* ContextualCheckBlock fails: the header stays, marked
ProcessContextualFailure(t, b) ==
    /\ Calls(t)
    /\ AcceptBlockHeader(b) /\ ~HasData(b) /\ fault[b] = "contextual"
    /\ status' = MarkInvalid(b, Add(status, {b}, "tree"))
    /\ dirty' = dirty \cup {b}
    /\ UNCHANGED <<fault, linked, seq, lowFirst, candidates, unlinked, tip,
                   threads, stored, bounds>>

\* The stake's input is spent at the tip or in the fork: AcceptBlock returns
\* false and leaves a header without data
ProcessStakeSpent(t, b) ==
    /\ Calls(t)
    /\ AcceptBlockHeader(b) /\ b \notin Known /\ fault[b] # "contextual"
    /\ status' = Add(status, {b}, "tree")
    /\ dirty' = dirty \cup {b}
    /\ UNCHANGED <<fault, linked, seq, lowFirst, candidates, unlinked, tip,
                   threads, stored, bounds>>

\* The queue of ReceivedBlockTransactions: b and, through mapBlocksUnlinked,
\* every descendant that only waited for it
UnblockedNone(b) == {b}                                  \* mutant: no queue
\* mutant: blocks whose own parent is still missing are linked too
UnblockedAll(b) == {b} \cup (Descendants(b) \cap unlinked)
Unblocked(b) ==
    {x \in Descendants(b) : Ancestors[x] \ Ancestors[b] \subseteq unlinked}

\* nSequenceId, handed out in breadth-first order.  Only the order of the ids
\* matters, so they go on from the number of linked blocks.
SeqOrders(L) ==
    {f \in [L -> Cardinality(linked) + 1 .. Cardinality(linked) + Cardinality(L)] :
        \A x, y \in L : x # y => /\ f[x] # f[y]
                                 /\ Height(x) < Height(y) => f[x] < f[y]}

\* if (pprev->IsValid(BLOCK_VALID_TREE)) mapBlocksUnlinked.insert(...)
\* mutant: only a parent with data is waited for
WaitsForData(b) == IF IsValidTransactions(Prev[b], status) THEN {b} ELSE {}
Waits(b) == IF Failed(Prev[b]) THEN {} ELSE {b}

\* mutants: nothing is pruned; "we can't delete the current block itself"
PruneNothing(cands, top, ids, low) == cands
PruneTipToo(cands, top, ids, low) == {c \in cands : WorseBy(top, c, ids, low)}
\* PruneBlockIndexCandidates
PruneCandidates(cands, top, ids, low) ==
    {c \in cands : ~WorseBy(c, top, ids, low)}

ReceivedBlockTransactions(b) ==
    IF Prev[b] \in linked
    THEN LET L == Unblocked(b) IN
         /\ linked' = linked \cup L
         /\ unlinked' = unlinked \ L
         /\ \E f \in SeqOrders(L) :
               /\ seq' = [x \in Blocks |-> IF x \in L THEN f[x] ELSE seq[x]]
               /\ candidates' = candidates \cup
                     PruneCandidates(L, tip, seq', lowFirst)
    ELSE /\ unlinked' = unlinked \cup Waits(b)
         /\ UNCHANGED <<linked, seq, candidates>>

ProcessStored(t, b) ==
    /\ Calls(t)
    /\ AcceptBlockHeader(b) /\ ~HasData(b) /\ fault[b] # "contextual"
    /\ status' = Add(Add(status, {b}, "tree"), {b}, "data")
    /\ dirty' = dirty \cup {b}
    /\ ReceivedBlockTransactions(b)
    /\ Goto(t, "loop")
    /\ UNCHANGED <<fault, lowFirst, tip, lock, mostWork, oldTip, replay, stored, bounds>>

-----------------------------------------------------------------------------
(* ActivateBestChain                                                       *)

\* What FindMostWorkChain walks: from a candidate down to the active chain
Path(c) == Ancestors[c] \ Ancestors[tip]
Usable(c) == \A x \in Path(c) : ~Failed(x)

\* pindexMostWork (None when no candidate is usable)
MostWork ==
    LET U == {c \in candidates : Usable(c)}
    IN  IF U = {} THEN {None} ELSE {c \in U : \A d \in U \ {c} : Worse(d, c)}

\* The unusable candidates that come before it
Passed(most) == {c \in candidates : ~Usable(c) /\ (most # None => Worse(most, c))}
\* The blocks above the first failed one met when walking down from c ...
AboveFailed(c) == {y \in Path(c) : \A z \in Path(c) : y \in Ancestors[z] => ~Failed(z)}
\* ... and that one
FirstFailed(c) ==
    {x \in Path(c) : Failed(x) /\ \A z \in Path(c) \ {x} : x \in Ancestors[z] => ~Failed(z)}

FindMostWorkChain(most) ==
    LET above == UNION {AboveFailed(c) : c \in Passed(most)}
        first == UNION {FirstFailed(c) : c \in Passed(most)}
    IN  /\ status' = Add(status, above, "failed_child")
        /\ candidates' = candidates \ (above \cup first)

ActivateBestChain(t) ==
    /\ Running /\ pc[t] = "loop" /\ lock = None
    /\ \E most \in MostWork :
          /\ FindMostWorkChain(most)
          /\ IF most \in {None, tip}
             THEN /\ Goto(t, "idle")
                  /\ UNCHANGED <<lock, mostWork, oldTip>>
             ELSE /\ Goto(t, "step")
                  /\ lock' = t
                  /\ mostWork' = [mostWork EXCEPT ![t] = most]
                  /\ oldTip' = [oldTip EXCEPT ![t] = tip]
    /\ UNCHANGED <<fault, dirty, linked, seq, lowFirst, unlinked, tip, replay, stored, bounds>>

InStep(t) == Running /\ pc[t] = "step" /\ tip # mostWork[t]

\* Disconnect active blocks which are no longer in the best chain
StepDisconnect(t) ==
    /\ InStep(t)
    /\ tip \notin Ancestors[mostWork[t]]
    /\ DisconnectTip(status, dirty)
    /\ UNCHANGED <<fault, linked, seq, lowFirst, candidates, unlinked, threads, bounds>>

\* Past the fork: the block to connect next
Connecting(t, b) ==
    /\ InStep(t)
    /\ b \in Ancestors[mostWork[t]] \ {Genesis}
    /\ Prev[b] = tip

Release(t, l) == lock' = None /\ Goto(t, l)

StepConnect(t, b) ==
    /\ Connecting(t, b)
    /\ fault[b] # "connect"
    /\ tip' = b
    /\ status' = Add(status, {b}, "scripts")
    /\ MayFlush(status', IF "scripts" \in status[b] THEN dirty ELSE dirty \cup {b}, b)
    /\ candidates' = PruneCandidates(candidates, b, seq, lowFirst)
    \* assert(!setBlockIndexCandidates.empty())
    /\ node' = IF candidates' = {} THEN "assert" ELSE "up"
    \* "We're in a better position than we were. Return to release the lock."
    /\ IF Work[b] > Work[oldTip[t]] \/ b = mostWork[t]
       THEN Release(t, "test")
       ELSE UNCHANGED <<lock, pc>>
    /\ UNCHANGED <<fault, linked, seq, lowFirst, unlinked, mostWork, oldTip, replay,
                   manual, crashes>>

\* ConnectBlock finds it invalid: InvalidBlockFound, and the step ends.  A block
\* read from disk goes through CheckBlock again, whose verdict depends on the
\* inputs locked, the payees known and the sporks active at that moment: one that
\* has been connected before may fail when a reorganisation returns to it.
\* (InvalidBlockFound does not mark a block whose failure may come from corrupted
\* data; a block file that reads as it was written raises none.)
StepConnectFails(t, b) ==
    /\ Connecting(t, b)
    /\ fault[b] = "connect" \/ b \in Fickle
    /\ status' = MarkInvalid(b, status)
    /\ dirty' = dirty \cup {b}
    /\ candidates' = candidates \ {b}
    /\ Release(t, "test")
    /\ UNCHANGED <<fault, linked, seq, lowFirst, unlinked, tip, mostWork, oldTip, replay,
                   stored, bounds>>

\* mutant: one step only
TestOnce(t) ==
    /\ Running /\ pc[t] = "test"
    /\ Goto(t, "done")
    /\ UNCHANGED <<fault, index, lock, mostWork, oldTip, replay, stored, bounds>>

\* while (pindexMostWork != chainActive.Tip()), read without cs_main
Test(t) ==
    /\ Running /\ pc[t] = "test"
    /\ Goto(t, IF mostWork[t] = tip THEN "done" ELSE "loop")
    /\ UNCHANGED <<fault, index, lock, mostWork, oldTip, replay, stored, bounds>>

\* CheckBlockIndex, then the periodic flush
Done(t) ==
    /\ Running /\ pc[t] = "done" /\ lock = None
    /\ MayFlush(status, dirty, tip)
    /\ Goto(t, "idle")
    /\ UNCHANGED <<fault, status, linked, seq, lowFirst, candidates, unlinked, tip,
                   lock, mostWork, oldTip, replay, bounds>>

-----------------------------------------------------------------------------
(* Manual interventions: the invalidateblock and reconsiderblock RPCs, and *)
(* ReprocessBlocks, which a completed SwiftTX lock triggers.               *)

Intervenes(t) == Calls(t) /\ manual < MaxManual /\ manual' = manual + 1

InvalidateBlock(t, b) ==
    /\ Intervenes(t)
    /\ b \in Known \ {Genesis}
    /\ status' = MarkInvalid(b, status)
    /\ dirty' = dirty \cup {b}
    /\ candidates' = candidates \ {b}
    /\ lock' = t
    /\ Goto(t, "invalidate")
    /\ mostWork' = [mostWork EXCEPT ![t] = b]
    /\ UNCHANGED <<fault, linked, seq, lowFirst, unlinked, tip, oldTip, replay,
                   stored, node, crashes>>

\* while (chainActive.Contains(pindex)): mark the tip ...
InvalidateMark(t) ==
    /\ Running /\ pc[t] = "invalidate"
    /\ mostWork[t] \in Ancestors[tip]
    /\ status' = Add(status, {tip}, "failed_child")
    /\ dirty' = dirty \cup {tip}
    /\ candidates' = candidates \ {tip}
    /\ Goto(t, "disconnect")
    /\ UNCHANGED <<fault, linked, seq, lowFirst, unlinked, tip, lock, mostWork, oldTip,
                   replay, stored, bounds>>

\* ... and disconnect it; a crash inside this flush may have stored either mark
\* without the other, and neither the coins (see Crash)
InvalidateTip(t) ==
    /\ Running /\ pc[t] = "disconnect"
    /\ DisconnectTip(status, dirty)
    /\ Goto(t, "invalidate")
    /\ UNCHANGED <<fault, linked, seq, lowFirst, candidates, unlinked, lock, mostWork,
                   oldTip, replay, bounds>>

\* "The resulting new best tip may not be in setBlockIndexCandidates anymore"
InvalidateEnd(t) ==
    /\ Running /\ pc[t] = "invalidate"
    /\ mostWork[t] \notin Ancestors[tip]
    /\ candidates' = candidates \cup
          {x \in linked : IsValidTransactions(x, status) /\ ~Worse(x, tip)}
    /\ Release(t, "loop")
    /\ UNCHANGED <<fault, status, dirty, linked, seq, lowFirst, unlinked, tip,
                   mostWork, oldTip, replay, stored, bounds>>

\* ReconsiderBlock for each block of R.  IsValid() without an argument asks
\* for VALID_TRANSACTIONS, so entries without data are made dirty as well.
Reconsider(R) ==
    LET below == {x \in Known : ~IsValidTransactions(x, status)
                                /\ Ancestors[x] \cap R # {}}
        above == {x \in UNION {Ancestors[b] : b \in R} : Failed(x)}
    IN  /\ status' = Strip(status, below \cup above)
        /\ dirty' = dirty \cup below \cup above
        /\ candidates' = candidates \cup
              {x \in below \cap linked : IsValidTransactions(x, status') /\ Worse(tip, x)}

ReconsiderBlock(t, b) ==
    /\ Intervenes(t)
    /\ b \in Known
    /\ Reconsider({b})
    /\ Goto(t, "loop")
    /\ UNCHANGED <<fault, linked, seq, lowFirst, unlinked, tip, lock, mostWork, oldTip,
                   replay, stored, node, crashes>>

\* Some of the blocks found invalid are reconsidered, then the last
\* ReplayBlocks + 1 blocks (for i = 0 to blocks) are disconnected.
ReprocessBlocks(t) ==
    /\ Intervenes(t)
    /\ Height(tip) > ReplayBlocks
    /\ \E R \in SUBSET {b \in Known : "failed_valid" \in status[b]} : Reconsider(R)
    /\ lock' = t
    /\ Goto(t, "replay")
    /\ replay' = ReplayBlocks + 1
    /\ UNCHANGED <<fault, linked, seq, lowFirst, unlinked, tip, mostWork, oldTip,
                   stored, node, crashes>>

\* mutant: one block too many
ReplayOneMore(t) ==
    /\ Running /\ pc[t] = "replay"
    /\ DisconnectTip(status, dirty)
    /\ replay' = replay - 1
    /\ IF replay = 0 THEN Release(t, "loop") ELSE UNCHANGED <<lock, pc>>
    /\ UNCHANGED <<fault, linked, seq, lowFirst, candidates, unlinked, mostWork, oldTip,
                   bounds>>
ReplayStep(t) ==
    /\ Running /\ pc[t] = "replay"
    /\ DisconnectTip(status, dirty)
    /\ replay' = replay - 1
    /\ IF replay = 1 THEN Release(t, "loop") ELSE UNCHANGED <<lock, pc>>
    /\ UNCHANGED <<fault, linked, seq, lowFirst, candidates, unlinked, mostWork, oldTip,
                   bounds>>

-----------------------------------------------------------------------------
(* LoadBlockIndexDB and, after VerifyDB, the ActivateBestChain of AppInit2 *)
(* (thread i).  d and best are what the databases hold.                    *)

\* An entry whose parent was not written gets a parent made up by
\* InsertBlockIndex, with no height, work or status; what the program does
\* with such an index is not modelled.
Dangling(d) == \E b \in Blocks \ {Genesis} : d[b] # {} /\ d[Prev[b]] = {}

LoadBlockIndex(d, best) ==
    LET chained == {b \in Blocks : \A a \in Ancestors[b] : "data" \in d[a]}
        zero    == [b \in Blocks |-> 0]
    IN  /\ status' = d
        /\ dirty' = {}
        /\ linked' = chained
        /\ seq' = zero
        /\ lowFirst' \in BOOLEAN
        /\ unlinked' = {b \in Blocks : "data" \in d[b]} \ chained
        /\ candidates' = PruneCandidates({b \in chained : IsValidTransactions(b, d)},
                                         best, zero, lowFirst')
        /\ tip' = best
        /\ disk' = d
        /\ diskBest' = best
        /\ node' = IF Dangling(d) THEN "damaged"
                   ELSE IF candidates' = {} THEN "assert" ELSE "up"
        /\ lock' = None
        /\ \E i \in Threads : pc' = [t \in Threads |-> IF t = i THEN "loop" ELSE "idle"]
        /\ mostWork' = [t \in Threads |-> None]
        /\ oldTip' = [t \in Threads |-> None]
        /\ replay' = 0

Stops == Running /\ crashes < MaxCrashes /\ crashes' = crashes + 1

\* A crash, perhaps in the middle of a flush: S has been written, the coins
\* have not.
Crash(S) ==
    /\ Stops
    /\ LoadBlockIndex(Written(S, status), diskBest)
    /\ UNCHANGED <<fault, manual>>

\* PrepareShutdown flushes with cs_main held
Shutdown ==
    /\ Stops /\ lock = None
    /\ LoadBlockIndex(Written(dirty, status), tip)
    /\ UNCHANGED <<fault, manual>>

-----------------------------------------------------------------------------
ProcessNewBlock(t, b) ==
    \/ ProcessDuplicate(t, b)
    \/ ProcessContextualFailure(t, b)
    \/ ProcessStakeSpent(t, b)
    \/ ProcessStored(t, b)

ActivateBestChainStep(t) ==
    \/ StepDisconnect(t)
    \/ \E b \in Blocks : StepConnect(t, b) \/ StepConnectFails(t, b)

\* What a thread does on its own once it is inside validation
Continue(t) ==
    \/ ActivateBestChain(t)
    \/ ActivateBestChainStep(t)
    \/ Test(t)
    \/ Done(t)
    \/ InvalidateMark(t)
    \/ InvalidateTip(t)
    \/ InvalidateEnd(t)
    \/ ReplayStep(t)

Next ==
    \/ \E t \in Threads :
          \/ \E b \in Blocks : ProcessNewBlock(t, b)
          \/ \E b \in Blocks : InvalidateBlock(t, b) \/ ReconsiderBlock(t, b)
          \/ ReprocessBlocks(t)
          \/ Continue(t)
    \/ \E S \in SUBSET dirty : Crash(S)
    \/ Shutdown

\* A thread inside validation is scheduled; TRY_LOCK is retried every 50 ms
\* until it succeeds.  Nothing obliges a block to arrive.
Fairness == \A t \in Threads : WF_vars(Continue(t))

Spec == Init /\ [][Next]_vars
LiveSpec == Spec /\ Fairness

-----------------------------------------------------------------------------
(* Properties.  An index that was loaded damaged is no longer constrained. *)

Sound == node # "damaged"
AtRest == Running /\ \A t \in Threads : pc[t] = "idle"

\* CheckBlockIndex: "All parents having data is equivalent to ... nChainTx being
\* set".  Blocks are linked whatever the order their data arrives in.
LinkedExact ==
    Sound => \A b \in Blocks :
                b \in linked <=> (\A a \in Ancestors[b] : HasData(a))

\* CheckBlockIndex: a block with data waits in mapBlocksUnlinked exactly while
\* data of an ancestor is missing.  (The code asks for it only when no ancestor is
\* invalid, but nothing is ever added below a failed block.)
UnlinkedExact == Sound => unlinked = {b \in Blocks : HasData(b)} \ linked

\* CheckBlockIndex: a block that sorts worse than the tip, or that has an
\* ancestor without data, is no candidate (looked at whenever cs_main is free).
NoStaleCandidate ==
    Running /\ lock = None =>
        \A c \in candidates : c \in linked /\ ~Worse(c, tip)

\* Neither b nor a block below it has been found invalid.
Unfailed(b) == \A a \in Ancestors[b] : ~Failed(a)

\* A chain that was active once, of which a block has been found invalid since: a
\* reorganisation that failed midway could not return to it.  While it was active,
\* PruneBlockIndexCandidates dropped every block worse than it for good.
Lost(d) == d \in linked /\ "scripts" \in status[d] /\ ~Unfailed(d)

\* CheckBlockIndex: a block at least as good as the tip, with all its data and no
\* invalid ancestor, is a candidate.  A block worse than a lost chain may be missing.
CandidatesComplete ==
    \A b \in linked : Unfailed(b) /\ ~Worse(b, tip) =>
        b \in candidates \/ \E d \in Blocks : Lost(d) /\ Worse(b, d)
CandidatesAtRest == AtRest => CandidatesComplete

\* CheckBlockIndex: "The failed mask cannot be set for blocks without invalid
\* parents."
FailureHasCause ==
    Running => \A b \in Blocks : Failed(b) =>
        \E a \in Ancestors[b] : "failed_valid" \in status[a]

\* The blocks of the active chain have data and were script-checked, and none of
\* them is marked invalid once cs_main is released, after restarts that found the
\* index half written too (only a crash in the middle of InvalidateBlock may leave
\* such a mark on disk).
ActiveChainSound ==
    Running =>
        \A a \in Ancestors[tip] :
            /\ {"data", "scripts"} \subseteq status[a]
            /\ lock = None /\ (crashes = 0 \/ manual = 0) => ~Failed(a)

\* "Make the best chain active": when no thread is inside validation, a chain with
\* no block found invalid beats the tip only if it is worse than a lost one.
BestChainActive ==
    AtRest => \A b \in linked : Unfailed(b) /\ Worse(tip, b) =>
                 \E d \in Blocks : Lost(d) /\ Worse(b, d)

\* The same without the exception.  The comment of PruneBlockIndexCandidates asks for
\* it ("we may need to return to it later in case a reorganization to a better block
\* fails"); in chain_net it fails when the return fails as well.
BestChainAlways == AtRest => \A b \in linked : Unfailed(b) => ~Worse(tip, b)

\* "Finally flush the chainstate (which may refer to block index entries)": at
\* every instant the databases hold the whole chain of the coins' best block.
StoredChainComplete ==
    \A a \in Ancestors[diskBest] : {"tree", "data", "scripts"} \subseteq disk[a]

\* PruneBlockIndexCandidates: "Either the current tip or a successor of it we're
\* working towards is left in setBlockIndexCandidates."  However many blocks fail,
\* also on the way back, and however often the node restarts, the assertion can fail
\* in one case only: at the startup after a crash inside InvalidateBlock, which has
\* stored the mark of the tip, or of the block itself when that is the tip, and not
\* the coins.
PruneLeavesOne ==
    node = "assert" =>
        /\ crashes > 0 /\ manual > 0
        /\ disk[diskBest] \cap FailedMask # {}

\* CheckBlockIndex: "There is only one index entry with parent NULL."  It fails
\* (named in chain_faults.cfg) after a crash between two writes of entries.
OneRoot == node # "damaged"

\* CheckBlockIndex again, as its callers find it: with cs_main free, a thread
\* that is not inside ActivateBestChain itself (it has accepted a block, or is
\* past the loop).  It fails (named in chain_net.cfg) in the window between two
\* iterations of ActivateBestChain.
CandidatesForCallers ==
    Running /\ lock = None /\ (\E t \in Threads : pc[t] \in {"idle", "done"})
        => CandidatesComplete

\* Every call into validation returns, whatever the other threads do.
CallsReturn == \A t \in Threads : pc[t] # "idle" ~> (pc[t] = "idle" \/ ~Running)
=============================================================================
