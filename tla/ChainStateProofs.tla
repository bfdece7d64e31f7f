--------------------------- MODULE ChainStateProofs ---------------------------
(***************************************************************************)
(* Theorems about ChainState, for every header tree, every number of       *)
(* threads and every bound on interventions and crashes.                   *)
(***************************************************************************)
EXTENDS ChainState, FiniteSetTheorems, TLAPS

USE TreeAssumption, WorkAssumption, NamesAssumption, BoundsAssumption

-----------------------------------------------------------------------------
(* The header tree.                                                        *)

(* A block is among its ancestors, with the parent of each of them.          *)
LEMMA AncestorsClosed ==
    ASSUME NEW b \in Blocks
    PROVE  /\ Ancestors[b] \in SUBSET Blocks
           /\ b \in Ancestors[b]
           /\ Closed(Ancestors[b])
<1>1. /\ Ancestors[b] \in SUBSET Blocks
      /\ \A a \in Blocks :
            a \in Ancestors[b] <=>
                \A S \in SUBSET Blocks : b \in S /\ Closed(S) => a \in S
  BY DEF Ancestors
<1>2. b \in Ancestors[b]
  BY <1>1
<1>3. ASSUME NEW x \in Ancestors[b], x # Genesis PROVE Prev[x] \in Ancestors[b]
  <2>1. Prev[x] \in Blocks
    BY <1>1, <1>3
  <2>2. \A S \in SUBSET Blocks : b \in S /\ Closed(S) => Prev[x] \in S
    BY <1>1, <1>3 DEF Closed
  <2> QED BY <1>1, <2>1, <2>2
<1> QED BY <1>1, <1>2, <1>3 DEF Closed

(* ... and nothing more: any closed set that holds it holds them all.        *)
LEMMA AncestorsLeast ==
    ASSUME NEW b \in Blocks, NEW S \in SUBSET Blocks, b \in S, Closed(S)
    PROVE  Ancestors[b] \subseteq S
BY DEF Ancestors

(* Being an ancestor is transitive.                                          *)
LEMMA AncestorsTransitive ==
    ASSUME NEW b \in Blocks, NEW a \in Ancestors[b]
    PROVE  a \in Blocks /\ Ancestors[a] \subseteq Ancestors[b]
BY AncestorsClosed, AncestorsLeast

(* The ancestors of a block are itself and those of its parent, which it is   *)
(* not one of (chain work grows along a chain).                              *)
LEMMA AncestorsStep ==
    ASSUME NEW b \in Blocks \ {Genesis}
    PROVE  /\ Prev[b] \in Blocks
           /\ Prev[b] \in Ancestors[b]
           /\ Ancestors[b] = {b} \cup Ancestors[Prev[b]]
           /\ b \notin Ancestors[Prev[b]]
<1>1. Prev[b] \in Blocks /\ Prev[b] \in Ancestors[b]
  BY AncestorsClosed DEF Closed
<1>2. {b} \cup Ancestors[Prev[b]] \subseteq Ancestors[b]
  BY <1>1, AncestorsClosed, AncestorsTransitive
<1>3. Ancestors[b] \subseteq {b} \cup Ancestors[Prev[b]]
  <2>1. Closed({b} \cup Ancestors[Prev[b]])
    BY <1>1, AncestorsClosed DEF Closed
  <2>2. /\ {b} \cup Ancestors[Prev[b]] \in SUBSET Blocks
        /\ b \in {b} \cup Ancestors[Prev[b]]
    BY <1>1, AncestorsClosed
  <2> HIDE TreeAssumption, WorkAssumption
  <2> QED BY <2>1, <2>2, AncestorsLeast
<1>4. b \notin Ancestors[Prev[b]]
  <2> DEFINE S == {x \in Blocks : Work[x] <= Work[Prev[b]]}
  <2>1. Closed(S)
    <3> SUFFICES ASSUME NEW x \in S, x # Genesis PROVE Prev[x] \in S
      BY DEF Closed
    <3>1. Prev[x] \in Blocks /\ Work[Prev[x]] < Work[x] /\ Work[x] <= Work[Prev[b]]
      OBVIOUS
    <3>2. Work[Prev[x]] \in Nat /\ Work[x] \in Nat /\ Work[Prev[b]] \in Nat
      BY <1>1, <3>1
    <3> QED BY <3>1, <3>2
  <2>2. Prev[b] \in S /\ b \notin S
    <3>1. Work[b] \in Nat /\ Work[Prev[b]] \in Nat /\ Work[Prev[b]] < Work[b]
      BY <1>1
    <3> QED BY <1>1, <3>1
  <2> QED BY <1>1, <2>1, <2>2, AncestorsLeast
<1> QED BY <1>1, <1>2, <1>3, <1>4

(* The ancestors of a block form one chain.                                  *)
LEMMA AncestorsLinear ==
    ASSUME NEW x \in Blocks, NEW a \in Ancestors[x], NEW b \in Ancestors[x]
    PROVE  a \in Ancestors[b] \/ b \in Ancestors[a]
<1> DEFINE S == {y \in Blocks : b \in Ancestors[y] \/ y \in Ancestors[b]}
<1>1. b \in Blocks /\ x \in S
  BY AncestorsClosed
<1>2. Closed(S)
  <2> SUFFICES ASSUME NEW y \in S, y # Genesis PROVE Prev[y] \in S
    BY DEF Closed
  <2>1. CASE y \in Ancestors[b]
    BY <1>1, <2>1, AncestorsClosed DEF Closed
  <2>2. CASE b \in Ancestors[y] /\ y # b
    BY <2>2, AncestorsStep
  <2>3. CASE y = b
    BY <1>1, <2>3, AncestorsStep
  <2> QED BY <2>1, <2>2, <2>3
<1> QED BY <1>1, <1>2, AncestorsLeast

(* Work grows along a chain.                                                 *)
LEMMA AncestorsWork ==
    ASSUME NEW b \in Blocks, NEW a \in Ancestors[b]
    PROVE  a = b \/ Work[a] < Work[b]
<1> DEFINE S == {x \in Blocks : x = b \/ Work[x] < Work[b]}
<1>1. Closed(S)
  <2> SUFFICES ASSUME NEW x \in S, x # Genesis PROVE Prev[x] \in S
    BY DEF Closed
  <2>1. /\ Prev[x] \in Blocks /\ Work[Prev[x]] < Work[x]
        /\ Work[Prev[x]] \in Nat /\ Work[x] \in Nat /\ Work[b] \in Nat
    OBVIOUS
  <2> QED BY <2>1
<1>2. b \in S /\ S \in SUBSET Blocks
  OBVIOUS
<1>3. a \in S
  <2> HIDE DEF S
  <2> QED BY <1>1, <1>2, AncestorsLeast
<1> QED BY <1>3

(* The genesis block has no other ancestor.                                  *)
LEMMA AncestorsGenesis == Ancestors[Genesis] = {Genesis}
<1>1. Closed({Genesis})
  BY DEF Closed
<1> QED BY <1>1, AncestorsClosed, AncestorsLeast
-----------------------------------------------------------------------------
(* The inductive invariant.  "tree", "data" and "scripts" are only ever added  *)
(* to an entry; the failure flags come and go and are not constrained.       *)

Core == {"tree", "data", "scripts"}

\* An entry with data has a valid header, in memory and on disk.
DataInTree ==
    \A b \in Blocks : /\ "data" \in status[b] => "tree" \in status[b]
                      /\ "data" \in disk[b] => "tree" \in disk[b]

\* nChainTx and mapBlocksUnlinked are exact.
Linkage ==
    /\ linked = {b \in Blocks : \A a \in Ancestors[b] : HasData(a)}
    /\ unlinked = {b \in Blocks : HasData(b)} \ linked

Candidacy == \A c \in candidates : c \in linked /\ ~WorseBy(c, tip, seq, lowFirst)

\* Whoever is in the middle of a step, an invalidation or a replay holds cs_main;
\* a step works towards a candidate, which it never prunes.
Holding ==
    \A t \in Threads :
        pc[t] \in {"step", "invalidate", "disconnect", "replay"} =>
            /\ lock = t
            /\ pc[t] = "step" => mostWork[t] \in candidates
            /\ pc[t] = "replay" => replay \in Nat \ {0}

ActiveChain == \A a \in Ancestors[tip] : Core \subseteq status[a]

\* The databases are behind the memory only by the dirty entries, and hold the
\* chain of the coins' best block.
Storage ==
    /\ \A b \in Blocks : disk[b] \cap Core \subseteq status[b]
    /\ \A b \in Blocks \ dirty : status[b] \cap Core \subseteq disk[b]
    /\ \A a \in Ancestors[diskBest] : Core \subseteq disk[a]

IInv ==
    TypeOK /\ DataInTree /\ Linkage /\ Candidacy /\ Holding /\ ActiveChain /\ Storage

(* The operators that set and clear flags.                                   *)
LEMMA FlagsOk ==
    ASSUME NEW st \in [Blocks -> SUBSET Flags], NEW S, NEW flag \in Flags
    PROVE  /\ Add(st, S, flag) \in [Blocks -> SUBSET Flags]
           /\ \A b \in Blocks : Add(st, S, flag)[b] = IF b \in S THEN st[b] \cup {flag} ELSE st[b]
           /\ Strip(st, S) \in [Blocks -> SUBSET Flags]
           /\ \A b \in Blocks : Strip(st, S)[b] \cap Core = st[b] \cap Core
           /\ flag \in FailedMask => \A b \in Blocks : Add(st, S, flag)[b] \cap Core = st[b] \cap Core
<1> USE DEF Flags, FailedMask
<1>1. /\ Add(st, S, flag) \in [Blocks -> SUBSET Flags]
      /\ \A b \in Blocks : Add(st, S, flag)[b] = IF b \in S THEN st[b] \cup {flag} ELSE st[b]
  BY DEF Add
<1>2. /\ Strip(st, S) \in [Blocks -> SUBSET Flags]
      /\ \A b \in Blocks : Strip(st, S)[b] \cap Core = st[b] \cap Core
  BY DEF Strip, Core
<1>3. ASSUME flag \in FailedMask, NEW b \in Blocks
      PROVE  Add(st, S, flag)[b] \cap Core = st[b] \cap Core
  BY <1>1, <1>3 DEF Core
<1> QED BY <1>1, <1>2, <1>3

(* Only failure flags change: what is known about the index stays, also when  *)
(* the tip goes back to an ancestor.                                         *)
LEMMA SameCore ==
    ASSUME IInv, status' \in [Blocks -> SUBSET Flags],
           \A b \in Blocks : status'[b] \cap Core = status[b] \cap Core,
           UNCHANGED <<linked, unlinked>>, tip' \in Ancestors[tip]
    PROVE  /\ Linkage' /\ ActiveChain'
           /\ \A b \in Blocks : "data" \in status'[b] => "tree" \in status'[b]
<1>1. tip \in Blocks
  BY DEF IInv, TypeOK
<1>2. \A b \in Blocks : ("data" \in status'[b]) = ("data" \in status[b])
  BY DEF Core
<1>3. Ancestors[tip'] \subseteq Ancestors[tip]
  BY <1>1, AncestorsTransitive
<1>4. ActiveChain'
  BY <1>1, <1>3, AncestorsClosed DEF IInv, ActiveChain
<1>5. Linkage'
  BY <1>2, AncestorsClosed DEF IInv, Linkage, HasData
<1>6. \A b \in Blocks : "data" \in status'[b] => "tree" \in status'[b]
  BY DEF IInv, DataInTree, Core
<1> QED BY <1>4, <1>5, <1>6

(* The flush: afterwards nothing is dirty and the databases hold the chain.   *)
LEMMA FlushOk ==
    ASSUME IInv, NEW d \in SUBSET Blocks, NEW best \in Blocks,
           status' \in [Blocks -> SUBSET Flags],
           \A b \in Blocks : disk[b] \cap Core \subseteq status'[b],
           \A b \in Blocks \ d : status'[b] \cap Core \subseteq disk[b],
           \A a \in Ancestors[best] : Core \subseteq status'[a],
           \A b \in Blocks : "data" \in status'[b] => "tree" \in status'[b],
           MayFlush(status', d, best)
    PROVE  /\ dirty' \in SUBSET Blocks /\ diskBest' \in Blocks
           /\ disk' \in [Blocks -> SUBSET Flags]
           /\ DataInTree' /\ Storage'
<1>1. CASE Flush(status', d, best)
  <2>1. /\ disk' = [b \in Blocks |-> IF b \in d THEN status'[b] ELSE disk[b]]
        /\ diskBest' = best /\ dirty' = {}
    BY <1>1 DEF Flush, Written
  <2>2. disk' \in [Blocks -> SUBSET Flags]
    BY <2>1 DEF IInv, TypeOK
  <2>3. \A b \in Blocks : disk'[b] \cap Core = status'[b] \cap Core
    BY <2>1
  <2>4. Storage'
    <3>1. Ancestors[best] \subseteq Blocks
      BY AncestorsClosed
    <3> QED BY <2>1, <2>3, <3>1 DEF Storage
  <2>5. DataInTree'
    BY <2>3 DEF DataInTree, Core
  <2> QED BY <2>1, <2>2, <2>4, <2>5
<1>2. CASE dirty' = d /\ UNCHANGED stored
  <2>1. disk' = disk /\ diskBest' = diskBest /\ dirty' = d
    BY <1>2 DEF stored
  <2> QED BY <2>1 DEF IInv, TypeOK, Storage, DataInTree
<1> QED BY <1>1, <1>2 DEF MayFlush
(* Nothing is flushed: the databases stay behind by the dirty entries.       *)
LEMMA UnflushedOk ==
    ASSUME IInv, status' \in [Blocks -> SUBSET Flags], UNCHANGED stored,
           \A b \in Blocks : status[b] \cap Core \subseteq status'[b],
           dirty' \in SUBSET Blocks, dirty \subseteq dirty',
           \A b \in Blocks \ dirty' : status'[b] \cap Core = status[b] \cap Core,
           \A b \in Blocks : "data" \in status'[b] => "tree" \in status'[b]
    PROVE  DataInTree' /\ Storage'
<1>1. disk' = disk /\ diskBest' = diskBest
  BY DEF stored
<1>2. Storage'
  BY <1>1 DEF IInv, Storage
<1>3. DataInTree'
  BY <1>1 DEF IInv, DataInTree
<1> QED BY <1>2, <1>3

(* Going back to the parent of the tip makes no candidate stale.             *)
LEMMA CandidacyBack ==
    ASSUME IInv, tip' = tip \/ (tip # Genesis /\ tip' = Prev[tip]),
           candidates' \subseteq candidates, UNCHANGED <<linked, seq, lowFirst>>
    PROVE  Candidacy' /\ tip' \in Ancestors[tip] /\ tip' \in Blocks
<1>1. tip \in Blocks /\ tip' \in Ancestors[tip] /\ tip' \in Blocks
  BY AncestorsClosed, AncestorsStep DEF IInv, TypeOK
<1>2. ASSUME NEW c \in candidates
      PROVE  c \in linked /\ ~WorseBy(c, tip', seq, lowFirst)
  <2>1. c \in Blocks /\ c \in linked /\ ~WorseBy(c, tip, seq, lowFirst)
    BY DEF IInv, TypeOK, Candidacy
  <2>2. CASE tip' = tip
    BY <2>1, <2>2
  <2>3. CASE tip # Genesis /\ tip' = Prev[tip]
    <3>1. Work[tip'] < Work[tip] /\ Work[tip'] \in Nat /\ Work[tip] \in Nat /\ Work[c] \in Nat
      BY <1>1, <2>1, <2>3
    <3>2. ~(Work[c] < Work[tip])
      BY <2>1 DEF WorseBy
    <3> QED BY <2>1, <3>1, <3>2 DEF WorseBy
  <2> QED BY <2>2, <2>3
<1>3. Candidacy'
  BY <1>2 DEF Candidacy
<1> QED BY <1>1, <1>3

-----------------------------------------------------------------------------
(* Each action preserves the invariant.  AcceptBlock first.                  *)

(* The state InitBlockIndex leaves satisfies the invariant.                  *)
LEMMA InitOk == Init => IInv
<1> SUFFICES ASSUME Init PROVE IInv
  OBVIOUS
<1> USE DEF Init
<1>1. TypeOK
  BY DEF TypeOK, Flags, PC
<1>2. \A b \in Blocks : HasData(b) <=> b = Genesis
  BY DEF HasData
<1>3. \A b \in Blocks : (\A a \in Ancestors[b] : HasData(a)) <=> b = Genesis
  BY <1>2, AncestorsClosed, AncestorsGenesis
<1>4. Linkage
  <2>1. linked = {b \in Blocks : \A a \in Ancestors[b] : HasData(a)}
    BY <1>3
  <2>2. unlinked = {b \in Blocks : HasData(b)} \ linked
    BY <1>2
  <2> QED BY <2>1, <2>2 DEF Linkage
<1>5. Candidacy
  <2>1. Work[Genesis] \in Nat /\ Genesis \in Nat
    OBVIOUS
  <2> QED BY <2>1 DEF Candidacy, WorseBy
<1>6. DataInTree /\ Holding
  BY DEF DataInTree, Holding
<1>7. ActiveChain /\ Storage
  BY AncestorsGenesis DEF ActiveChain, Storage, Core
<1> QED BY <1>1, <1>4, <1>5, <1>6, <1>7 DEF IInv

(* Only control moves, and no thread begins a step.                          *)
LEMMA ControlOk ==
    ASSUME IInv, NEW t \in Threads, NEW l \in {"idle", "loop", "test", "done"},
           Goto(t, l), UNCHANGED <<fault, index, lock, mostWork, oldTip, replay, stored, bounds>>
    PROVE  IInv'
<1>1. TypeOK'
  BY DEF IInv, TypeOK, Goto, index, stored, bounds, PC
<1>2. Holding'
  BY DEF IInv, TypeOK, Holding, Goto, index
<1>3. DataInTree' /\ Linkage' /\ Candidacy' /\ ActiveChain' /\ Storage'
  BY DEF IInv, DataInTree, Linkage, HasData, Candidacy, ActiveChain, Storage, index, stored
<1> QED BY <1>1, <1>2, <1>3 DEF IInv

(* A header that is stored without data, with or without a failure mark.     *)
LEMMA HeaderOk ==
    ASSUME IInv, NEW b \in Blocks, ~HasData(b),
           status' \in [Blocks -> SUBSET Flags],
           \A x \in Blocks \ {b} : status'[x] = status[x],
           status[b] \subseteq status'[b], "data" \notin status'[b],
           dirty' = dirty \cup {b},
           UNCHANGED <<fault, linked, seq, lowFirst, candidates, unlinked, tip,
                       threads, stored, bounds>>
    PROVE  IInv'
<1>1. TypeOK'
  BY DEF IInv, TypeOK, threads, stored, bounds
<1>2. \A x \in Blocks : "data" \in status'[x] <=> "data" \in status[x]
  BY DEF HasData
<1>3. Linkage'
  BY <1>2, AncestorsClosed DEF IInv, Linkage, HasData
<1>4. \A x \in Blocks : status[x] \subseteq status'[x]
  OBVIOUS
<1>5. DataInTree' /\ Storage'
  <2>1. \A x \in Blocks : "data" \in status'[x] => "tree" \in status'[x]
    BY DEF IInv, DataInTree
  <2> QED BY <1>4, <2>1, UnflushedOk DEF IInv, TypeOK
<1>6. Candidacy' /\ Holding'
  BY DEF IInv, Candidacy, Holding, threads
<1>7. ActiveChain'
  BY <1>4, AncestorsClosed DEF IInv, TypeOK, ActiveChain
<1> QED BY <1>1, <1>3, <1>5, <1>6, <1>7 DEF IInv

(* A block that fails ContextualCheckBlock or whose stake is spent.          *)
LEMMA RefusedOk ==
    ASSUME IInv, NEW t \in Threads, NEW b \in Blocks,
           ProcessContextualFailure(t, b) \/ ProcessStakeSpent(t, b)
    PROVE  IInv'
<1>1. status \in [Blocks -> SUBSET Flags]
  BY DEF IInv, TypeOK
<1> DEFINE treed == Add(status, {b}, "tree")
<1>2. /\ treed \in [Blocks -> SUBSET Flags]
      /\ treed[b] = status[b] \cup {"tree"}
      /\ \A x \in Blocks \ {b} : treed[x] = status[x]
  BY <1>1 DEF Flags, Add
<1> HIDE DEF treed
<1>3. CASE ProcessContextualFailure(t, b)
  <2>1. /\ ~HasData(b) /\ status' = Add(treed, {b}, "failed_valid")
        /\ dirty' = dirty \cup {b}
        /\ UNCHANGED <<fault, linked, seq, lowFirst, candidates, unlinked, tip,
                       threads, stored, bounds>>
    BY <1>3 DEF ProcessContextualFailure, MarkInvalid, treed
  <2>2. /\ status' \in [Blocks -> SUBSET Flags]
        /\ status'[b] = status[b] \cup {"tree", "failed_valid"}
        /\ \A x \in Blocks \ {b} : status'[x] = status[x]
    BY <1>2, <2>1 DEF Flags, Add
  <2>3. "data" \notin status'[b] /\ status[b] \subseteq status'[b]
    BY <2>1, <2>2 DEF HasData
  <2> QED BY <2>1, <2>2, <2>3, HeaderOk
<1>4. CASE ProcessStakeSpent(t, b)
  <2>1. /\ status[b] = {} /\ status' = treed
        /\ dirty' = dirty \cup {b}
        /\ UNCHANGED <<fault, linked, seq, lowFirst, candidates, unlinked, tip,
                       threads, stored, bounds>>
    BY <1>4 DEF ProcessStakeSpent, Known, treed
  <2>2. ~HasData(b) /\ "data" \notin status'[b] /\ status[b] \subseteq status'[b]
    BY <1>2, <2>1 DEF HasData
  <2> QED BY <1>2, <2>1, <2>2, HeaderOk
<1> QED BY <1>3, <1>4
(* ReceivedBlockTransactions: the data of b arrives; b and the descendants    *)
(* that waited only for it are linked, or b itself begins to wait.           *)
LEMMA LinkageOk ==
    ASSUME IInv, NEW b \in Blocks \ {Genesis}, ~HasData(b), ~Failed(Prev[b]),
           "data" \in status'[b], \A x \in Blocks \ {b} : status'[x] = status[x],
           ReceivedBlockTransactions(b)
    PROVE  /\ Linkage'
           /\ linked \subseteq linked'
           /\ linked' \cap unlinked' = {}
<1>1. \A x \in Blocks : HasData(x)' <=> HasData(x) \/ x = b
  BY DEF HasData
<1>2. /\ b \notin linked /\ b \notin unlinked
      /\ \A x \in Blocks : x \in linked <=> \A a \in Ancestors[x] : HasData(a)
      /\ \A x \in Blocks : x \in unlinked <=> HasData(x) /\ x \notin linked
      /\ linked \subseteq Blocks /\ unlinked \subseteq Blocks
  BY AncestorsClosed DEF IInv, Linkage
<1>3. CASE Prev[b] \in linked
  <2>1. linked' = linked \cup Unblocked(b) /\ unlinked' = unlinked \ Unblocked(b)
    BY <1>3 DEF ReceivedBlockTransactions
  <2>2. b \in Unblocked(b) /\ Unblocked(b) \subseteq unlinked \cup {b}
    <3>1. ASSUME NEW x \in Unblocked(b), x # b PROVE x \in unlinked
      <4>1. x \in Blocks /\ b \in Ancestors[x] /\ x \in Ancestors[x]
        BY <3>1, AncestorsClosed DEF Unblocked, Descendants
      <4>2. x \notin Ancestors[b]
        <5> SUFFICES ASSUME x \in Ancestors[b] PROVE FALSE
          OBVIOUS
        <5>1. x \in Ancestors[Prev[b]] /\ b \notin Ancestors[Prev[b]]
          BY <3>1, AncestorsStep
        <5>2. b \in Ancestors[Prev[b]]
          BY <4>1, <5>1, AncestorsTransitive, AncestorsStep
        <5> QED BY <5>1, <5>2
      <4> QED BY <4>1, <4>2 DEF Unblocked
    <3>2. b \in Unblocked(b)
      BY AncestorsClosed DEF Unblocked, Descendants
    <3> QED BY <3>1, <3>2
  <2>3. \A x \in Unblocked(b) : x \in Blocks /\ \A a \in Ancestors[x] : HasData(a)'
    <3> SUFFICES ASSUME NEW x \in Unblocked(b), NEW a \in Ancestors[x]
                 PROVE  x \in Blocks /\ HasData(a)'
      BY DEF Unblocked, Descendants
    <3>1. x \in Blocks /\ a \in Blocks
      BY AncestorsClosed DEF Unblocked, Descendants
    <3>2. CASE a \in Ancestors[b]
      <4>1. a = b \/ a \in Ancestors[Prev[b]]
        BY <3>2, AncestorsStep
      <4> QED BY <1>1, <1>2, <1>3, <3>1, <4>1, AncestorsStep
    <3>3. CASE a \notin Ancestors[b]
      BY <1>1, <1>2, <3>1, <3>3 DEF Unblocked
    <3> QED BY <3>1, <3>2, <3>3
  <2>4. ASSUME NEW x \in Blocks, x \notin linked, \A a \in Ancestors[x] : HasData(a)'
        PROVE  x \in Unblocked(b)
    <3>1. b \in Ancestors[x]
      BY <1>1, <1>2, <2>4, AncestorsClosed
    <3>2. ASSUME NEW a \in Ancestors[x] \ Ancestors[b] PROVE a \in unlinked
      <4>1. a \in Blocks /\ a # b /\ HasData(a)
        BY <1>1, <2>4, AncestorsClosed
      <4>2. a \notin linked
        <5> SUFFICES ASSUME a \in linked PROVE FALSE
          OBVIOUS
        <5>1. b \notin Ancestors[a] /\ a \notin Ancestors[b]
          BY <1>2, <4>1
        <5> QED BY <3>1, <5>1, AncestorsLinear
      <4> QED BY <1>2, <4>1, <4>2
    <3> QED BY <3>1, <3>2, <2>4 DEF Unblocked, Descendants
  <2>5. \A x \in Blocks : x \in linked' <=> \A a \in Ancestors[x] : HasData(a)'
    BY <1>1, <1>2, <2>1, <2>3, <2>4, AncestorsClosed
  <2> QED BY <1>1, <1>2, <2>1, <2>2, <2>3, <2>5 DEF Linkage
<1>4. CASE Prev[b] \notin linked
  <2>1. linked' = linked /\ unlinked' = unlinked \cup {b}
    BY <1>4 DEF ReceivedBlockTransactions, Waits
  <2>2. ASSUME NEW x \in Blocks
        PROVE  (\A a \in Ancestors[x] : HasData(a)') <=> (\A a \in Ancestors[x] : HasData(a))
    <3>1. CASE b \in Ancestors[x]
      <4>1. PICK a \in Ancestors[Prev[b]] : ~HasData(a)
        BY <1>2, <1>4, AncestorsStep
      <4>2. a # b /\ a \in Blocks /\ a \in Ancestors[x]
        BY <3>1, AncestorsStep, AncestorsClosed, AncestorsTransitive
      <4> QED BY <1>1, <4>1, <4>2
    <3>2. CASE b \notin Ancestors[x]
      BY <1>1, <3>2, AncestorsClosed
    <3> QED BY <3>1, <3>2
  <2>3. \A x \in Blocks : x \in linked' <=> \A a \in Ancestors[x] : HasData(a)'
    BY <1>2, <2>1, <2>2
  <2>4. linked' = {x \in Blocks : \A a \in Ancestors[x] : HasData(a)'}
    BY <1>2, <2>1, <2>3
  <2>5. unlinked' = {x \in Blocks : HasData(x)'} \ linked'
    BY <1>1, <1>2, <2>1
  <2> QED BY <2>1, <2>4, <2>5 DEF Linkage
<1> QED BY <1>3, <1>4
(* The active chain is linked.                                               *)
LEMMA TipLinked == IInv => tip \in linked
BY AncestorsClosed DEF IInv, TypeOK, ActiveChain, Linkage, HasData, Core

(* The newly linked blocks become candidates unless they are worse than the   *)
(* tip; the ids of the others do not change.                                 *)
LEMMA ReceivedOk ==
    ASSUME IInv, NEW b \in Blocks \ {Genesis}, ~HasData(b), ~Failed(Prev[b]),
           "data" \in status'[b], \A x \in Blocks \ {b} : status'[x] = status[x],
           ReceivedBlockTransactions(b), UNCHANGED <<tip, lowFirst>>
    PROVE  /\ Linkage' /\ Candidacy' /\ linked \subseteq linked'
           /\ linked' \in SUBSET Blocks /\ unlinked' \in SUBSET Blocks
           /\ candidates' \in SUBSET Blocks /\ seq' \in [Blocks -> Nat]
<1>1. Linkage' /\ linked \subseteq linked' /\ tip \in linked
  BY LinkageOk, TipLinked
<1>2. linked' \in SUBSET Blocks /\ unlinked' \in SUBSET Blocks
  BY <1>1 DEF Linkage
<1>3. CASE Prev[b] \in linked
  <2> DEFINE L == Unblocked(b)
  <2>1. /\ linked' = linked \cup L /\ L \in SUBSET Blocks
        /\ candidates' = candidates \cup PruneCandidates(L, tip, seq', lowFirst)
    BY <1>3 DEF ReceivedBlockTransactions, Unblocked, Descendants
  <2>2. PICK f \in SeqOrders(L) : seq' = [x \in Blocks |-> IF x \in L THEN f[x] ELSE seq[x]]
    BY <1>3 DEF ReceivedBlockTransactions
  <2>3. linked \cap L = {}
    <3>1. \A x \in L : b \in Ancestors[x]
      BY DEF Unblocked, Descendants
    <3>2. \A x \in linked : \A a \in Ancestors[x] : HasData(a)
      BY DEF IInv, Linkage
    <3> QED BY <3>1, <3>2
  <2> HIDE DEF L
  <2>4. seq' \in [Blocks -> Nat]
    <3>1. Cardinality(linked) \in Nat /\ Cardinality(L) \in Nat
      BY <2>1, FS_Subset, FS_CardinalityType DEF IInv, TypeOK
    <3>2. f \in [L -> Cardinality(linked) + 1 .. Cardinality(linked) + Cardinality(L)]
      BY <2>2 DEF SeqOrders
    <3>3. \A x \in L : f[x] \in Nat
      BY <3>1, <3>2
    <3> QED BY <2>2, <3>3 DEF IInv, TypeOK
  <2>5. ASSUME NEW c \in candidates'
        PROVE  c \in linked' /\ ~WorseBy(c, tip, seq', lowFirst)
    <3>1. CASE c \in candidates
      <4>1. c \in linked /\ ~WorseBy(c, tip, seq, lowFirst) /\ c \in Blocks /\ tip \in Blocks
        BY <3>1 DEF IInv, Candidacy, TypeOK
      <4>2. seq'[c] = seq[c] /\ seq'[tip] = seq[tip]
        BY <1>1, <2>2, <2>3, <4>1
      <4> QED BY <2>1, <4>1, <4>2 DEF WorseBy
    <3>2. CASE c \in PruneCandidates(L, tip, seq', lowFirst)
      BY <2>1, <3>2 DEF PruneCandidates
    <3> QED BY <2>1, <3>1, <3>2
  <2>6. Candidacy'
    BY <2>5 DEF Candidacy
  <2>7. candidates' \in SUBSET Blocks
    BY <1>2, <2>5
  <2> QED BY <1>1, <1>2, <2>4, <2>6, <2>7
<1>4. CASE Prev[b] \notin linked
  <2>1. UNCHANGED <<linked, seq, candidates>>
    BY <1>4 DEF ReceivedBlockTransactions
  <2>2. Candidacy'
    BY <2>1 DEF IInv, Candidacy
  <2> QED BY <1>1, <1>2, <2>1, <2>2 DEF IInv, TypeOK
<1> QED BY <1>3, <1>4

(* A block is stored.                                                        *)
LEMMA StoredOk ==
    ASSUME IInv, NEW t \in Threads, NEW b \in Blocks, ProcessStored(t, b)
    PROVE  IInv'
<1>1. /\ b # Genesis /\ ~Failed(Prev[b]) /\ ~HasData(b)
      /\ status' = Add(Add(status, {b}, "tree"), {b}, "data")
      /\ dirty' = dirty \cup {b}
      /\ ReceivedBlockTransactions(b)
      /\ pc' = [pc EXCEPT ![t] = "loop"]
      /\ UNCHANGED <<fault, lowFirst, tip, lock, mostWork, oldTip, replay>>
      /\ UNCHANGED stored /\ UNCHANGED bounds
  BY DEF ProcessStored, AcceptBlockHeader, Goto
<1>2. /\ status' \in [Blocks -> SUBSET Flags]
      /\ status'[b] = status[b] \cup {"tree", "data"}
      /\ \A x \in Blocks \ {b} : status'[x] = status[x]
  BY <1>1 DEF IInv, TypeOK, Add, Flags
<1>3. /\ Linkage' /\ Candidacy' /\ linked \subseteq linked'
      /\ linked' \in SUBSET Blocks /\ unlinked' \in SUBSET Blocks
      /\ candidates' \in SUBSET Blocks /\ seq' \in [Blocks -> Nat]
  BY <1>1, <1>2, ReceivedOk
<1>4. TypeOK'
  BY <1>1, <1>2, <1>3 DEF IInv, TypeOK, stored, bounds, PC
<1>5. DataInTree' /\ Storage'
  <2>1. \A x \in Blocks : "data" \in status'[x] => "tree" \in status'[x]
    BY <1>2 DEF IInv, DataInTree
  <2> QED BY <1>1, <1>2, <2>1, UnflushedOk DEF IInv, TypeOK
<1>6. Holding'
  <2>1. candidates \subseteq candidates'
    BY <1>1 DEF ReceivedBlockTransactions
  <2> QED BY <1>1, <2>1 DEF IInv, TypeOK, Holding
<1>7. ActiveChain'
  BY <1>1, <1>2, AncestorsClosed DEF IInv, TypeOK, ActiveChain
<1> QED BY <1>3, <1>4, <1>5, <1>6, <1>7 DEF IInv
-----------------------------------------------------------------------------
(* Failure flags and disconnections.                                       *)

(* Failure flags change and nothing is flushed.                              *)
LEMMA FlagsOnly ==
    ASSUME IInv, status' \in [Blocks -> SUBSET Flags],
           \A b \in Blocks : status'[b] \cap Core = status[b] \cap Core,
           dirty' \in SUBSET Blocks, dirty \subseteq dirty',
           UNCHANGED <<linked, unlinked, tip>>, UNCHANGED stored
    PROVE  DataInTree' /\ Linkage' /\ ActiveChain' /\ Storage'
<1>1. tip' \in Ancestors[tip]
  BY AncestorsClosed DEF IInv, TypeOK
<1>2. \A b \in Blocks : status[b] \cap Core \subseteq status'[b]
  OBVIOUS
<1> QED BY <1>1, <1>2, SameCore, UnflushedOk

(* DisconnectTip, whatever failure flags are set along with it.              *)
LEMMA DisconnectOk ==
    ASSUME IInv, NEW st \in [Blocks -> SUBSET Flags], NEW d \in SUBSET Blocks,
           \A b \in Blocks : st[b] \cap Core = status[b] \cap Core,
           dirty \subseteq d, DisconnectTip(st, d),
           candidates' \subseteq candidates, UNCHANGED <<linked, unlinked, seq, lowFirst>>
    PROVE  /\ DataInTree' /\ Linkage' /\ Candidacy' /\ ActiveChain' /\ Storage'
           /\ status' \in [Blocks -> SUBSET Flags] /\ tip' \in Blocks
           /\ dirty' \in SUBSET Blocks /\ diskBest' \in Blocks
           /\ disk' \in [Blocks -> SUBSET Flags]
<1>1. /\ tip # Genesis /\ tip' = Prev[tip] /\ status' = st
      /\ Flush(status', d, tip')
  BY DEF DisconnectTip
<1>2. Candidacy' /\ tip' \in Ancestors[tip] /\ tip' \in Blocks
  BY <1>1, CandidacyBack
<1>3. /\ Linkage' /\ ActiveChain'
      /\ \A b \in Blocks : "data" \in status'[b] => "tree" \in status'[b]
  BY <1>1, <1>2, SameCore
<1>4. /\ \A b \in Blocks : disk[b] \cap Core \subseteq status'[b]
      /\ \A b \in Blocks \ d : status'[b] \cap Core \subseteq disk[b]
      /\ \A a \in Ancestors[tip'] : Core \subseteq status'[a]
      /\ MayFlush(status', d, tip')
  BY <1>1, <1>3 DEF IInv, Storage, ActiveChain, MayFlush
<1>5. /\ dirty' \in SUBSET Blocks /\ diskBest' \in Blocks
      /\ disk' \in [Blocks -> SUBSET Flags]
      /\ DataInTree' /\ Storage'
  BY <1>1, <1>2, <1>3, <1>4, FlushOk
<1> QED BY <1>1, <1>2, <1>3, <1>5

-----------------------------------------------------------------------------
(* ActivateBestChain.                                                      *)

(* FindMostWorkChain marks or drops only blocks of another branch that lie     *)
(* above a failed block of that branch, or are failed themselves ...         *)
LEMMA PassedOver ==
    ASSUME candidates \in SUBSET Blocks, NEW most,
           NEW y, \/ y \in UNION {AboveFailed(c) : c \in Passed(most)}
                  \/ y \in UNION {FirstFailed(c) : c \in Passed(most)}
    PROVE  /\ y \in Blocks /\ y \notin Ancestors[tip]
           /\ \E x \in Ancestors[y] : x \in Blocks /\ x \notin Ancestors[tip] /\ Failed(x)
<1>1. PICK c \in Passed(most) : y \in AboveFailed(c) \/ y \in FirstFailed(c)
  <2>1. CASE y \in UNION {AboveFailed(c) : c \in Passed(most)}
    BY <2>1
  <2>2. CASE y \in UNION {FirstFailed(c) : c \in Passed(most)}
    BY <2>2
  <2> QED BY <2>1, <2>2
<1>2. c \in Blocks /\ ~Usable(c) /\ y \in Path(c)
  BY <1>1 DEF Passed, AboveFailed, FirstFailed
<1>3. y \in Blocks /\ y \notin Ancestors[tip] /\ y \in Ancestors[c]
  BY <1>2, AncestorsClosed DEF Path
<1>4. CASE y \in FirstFailed(c)
  BY <1>3, <1>4, AncestorsClosed DEF FirstFailed
<1>5. CASE y \in AboveFailed(c)
  <2>1. PICK x \in Path(c) : Failed(x)
    BY <1>2 DEF Usable
  <2>2. x \in Ancestors[c] /\ x \notin Ancestors[tip] /\ x \in Blocks
    BY <1>2, <2>1, AncestorsClosed DEF Path
  <2>3. y \notin Ancestors[x]
    BY <1>5, <2>1 DEF AboveFailed
  <2>4. x \in Ancestors[y]
    BY <1>2, <1>3, <2>2, <2>3, AncestorsLinear
  <2> QED BY <1>3, <2>1, <2>2, <2>4
<1> QED BY <1>1, <1>3, <1>4, <1>5

(* ... so the candidate it chooses stays one, and beats the other usable ones. *)
LEMMA ChoiceStays ==
    ASSUME candidates \in SUBSET Blocks, NEW most \in MostWork, FindMostWorkChain(most)
    PROVE  /\ most # None => most \in candidates' /\ Usable(most)
           /\ \A c \in candidates : Usable(c) => most # None /\ (c = most \/ Worse(c, most))
<1> DEFINE U == {c \in candidates : Usable(c)}
<1>1. CASE U = {}
  <2>1. most = None
    BY <1>1 DEF MostWork
  <2> QED BY <1>1, <2>1
<1>2. CASE U # {}
  <2>1. MostWork = {c \in U : \A d \in U \ {c} : Worse(d, c)}
    BY <1>2 DEF MostWork
  <2>2. /\ most \in candidates /\ Usable(most)
        /\ \A d \in candidates : Usable(d) => d = most \/ Worse(d, most)
    BY <2>1
  <2>3. most # None
    BY <2>2
  <2>4. most \in candidates'
    <3> DEFINE above == UNION {AboveFailed(c) : c \in Passed(most)}
               first == UNION {FirstFailed(c) : c \in Passed(most)}
    <3>1. ASSUME most \in above \/ most \in first PROVE FALSE
      <4>1. PICK x \in Ancestors[most] : x \notin Ancestors[tip] /\ Failed(x)
        BY <3>1, PassedOver
      <4> QED BY <2>2, <4>1 DEF Usable, Path
    <3>2. candidates' = candidates \ (above \cup first)
      BY DEF FindMostWorkChain
    <3> HIDE DEF above, first
    <3> QED BY <2>2, <3>1, <3>2
  <2> QED BY <2>2, <2>3, <2>4
<1> QED BY <1>1, <1>2

(* FindMostWorkChain only drops candidates and sets failure flags.           *)
LEMMA ActivateOk ==
    ASSUME IInv, NEW t \in Threads, ActivateBestChain(t)
    PROVE  IInv'
<1>1. PICK most \in MostWork :
          /\ FindMostWorkChain(most)
          /\ IF most \in {None, tip}
             THEN /\ Goto(t, "idle")
                  /\ UNCHANGED <<lock, mostWork, oldTip>>
             ELSE /\ Goto(t, "step")
                  /\ lock' = t
                  /\ mostWork' = [mostWork EXCEPT ![t] = most]
                  /\ oldTip' = [oldTip EXCEPT ![t] = tip]
  BY DEF ActivateBestChain
<1>2. /\ lock = None
      /\ UNCHANGED <<fault, dirty, linked, seq, lowFirst, unlinked, tip, replay>>
      /\ UNCHANGED stored /\ UNCHANGED bounds
  BY DEF ActivateBestChain
<1>3. /\ status' \in [Blocks -> SUBSET Flags]
      /\ \A b \in Blocks : status'[b] \cap Core = status[b] \cap Core
      /\ candidates' \subseteq candidates
  <2>1. PICK S : status' = Add(status, S, "failed_child")
    BY <1>1 DEF FindMostWorkChain
  <2>2. "failed_child" \in Flags /\ "failed_child" \in FailedMask
    BY DEF Flags, FailedMask
  <2> QED BY <1>1, <2>1, <2>2, FlagsOk DEF IInv, TypeOK, FindMostWorkChain
<1>4. most \in candidates' \cup {None}
  BY <1>1, ChoiceStays DEF IInv, TypeOK
<1>5. candidates \subseteq linked /\ linked \subseteq Blocks /\ tip \in Blocks
  BY DEF IInv, Candidacy, TypeOK
<1>6. TypeOK'
  <2>1. CASE most \in {None, tip}
    BY <1>1, <1>2, <1>3, <2>1 DEF IInv, TypeOK, Goto, stored, bounds, PC
  <2>2. CASE most \notin {None, tip}
    BY <1>1, <1>2, <1>3, <1>4, <1>5, <2>2 DEF IInv, TypeOK, Goto, stored, bounds, PC
  <2> QED BY <2>1, <2>2
<1>7. DataInTree' /\ Linkage' /\ ActiveChain' /\ Storage'
  BY <1>2, <1>3, FlagsOnly DEF IInv, TypeOK
<1>8. Candidacy'
  BY <1>2, <1>3, CandidacyBack
<1>9. Holding'
  <2>1. CASE most \in {None, tip}
    BY <1>1, <1>2, <2>1 DEF IInv, TypeOK, Holding, Goto
  <2>2. CASE most \notin {None, tip}
    <3>1. \A u \in Threads : pc[u] \notin {"step", "invalidate", "disconnect", "replay"}
      BY <1>2 DEF IInv, Holding
    <3> QED BY <1>1, <1>2, <1>4, <2>2, <3>1 DEF IInv, TypeOK, Holding, Goto
  <2> QED BY <2>1, <2>2
<1> QED BY <1>6, <1>7, <1>8, <1>9 DEF IInv

(* A block of the old chain is disconnected.                                 *)
LEMMA StepDisconnectOk ==
    ASSUME IInv, NEW t \in Threads, StepDisconnect(t)
    PROVE  IInv'
<1>1. /\ DisconnectTip(status, dirty)
      /\ UNCHANGED <<fault, linked, seq, lowFirst, candidates, unlinked>>
      /\ UNCHANGED threads /\ UNCHANGED bounds
  BY DEF StepDisconnect
<1>2. /\ DataInTree' /\ Linkage' /\ Candidacy' /\ ActiveChain' /\ Storage'
      /\ status' \in [Blocks -> SUBSET Flags] /\ tip' \in Blocks
      /\ dirty' \in SUBSET Blocks /\ diskBest' \in Blocks
      /\ disk' \in [Blocks -> SUBSET Flags]
  BY <1>1, DisconnectOk DEF IInv, TypeOK
<1>3. TypeOK'
  BY <1>1, <1>2 DEF IInv, TypeOK, threads, bounds
<1>4. Holding'
  BY <1>1 DEF IInv, Holding, threads
<1> QED BY <1>2, <1>3, <1>4 DEF IInv

(* PruneBlockIndexCandidates keeps the block the step works towards.         *)
LEMMA ConnectKeeps ==
    ASSUME candidates \in SUBSET Blocks, seq \in [Blocks -> Nat],
           NEW m \in candidates, NEW b \in Ancestors[m]
    PROVE  m \in PruneCandidates(candidates, b, seq, lowFirst)
<1>1. /\ b \in Blocks /\ m \in Blocks /\ b \in Nat /\ m \in Nat
      /\ Work[b] \in Nat /\ Work[m] \in Nat /\ seq[b] \in Nat /\ seq[m] \in Nat
  BY AncestorsClosed
<1>2. b = m \/ Work[b] < Work[m]
  BY AncestorsWork
<1>3. ~WorseBy(m, b, seq, lowFirst)
  BY <1>1, <1>2 DEF WorseBy
<1> QED BY <1>3 DEF PruneCandidates

(* The next block of the best chain is connected.  Its data is there because  *)
(* the chain it works towards is linked.                                     *)
LEMMA StepConnectOk ==
    ASSUME IInv, NEW t \in Threads, NEW b \in Blocks, StepConnect(t, b)
    PROVE  IInv'
<1> DEFINE d == IF "scripts" \in status[b] THEN dirty ELSE dirty \cup {b}
<1>1. /\ pc[t] = "step" /\ b \in Ancestors[mostWork[t]] \ {Genesis} /\ Prev[b] = tip
      /\ tip' = b /\ status' = Add(status, {b}, "scripts")
      /\ MayFlush(status', d, b)
      /\ candidates' = PruneCandidates(candidates, b, seq, lowFirst)
      /\ node' = IF candidates' = {} THEN "assert" ELSE "up"
      /\ \/ lock' = None /\ pc' = [pc EXCEPT ![t] = "test"]
         \/ UNCHANGED <<lock, pc>>
      /\ UNCHANGED <<fault, linked, seq, lowFirst, unlinked, mostWork, oldTip, replay,
                     manual, crashes>>
  BY DEF StepConnect, Connecting, InStep, Release, Goto
<1>2. mostWork[t] \in candidates /\ mostWork[t] \in linked /\ mostWork[t] \in Blocks
  BY <1>1 DEF IInv, Holding, Candidacy, TypeOK
<1>3. {"tree", "data"} \subseteq status[b]
  BY <1>1, <1>2 DEF IInv, Linkage, HasData, DataInTree
<1>4. /\ status' \in [Blocks -> SUBSET Flags]
      /\ status'[b] = status[b] \cup {"scripts"}
      /\ \A x \in Blocks \ {b} : status'[x] = status[x]
  BY <1>1 DEF IInv, TypeOK, Add, Flags
<1>5. \A x \in Blocks : "data" \in status'[x] <=> "data" \in status[x]
  BY <1>4
<1>6. Linkage'
  BY <1>1, <1>5, AncestorsClosed DEF IInv, Linkage, HasData
<1>7. \A a \in Ancestors[b] : Core \subseteq status'[a]
  <2>1. Ancestors[b] = {b} \cup Ancestors[tip] /\ Ancestors[tip] \in SUBSET Blocks
    BY <1>1, AncestorsStep, AncestorsClosed DEF IInv, TypeOK
  <2>2. Core \subseteq status'[b]
    BY <1>3, <1>4 DEF Core
  <2> QED BY <1>4, <2>1, <2>2 DEF IInv, ActiveChain
<1>8. ActiveChain'
  BY <1>1, <1>7 DEF ActiveChain
<1>9. /\ dirty' \in SUBSET Blocks /\ diskBest' \in Blocks
      /\ disk' \in [Blocks -> SUBSET Flags]
      /\ DataInTree' /\ Storage'
  <2>1. d \in SUBSET Blocks /\ \A x \in Blocks \ d : status'[x] = status[x]
    <3>1. dirty \in SUBSET Blocks
      BY DEF IInv, TypeOK
    <3>2. CASE "scripts" \in status[b]
      <4>1. status'[b] = status[b]
        BY <1>4, <3>2
      <4> QED BY <1>4, <3>1, <3>2, <4>1
    <3>3. CASE "scripts" \notin status[b]
      BY <1>4, <3>1, <3>3
    <3> QED BY <3>2, <3>3
  <2>2. \A x \in Blocks : "data" \in status'[x] => "tree" \in status'[x]
    BY <1>4 DEF IInv, DataInTree
  <2>3. /\ \A x \in Blocks : disk[x] \cap Core \subseteq status'[x]
        /\ \A x \in Blocks \ d : status'[x] \cap Core \subseteq disk[x]
    BY <1>4, <2>1 DEF IInv, Storage
  <2> HIDE DEF d
  <2> QED BY <1>1, <1>4, <1>7, <2>1, <2>2, <2>3, FlushOk
<1>10. Candidacy'
  BY <1>1 DEF IInv, Candidacy, PruneCandidates
<1>11. TypeOK'
  BY <1>1, <1>4, <1>9 DEF IInv, TypeOK, PruneCandidates, PC
<1>12. Holding'
  <2>1. mostWork[t] \in candidates'
    BY <1>1, <1>2, ConnectKeeps DEF IInv, TypeOK
  <2>2. \A u \in Threads : pc[u] \in {"step", "invalidate", "disconnect", "replay"} => u = t
    BY <1>1 DEF IInv, Holding
  <2> QED BY <1>1, <2>1, <2>2 DEF IInv, TypeOK, Holding
<1> QED BY <1>6, <1>8, <1>9, <1>10, <1>11, <1>12 DEF IInv
(* A block turns out invalid when it is connected.                           *)
LEMMA StepConnectFailsOk ==
    ASSUME IInv, NEW t \in Threads, NEW b \in Blocks, StepConnectFails(t, b)
    PROVE  IInv'
<1>1. /\ pc[t] = "step"
      /\ status' = Add(status, {b}, "failed_valid") /\ dirty' = dirty \cup {b}
      /\ candidates' = candidates \ {b}
      /\ lock' = None /\ pc' = [pc EXCEPT ![t] = "test"]
      /\ UNCHANGED <<fault, linked, seq, lowFirst, unlinked, tip, mostWork, oldTip, replay>>
      /\ UNCHANGED stored /\ UNCHANGED bounds
  BY DEF StepConnectFails, Connecting, InStep, MarkInvalid, Release, Goto
<1>2. /\ status' \in [Blocks -> SUBSET Flags]
      /\ \A x \in Blocks : status'[x] \cap Core = status[x] \cap Core
  <2>1. "failed_valid" \in Flags /\ "failed_valid" \in FailedMask /\ status \in [Blocks -> SUBSET Flags]
    BY DEF Flags, FailedMask, IInv, TypeOK
  <2> QED BY <1>1, <2>1, FlagsOk
<1>3. DataInTree' /\ Linkage' /\ ActiveChain' /\ Storage'
  BY <1>1, <1>2, FlagsOnly DEF IInv, TypeOK
<1>4. Candidacy'
  BY <1>1, CandidacyBack
<1>5. TypeOK'
  BY <1>1, <1>2 DEF IInv, TypeOK, stored, bounds, PC
<1>6. Holding'
  <2>1. \A u \in Threads : pc[u] \in {"step", "invalidate", "disconnect", "replay"} => u = t
    BY <1>1 DEF IInv, Holding
  <2> QED BY <1>1, <2>1 DEF IInv, TypeOK, Holding
<1> QED BY <1>3, <1>4, <1>5, <1>6 DEF IInv

(* The periodic flush after the loop.                                        *)
LEMMA DoneOk ==
    ASSUME IInv, NEW t \in Threads, Done(t)
    PROVE  IInv'
<1>1. /\ MayFlush(status', dirty, tip) /\ pc' = [pc EXCEPT ![t] = "idle"]
      /\ UNCHANGED <<fault, status, linked, seq, lowFirst, candidates, unlinked, tip,
                     lock, mostWork, oldTip, replay>>
      /\ UNCHANGED bounds
  BY DEF Done, Goto
<1>2. /\ dirty' \in SUBSET Blocks /\ diskBest' \in Blocks
      /\ disk' \in [Blocks -> SUBSET Flags]
      /\ DataInTree' /\ Storage'
  <2>1. /\ dirty \in SUBSET Blocks /\ tip \in Blocks /\ status' \in [Blocks -> SUBSET Flags]
        /\ \A x \in Blocks : "data" \in status'[x] => "tree" \in status'[x]
        /\ \A x \in Blocks : disk[x] \cap Core \subseteq status'[x]
        /\ \A x \in Blocks \ dirty : status'[x] \cap Core \subseteq disk[x]
        /\ \A a \in Ancestors[tip] : Core \subseteq status'[a]
    BY <1>1 DEF IInv, TypeOK, DataInTree, Storage, ActiveChain
  <2> QED BY <1>1, <2>1, FlushOk
<1>3. TypeOK'
  BY <1>1, <1>2 DEF IInv, TypeOK, bounds, PC
<1>4. Holding'
  BY <1>1 DEF IInv, TypeOK, Holding
<1>5. Linkage' /\ Candidacy' /\ ActiveChain'
  BY <1>1 DEF IInv, Linkage, HasData, Candidacy, ActiveChain
<1> QED BY <1>2, <1>3, <1>4, <1>5 DEF IInv

-----------------------------------------------------------------------------
(* Manual interventions.                                                   *)

(* InvalidateBlock marks the block and, in its loop, each disconnected tip.   *)
LEMMA InvalidateBlockOk ==
    ASSUME IInv, NEW t \in Threads, NEW b \in Blocks, InvalidateBlock(t, b)
    PROVE  IInv'
<1>1. /\ status' = Add(status, {b}, "failed_valid") /\ dirty' = dirty \cup {b}
      /\ candidates' = candidates \ {b}
      /\ lock = None /\ lock' = t /\ pc' = [pc EXCEPT ![t] = "invalidate"]
      /\ mostWork' = [mostWork EXCEPT ![t] = b]
      /\ manual' = manual + 1
      /\ UNCHANGED <<fault, linked, seq, lowFirst, unlinked, tip, oldTip, replay,
                     node, crashes>>
      /\ UNCHANGED stored
  BY DEF InvalidateBlock, Intervenes, Calls, MarkInvalid, Goto
<1>2. /\ status' \in [Blocks -> SUBSET Flags]
      /\ \A x \in Blocks : status'[x] \cap Core = status[x] \cap Core
  <2>1. "failed_valid" \in Flags /\ "failed_valid" \in FailedMask /\ status \in [Blocks -> SUBSET Flags]
    BY DEF Flags, FailedMask, IInv, TypeOK
  <2> QED BY <1>1, <2>1, FlagsOk
<1>3. DataInTree' /\ Linkage' /\ ActiveChain' /\ Storage'
  BY <1>1, <1>2, FlagsOnly DEF IInv, TypeOK
<1>4. Candidacy'
  BY <1>1, CandidacyBack
<1>5. TypeOK'
  <2>1. /\ mostWork' \in [Threads -> Blocks \cup {None}] /\ pc' \in [Threads -> PC]
        /\ manual' \in Nat /\ lock' \in Threads \cup {None}
    BY <1>1 DEF IInv, TypeOK, PC
  <2> QED BY <1>1, <1>2, <2>1 DEF IInv, TypeOK, stored
<1>6. Holding'
  BY <1>1 DEF IInv, TypeOK, Holding
<1> QED BY <1>3, <1>4, <1>5, <1>6 DEF IInv

(* ... InvalidateBlock's loop: the mark ...                                  *)
LEMMA InvalidateMarkOk ==
    ASSUME IInv, NEW t \in Threads, InvalidateMark(t)
    PROVE  IInv'
<1>1. /\ pc[t] = "invalidate"
      /\ status' = Add(status, {tip}, "failed_child") /\ dirty' = dirty \cup {tip}
      /\ candidates' = candidates \ {tip}
      /\ pc' = [pc EXCEPT ![t] = "disconnect"]
      /\ UNCHANGED <<fault, linked, seq, lowFirst, unlinked, tip, lock, mostWork, oldTip, replay>>
      /\ UNCHANGED stored /\ UNCHANGED bounds
  BY DEF InvalidateMark, Goto
<1>2. /\ status' \in [Blocks -> SUBSET Flags]
      /\ \A x \in Blocks : status'[x] \cap Core = status[x] \cap Core
  <2>1. "failed_child" \in Flags /\ "failed_child" \in FailedMask /\ status \in [Blocks -> SUBSET Flags]
    BY DEF Flags, FailedMask, IInv, TypeOK
  <2> QED BY <1>1, <2>1, FlagsOk
<1>3. DataInTree' /\ Linkage' /\ ActiveChain' /\ Storage'
  BY <1>1, <1>2, FlagsOnly DEF IInv, TypeOK
<1>4. Candidacy'
  BY <1>1, CandidacyBack
<1>5. TypeOK'
  BY <1>1, <1>2 DEF IInv, TypeOK, stored, bounds, PC
<1>6. Holding'
  <2>1. \A u \in Threads : pc[u] \in {"step", "invalidate", "disconnect", "replay"} => u = t
    BY <1>1 DEF IInv, Holding
  <2> QED BY <1>1, <2>1 DEF IInv, TypeOK, Holding
<1> QED BY <1>3, <1>4, <1>5, <1>6 DEF IInv

(* ... the disconnection ...                                                 *)
LEMMA InvalidateTipOk ==
    ASSUME IInv, NEW t \in Threads, InvalidateTip(t)
    PROVE  IInv'
<1>1. /\ DisconnectTip(status, dirty)
      /\ pc[t] = "disconnect" /\ pc' = [pc EXCEPT ![t] = "invalidate"]
      /\ UNCHANGED <<fault, linked, seq, lowFirst, candidates, unlinked, lock, mostWork,
                     oldTip, replay>>
      /\ UNCHANGED bounds
  BY DEF InvalidateTip, Goto
<1>2. /\ DataInTree' /\ Linkage' /\ Candidacy' /\ ActiveChain' /\ Storage'
      /\ status' \in [Blocks -> SUBSET Flags] /\ tip' \in Blocks
      /\ dirty' \in SUBSET Blocks /\ diskBest' \in Blocks
      /\ disk' \in [Blocks -> SUBSET Flags]
  BY <1>1, DisconnectOk DEF IInv, TypeOK
<1>3. TypeOK'
  BY <1>1, <1>2 DEF IInv, TypeOK, bounds, PC
<1>4. Holding'
  BY <1>1 DEF IInv, TypeOK, Holding
<1> QED BY <1>2, <1>3, <1>4 DEF IInv

(* ... and its end, which makes every block as good as the tip a candidate.   *)
LEMMA InvalidateEndOk ==
    ASSUME IInv, NEW t \in Threads, InvalidateEnd(t)
    PROVE  IInv'
<1>1. /\ pc[t] = "invalidate"
      /\ candidates' = candidates \cup
            {x \in linked : IsValidTransactions(x, status) /\ ~Worse(x, tip)}
      /\ lock' = None /\ pc' = [pc EXCEPT ![t] = "loop"]
      /\ UNCHANGED <<fault, status, dirty, linked, seq, lowFirst, unlinked, tip,
                     mostWork, oldTip, replay>>
      /\ UNCHANGED stored /\ UNCHANGED bounds
  BY DEF InvalidateEnd, Release, Goto
<1>2. DataInTree' /\ Linkage' /\ ActiveChain' /\ Storage'
  BY <1>1, FlagsOnly DEF IInv, TypeOK
<1>3. Candidacy'
  BY <1>1 DEF IInv, Candidacy, Worse
<1>4. TypeOK'
  BY <1>1 DEF IInv, TypeOK, stored, bounds, PC
<1>5. Holding'
  BY <1>1 DEF IInv, TypeOK, Holding
<1> QED BY <1>2, <1>3, <1>4, <1>5 DEF IInv

(* CBlockIndexWorkComparator is asymmetric.                                  *)
LEMMA WorseAsymmetric ==
    ASSUME NEW a \in Blocks, NEW b \in Blocks, NEW ids \in [Blocks -> Nat], NEW low,
           WorseBy(a, b, ids, low)
    PROVE  ~WorseBy(b, a, ids, low)
<1>1. /\ a \in Nat /\ b \in Nat /\ Work[a] \in Nat /\ Work[b] \in Nat
      /\ ids[a] \in Nat /\ ids[b] \in Nat
  OBVIOUS
<1> QED BY <1>1 DEF WorseBy

(* ReconsiderBlock clears failure flags and adds candidates better than the   *)
(* tip.                                                                      *)
LEMMA ReconsiderOk ==
    ASSUME IInv, NEW R \in SUBSET Blocks, Reconsider(R),
           UNCHANGED <<linked, seq, lowFirst, unlinked, tip>>, UNCHANGED stored
    PROVE  /\ DataInTree' /\ Linkage' /\ Candidacy' /\ ActiveChain' /\ Storage'
           /\ status' \in [Blocks -> SUBSET Flags]
           /\ dirty' \in SUBSET Blocks /\ candidates' \in SUBSET Blocks
<1> DEFINE below == {x \in Known : ~IsValidTransactions(x, status)
                                   /\ Ancestors[x] \cap R # {}}
           above == {x \in UNION {Ancestors[b] : b \in R} : Failed(x)}
<1>1. /\ status' = Strip(status, below \cup above)
      /\ dirty' = dirty \cup below \cup above
      /\ candidates' = candidates \cup
            {x \in below \cap linked : IsValidTransactions(x, status') /\ Worse(tip, x)}
  BY DEF Reconsider
<1>2. below \in SUBSET Blocks /\ above \in SUBSET Blocks
  BY AncestorsClosed DEF Known
<1> HIDE DEF below, above
<1>3. /\ status' \in [Blocks -> SUBSET Flags]
      /\ \A x \in Blocks : status'[x] \cap Core = status[x] \cap Core
  <2>1. "failed_child" \in Flags /\ status \in [Blocks -> SUBSET Flags]
    BY DEF Flags, IInv, TypeOK
  <2> DEFINE S == below \cup above
  <2> HIDE DEF S
  <2>2. /\ Strip(status, S) \in [Blocks -> SUBSET Flags]
        /\ \A x \in Blocks : Strip(status, S)[x] \cap Core = status[x] \cap Core
    BY <2>1, FlagsOk
  <2> QED BY <1>1, <2>2 DEF S
<1>4. dirty' \in SUBSET Blocks /\ dirty \subseteq dirty' /\ candidates' \in SUBSET Blocks
  BY <1>1, <1>2 DEF IInv, TypeOK
<1>5. DataInTree' /\ Linkage' /\ ActiveChain' /\ Storage'
  BY <1>3, <1>4, FlagsOnly
<1>6. Candidacy'
  <2> SUFFICES ASSUME NEW c \in candidates'
               PROVE  c \in linked /\ ~WorseBy(c, tip, seq, lowFirst)
    BY DEF Candidacy
  <2>1. CASE c \in candidates
    BY <2>1 DEF IInv, Candidacy
  <2>2. CASE c \in linked /\ Worse(tip, c)
    <3>1. c \in Blocks /\ tip \in Blocks /\ seq \in [Blocks -> Nat]
      BY <1>4 DEF IInv, TypeOK
    <3> QED BY <2>2, <3>1, WorseAsymmetric DEF Worse
  <2> QED BY <1>1, <2>1, <2>2
<1> QED BY <1>3, <1>4, <1>5, <1>6

(* The reconsiderblock RPC.                                                  *)
LEMMA ReconsiderBlockOk ==
    ASSUME IInv, NEW t \in Threads, NEW b \in Blocks, ReconsiderBlock(t, b)
    PROVE  IInv'
<1>1. /\ Reconsider({b}) /\ pc' = [pc EXCEPT ![t] = "loop"] /\ manual' = manual + 1
      /\ UNCHANGED <<fault, linked, seq, lowFirst, unlinked, tip, lock, mostWork, oldTip,
                     replay, node, crashes>>
      /\ UNCHANGED stored
  BY DEF ReconsiderBlock, Intervenes, Goto
<1>2. /\ DataInTree' /\ Linkage' /\ Candidacy' /\ ActiveChain' /\ Storage'
      /\ status' \in [Blocks -> SUBSET Flags]
      /\ dirty' \in SUBSET Blocks /\ candidates' \in SUBSET Blocks
  BY <1>1, ReconsiderOk
<1>3. TypeOK'
  BY <1>1, <1>2 DEF IInv, TypeOK, stored, PC
<1>4. Holding'
  <2>1. candidates \subseteq candidates'
    BY <1>1 DEF Reconsider
  <2> QED BY <1>1, <2>1 DEF IInv, TypeOK, Holding
<1> QED BY <1>2, <1>3, <1>4 DEF IInv

(* ReprocessBlocks reconsiders blocks, then disconnects the last ones.       *)
LEMMA ReprocessBlocksOk ==
    ASSUME IInv, NEW t \in Threads, ReprocessBlocks(t)
    PROVE  IInv'
<1>1. PICK R \in SUBSET Blocks : Reconsider(R)
  BY DEF ReprocessBlocks, Known
<1>2. /\ pc' = [pc EXCEPT ![t] = "replay"] /\ manual' = manual + 1
      /\ lock = None /\ lock' = t /\ replay' = ReplayBlocks + 1
      /\ UNCHANGED <<fault, linked, seq, lowFirst, unlinked, tip, mostWork, oldTip,
                     node, crashes>>
      /\ UNCHANGED stored
  BY DEF ReprocessBlocks, Intervenes, Calls, Goto
<1>3. /\ DataInTree' /\ Linkage' /\ Candidacy' /\ ActiveChain' /\ Storage'
      /\ status' \in [Blocks -> SUBSET Flags]
      /\ dirty' \in SUBSET Blocks /\ candidates' \in SUBSET Blocks
  BY <1>1, <1>2, ReconsiderOk
<1>4. TypeOK'
  BY <1>2, <1>3 DEF IInv, TypeOK, stored, PC
<1>5. Holding'
  BY <1>2 DEF IInv, TypeOK, Holding
<1> QED BY <1>3, <1>4, <1>5 DEF IInv
(* DisconnectBlocksAndReprocess disconnects one block.                       *)
LEMMA ReplayStepOk ==
    ASSUME IInv, NEW t \in Threads, ReplayStep(t)
    PROVE  IInv'
<1>1. /\ DisconnectTip(status, dirty) /\ pc[t] = "replay" /\ replay' = replay - 1
      /\ IF replay = 1 THEN lock' = None /\ pc' = [pc EXCEPT ![t] = "loop"]
                       ELSE UNCHANGED <<lock, pc>>
      /\ UNCHANGED <<fault, linked, seq, lowFirst, candidates, unlinked, mostWork, oldTip>>
      /\ UNCHANGED bounds
  BY DEF ReplayStep, Release, Goto
<1>2. /\ DataInTree' /\ Linkage' /\ Candidacy' /\ ActiveChain' /\ Storage'
      /\ status' \in [Blocks -> SUBSET Flags] /\ tip' \in Blocks
      /\ dirty' \in SUBSET Blocks /\ diskBest' \in Blocks
      /\ disk' \in [Blocks -> SUBSET Flags]
  BY <1>1, DisconnectOk DEF IInv, TypeOK
<1>3. TypeOK'
  <2>1. replay \in Nat \ {0} /\ replay \in 0 .. ReplayBlocks + 1
    BY <1>1 DEF IInv, TypeOK, Holding
  <2>2. replay' \in 0 .. ReplayBlocks + 1
    BY <1>1, <2>1
  <2> QED BY <1>1, <1>2, <2>2 DEF IInv, TypeOK, bounds, PC
<1>4. Holding'
  BY <1>1 DEF IInv, TypeOK, Holding
<1> QED BY <1>2, <1>3, <1>4 DEF IInv

-----------------------------------------------------------------------------
(* Crash and restart.                                                      *)

(* What LoadBlockIndexDB makes of databases that hold the coins' chain.      *)
LEMMA LoadOk ==
    ASSUME IInv, NEW d \in [Blocks -> SUBSET Flags], NEW best \in Blocks,
           \A b \in Blocks : "data" \in d[b] => "tree" \in d[b],
           \A a \in Ancestors[best] : Core \subseteq d[a],
           LoadBlockIndex(d, best), UNCHANGED <<fault, manual>>, crashes' \in Nat
    PROVE  IInv'
<1> DEFINE chained == {b \in Blocks : \A a \in Ancestors[b] : "data" \in d[a]}
           zero == [b \in Blocks |-> 0]
<1>1. /\ status' = d /\ dirty' = {} /\ linked' = chained /\ seq' = zero
      /\ lowFirst' \in BOOLEAN
      /\ unlinked' = {b \in Blocks : "data" \in d[b]} \ chained
      /\ candidates' = PruneCandidates({b \in chained : IsValidTransactions(b, d)},
                                       best, zero, lowFirst')
      /\ tip' = best /\ disk' = d /\ diskBest' = best
      /\ node' = IF Dangling(d) THEN "damaged"
                 ELSE IF candidates' = {} THEN "assert" ELSE "up"
      /\ lock' = None
      /\ \E i \in Threads : pc' = [t \in Threads |-> IF t = i THEN "loop" ELSE "idle"]
      /\ mostWork' = [t \in Threads |-> None]
      /\ oldTip' = [t \in Threads |-> None]
      /\ replay' = 0
  BY DEF LoadBlockIndex
<1>2. Linkage'
  BY <1>1 DEF Linkage, HasData
<1>3. Candidacy'
  BY <1>1 DEF Candidacy, PruneCandidates
<1>4. pc' \in [Threads -> {"loop", "idle"}]
  BY <1>1
<1>5. Holding'
  BY <1>4 DEF Holding
<1>6. DataInTree' /\ ActiveChain' /\ Storage'
  BY <1>1 DEF DataInTree, ActiveChain, Storage
<1>7. TypeOK'
  <2>1. pc' \in [Threads -> PC] /\ seq' \in [Blocks -> Nat] /\ candidates' \in SUBSET Blocks
    BY <1>1, <1>4 DEF PC, PruneCandidates
  <2>2. linked' \in SUBSET Blocks /\ unlinked' \in SUBSET Blocks /\ node' \in {"up", "assert", "damaged"}
    BY <1>1
  <2>3. /\ fault' \in [Blocks -> {"none", "contextual", "connect"}] /\ manual' \in Nat
        /\ replay' \in 0 .. ReplayBlocks + 1
        /\ mostWork' \in [Threads -> Blocks \cup {None}]
        /\ oldTip' \in [Threads -> Blocks \cup {None}]
    BY <1>1 DEF IInv, TypeOK
  <2> QED BY <1>1, <2>1, <2>2, <2>3 DEF TypeOK
<1> QED BY <1>2, <1>3, <1>5, <1>6, <1>7 DEF IInv

(* A crash in the middle of a flush leaves newer index entries under the old  *)
(* coins, a shutdown writes both: either way the coins' chain is on disk.    *)
LEMMA StopOk ==
    ASSUME IInv, (\E S \in SUBSET dirty : Crash(S)) \/ Shutdown
    PROVE  IInv'
<1> DEFINE d(S) == Written(S, status)
<1>1. ASSUME NEW S \in SUBSET dirty
      PROVE  /\ d(S) \in [Blocks -> SUBSET Flags]
             /\ \A b \in Blocks : d(S)[b] = IF b \in S THEN status[b] ELSE disk[b]
             /\ \A b \in Blocks : "data" \in d(S)[b] => "tree" \in d(S)[b]
  BY DEF IInv, TypeOK, DataInTree, Written
<1>2. diskBest \in Blocks /\ tip \in Blocks /\ crashes + 1 \in Nat
  BY DEF IInv, TypeOK
<1>3. ASSUME NEW S \in SUBSET dirty, Crash(S) PROVE IInv'
  <2>1. \A a \in Ancestors[diskBest] : Core \subseteq d(S)[a]
    BY <1>1, <1>2, AncestorsClosed DEF IInv, Storage
  <2>2. /\ LoadBlockIndex(d(S), diskBest) /\ UNCHANGED <<fault, manual>>
        /\ crashes' = crashes + 1
    BY <1>3 DEF Crash, Stops
  <2> HIDE DEF d
  <2> QED BY <1>1, <1>2, <2>1, <2>2, LoadOk
<1>4. CASE Shutdown
  <2>1. \A a \in Ancestors[tip] : Core \subseteq d(dirty)[a]
    <3> SUFFICES ASSUME NEW a \in Ancestors[tip] PROVE Core \subseteq d(dirty)[a]
      OBVIOUS
    <3>1. a \in Blocks /\ Core \subseteq status[a]
      BY <1>2, AncestorsClosed DEF IInv, ActiveChain
    <3>2. a \notin dirty => Core \subseteq disk[a]
      BY <3>1 DEF IInv, Storage
    <3>3. d(dirty)[a] = IF a \in dirty THEN status[a] ELSE disk[a]
      BY <3>1 DEF Written
    <3> QED BY <3>1, <3>2, <3>3
  <2>2. /\ LoadBlockIndex(d(dirty), tip) /\ UNCHANGED <<fault, manual>>
        /\ crashes' = crashes + 1
    BY <1>4 DEF Shutdown, Stops
  <2> HIDE DEF d
  <2> QED BY <1>1, <1>2, <2>1, <2>2, LoadOk
<1> QED BY <1>3, <1>4

-----------------------------------------------------------------------------
(* Every step preserves the invariant.                                       *)
LEMMA NextOk == IInv /\ [Next]_vars => IInv'
<1> SUFFICES ASSUME IInv, [Next]_vars PROVE IInv'
  OBVIOUS
<1>1. ASSUME NEW t \in Threads, NEW b \in Blocks, ProcessNewBlock(t, b) PROVE IInv'
  <2>1. CASE ProcessDuplicate(t, b)
    BY <2>1, ControlOk DEF ProcessDuplicate
  <2> QED BY <1>1, <2>1, RefusedOk, StoredOk DEF ProcessNewBlock
<1>2. ASSUME NEW t \in Threads, NEW b \in Blocks,
             InvalidateBlock(t, b) \/ ReconsiderBlock(t, b)
      PROVE  IInv'
  BY <1>2, InvalidateBlockOk, ReconsiderBlockOk
<1>3. ASSUME NEW t \in Threads, ReprocessBlocks(t) PROVE IInv'
  BY <1>3, ReprocessBlocksOk
<1>4. ASSUME NEW t \in Threads, Continue(t) PROVE IInv'
  <2>1. CASE ActivateBestChainStep(t)
    BY <2>1, StepDisconnectOk, StepConnectOk, StepConnectFailsOk DEF ActivateBestChainStep
  <2>2. CASE Test(t)
    <3>1. PICK l \in {"done", "loop"} : Goto(t, l)
      BY <2>2 DEF Test
    <3> QED BY <2>2, <3>1, ControlOk DEF Test
  <2> QED BY <1>4, <2>1, <2>2, ActivateOk, DoneOk, InvalidateMarkOk, InvalidateTipOk, InvalidateEndOk,
             ReplayStepOk DEF Continue
<1>5. CASE (\E S \in SUBSET dirty : Crash(S)) \/ Shutdown
  BY <1>5, StopOk
<1>6. CASE UNCHANGED vars
  BY <1>6 DEF vars, index, threads, stored, bounds, IInv, TypeOK, DataInTree, Linkage,
              HasData, Candidacy, Holding, ActiveChain, Storage
<1> QED BY <1>1, <1>2, <1>3, <1>4, <1>5, <1>6 DEF Next

-----------------------------------------------------------------------------
(* Failure marks.  They are not part of IInv, for a crash in the middle of    *)
(* InvalidateBlock leaves them anywhere on disk; as long as there was no       *)
(* crash, or no intervention, they are kept off the active chain and off the  *)
(* chain a step works towards.                                               *)

NoTrace == crashes = 0 \/ manual = 0

Unmarked ==
    NoTrace =>
        /\ \A a \in Ancestors[tip] : Failed(a) =>
              \E t \in Threads : /\ pc[t] \in {"invalidate", "disconnect"}
                                 /\ mostWork[t] \in Ancestors[a]
        /\ \A t \in Threads : pc[t] = "step" =>
              \A a \in Ancestors[mostWork[t]] : ~Failed(a)

\* The coins on disk are those of the active chain or of a block below it: a block
\* is disconnected from both at once.
Behind == diskBest \in Ancestors[tip]

\* Without an intervention no mark is ever taken back, so that those on disk are
\* among those in memory.
Intact ==
    manual = 0 =>
        /\ \A t \in Threads : pc[t] \notin {"invalidate", "disconnect", "replay"}
        /\ \A b \in Blocks : disk[b] \cap FailedMask \subseteq status[b]

MInv == Unmarked /\ Behind /\ Intact

(* With cs_main free no block of the active chain is marked.                 *)
LEMMA UnmarkedAtRest ==
    ASSUME IInv, Unmarked, lock = None, NoTrace, NEW a \in Ancestors[tip]
    PROVE  ~Failed(a)
BY DEF IInv, Holding, Unmarked

(* Whoever is in the middle of a step is alone in it.                        *)
LEMMA Alone ==
    ASSUME IInv, NEW t \in Threads, pc[t] \in {"step", "invalidate", "disconnect", "replay"},
           NEW u \in Threads, pc[u] \in {"step", "invalidate", "disconnect", "replay"}
    PROVE  u = t /\ lock = t
BY DEF IInv, Holding

(* A step that begins no connection and no invalidation, ends no             *)
(* invalidation, and marks only blocks that are out of the way.              *)
LEMMA UnmarkedKept ==
    ASSUME IInv, Unmarked, NoTrace' => NoTrace, UNCHANGED mostWork, tip' \in Ancestors[tip],
           \A t \in Threads : /\ pc'[t] = "step" => pc[t] = "step"
                              /\ pc[t] \in {"invalidate", "disconnect"} =>
                                    pc'[t] \in {"invalidate", "disconnect"},
           \A x \in Blocks : Failed(x)' => Failed(x) \/
              /\ x \notin Ancestors[tip]
              /\ \A t \in Threads : pc[t] = "step" => x \notin Ancestors[mostWork[t]]
    PROVE  Unmarked'
<1> SUFFICES ASSUME NoTrace PROVE Unmarked'
  BY DEF Unmarked
<1>1. tip \in Blocks /\ Ancestors[tip'] \subseteq Ancestors[tip] /\ Ancestors[tip] \subseteq Blocks
  BY AncestorsTransitive, AncestorsClosed DEF IInv, TypeOK
<1>2. ASSUME NEW a \in Ancestors[tip'], Failed(a)'
      PROVE  \E t \in Threads : /\ pc'[t] \in {"invalidate", "disconnect"}
                                /\ mostWork'[t] \in Ancestors[a]
  <2>1. Failed(a) /\ a \in Ancestors[tip]
    BY <1>1, <1>2
  <2> QED BY <2>1 DEF Unmarked
<1>3. ASSUME NEW t \in Threads, pc'[t] = "step", NEW a \in Ancestors[mostWork'[t]]
      PROVE  ~Failed(a)'
  <2>1. pc[t] = "step" /\ mostWork[t] \in candidates /\ a \in Ancestors[mostWork[t]]
    BY <1>3 DEF IInv, Holding
  <2>2. a \in Blocks /\ ~Failed(a)
    BY <2>1, AncestorsClosed DEF IInv, TypeOK, Unmarked
  <2> QED BY <1>3, <2>1, <2>2
<1> QED BY <1>2, <1>3 DEF Unmarked

(* AcceptBlock marks at most the block that is refused.                      *)
LEMMA UnmarkedProcess ==
    ASSUME IInv, Unmarked, NEW t \in Threads, NEW b \in Blocks, ProcessNewBlock(t, b)
    PROVE  Unmarked'
<1>1. /\ status \in [Blocks -> SUBSET Flags] /\ tip \in Blocks
      /\ tip \in Ancestors[tip]
  BY AncestorsClosed DEF IInv, TypeOK
<1>2. /\ Running /\ pc[t] = "idle" /\ lock = None /\ UNCHANGED <<mostWork, tip>>
      /\ NoTrace' => NoTrace
      /\ pc' = pc \/ pc' = [pc EXCEPT ![t] = "loop"]
  BY DEF ProcessNewBlock, ProcessDuplicate, ProcessContextualFailure, ProcessStakeSpent,
         ProcessStored, Calls, Goto, index, threads, bounds, NoTrace
<1>3. ASSUME NEW x \in Blocks, Failed(x)', ~Failed(x)
      PROVE  x \notin Ancestors[tip]
  <2>1. x = b /\ ~HasData(b)
    <3>1. CASE ProcessDuplicate(t, b)
      BY <1>3, <3>1 DEF ProcessDuplicate, index, Failed
    <3>2. CASE ProcessContextualFailure(t, b)
      BY <1>1, <1>3, <3>2 DEF ProcessContextualFailure, MarkInvalid, Add, Failed, FailedMask
    <3>3. CASE ProcessStakeSpent(t, b)
      BY <1>1, <1>3, <3>3 DEF ProcessStakeSpent, Add, Failed, FailedMask
    <3>4. CASE ProcessStored(t, b)
      BY <1>1, <1>3, <3>4 DEF ProcessStored, Add, Failed, FailedMask
    <3> QED BY <3>1, <3>2, <3>3, <3>4 DEF ProcessNewBlock
  <2> QED BY <2>1 DEF IInv, ActiveChain, Core, HasData
<1>4. \A u \in Threads : /\ pc[u] # "step"
                         /\ pc'[u] = "step" => pc[u] = "step"
                         /\ pc[u] \in {"invalidate", "disconnect"} =>
                               pc'[u] \in {"invalidate", "disconnect"}
  BY <1>2 DEF IInv, TypeOK, Holding
<1> QED BY <1>1, <1>2, <1>3, <1>4, UnmarkedKept

(* The failure marks FindMostWorkChain adds are above a marked block that is   *)
(* not active: neither on the active chain nor on the chain it chooses.      *)
LEMMA UnmarkedActivate ==
    ASSUME IInv, Unmarked, NEW t \in Threads, ActivateBestChain(t)
    PROVE  Unmarked'
<1> SUFFICES ASSUME NoTrace PROVE Unmarked'
  BY DEF ActivateBestChain, bounds, Unmarked, NoTrace
<1>1. PICK most \in MostWork :
        /\ FindMostWorkChain(most)
        /\ IF most \in {None, tip}
           THEN Goto(t, "idle") /\ UNCHANGED <<lock, mostWork, oldTip>>
           ELSE /\ Goto(t, "step")
                /\ mostWork' = [mostWork EXCEPT ![t] = most]
  BY DEF ActivateBestChain
<1>2. /\ lock = None /\ pc[t] = "loop" /\ UNCHANGED tip
      /\ status \in [Blocks -> SUBSET Flags] /\ tip \in Blocks /\ candidates \in SUBSET Blocks
      /\ pc \in [Threads -> PC] /\ mostWork \in [Threads -> Blocks \cup {None}]
  BY DEF ActivateBestChain, bounds, IInv, TypeOK
<1>3. \A a \in Ancestors[tip] : ~Failed(a)
  BY <1>2, UnmarkedAtRest
<1> DEFINE above == UNION {AboveFailed(c) : c \in Passed(most)}
<1>4. \A x \in Blocks : Failed(x)' => Failed(x) \/ x \in above
  <2>1. status' = Add(status, above, "failed_child")
    BY <1>1 DEF FindMostWorkChain
  <2> HIDE DEF above
  <2> QED BY <1>2, <2>1 DEF Add, Failed
<1>5. ASSUME NEW y \in above
      PROVE  /\ y \notin Ancestors[tip]
             /\ \E x \in Ancestors[y] : x \notin Ancestors[tip] /\ Failed(x)
  BY <1>2, PassedOver
<1> HIDE DEF above
<1>6. \A a \in Ancestors[tip'] : ~Failed(a)'
  BY <1>2, <1>3, <1>4, <1>5, AncestorsClosed
<1>7. ASSUME NEW u \in Threads, pc'[u] = "step", NEW a \in Ancestors[mostWork'[u]]
      PROVE  ~Failed(a)'
  <2>1. most \notin {None, tip} /\ u = t /\ mostWork'[u] = most
    BY <1>1, <1>2, <1>7 DEF Goto, IInv, Holding
  <2>2. most \in Blocks /\ Usable(most)
    BY <1>1, <1>2, <2>1, ChoiceStays DEF FindMostWorkChain
  <2>3. \A x \in Ancestors[most] : ~Failed(x)
    BY <1>3, <2>2 DEF Usable, Path
  <2>4. a \in Blocks /\ Ancestors[a] \subseteq Ancestors[most]
    BY <1>7, <2>1, <2>2, AncestorsTransitive
  <2>5. a \notin above
    BY <1>5, <2>3, <2>4
  <2> QED BY <1>4, <1>7, <2>1, <2>3, <2>4, <2>5
<1> QED BY <1>6, <1>7 DEF Unmarked

(* A block is connected only on the way to the chosen one ...                *)
LEMMA UnmarkedConnect ==
    ASSUME IInv, Unmarked, NEW t \in Threads, NEW b \in Blocks, StepConnect(t, b)
    PROVE  Unmarked'
<1> SUFFICES ASSUME NoTrace PROVE Unmarked'
  BY DEF StepConnect, Unmarked, NoTrace
<1>1. /\ pc[t] = "step" /\ b \in Ancestors[mostWork[t]] /\ tip' = b
      /\ status' = Add(status, {b}, "scripts") /\ mostWork' = mostWork
      /\ pc' = pc \/ pc' = [pc EXCEPT ![t] = "test"]
  BY DEF StepConnect, Connecting, InStep, Release, Goto
<1>2. /\ mostWork[t] \in Blocks /\ status \in [Blocks -> SUBSET Flags]
      /\ pc \in [Threads -> PC]
  BY <1>1, NamesAssumption DEF IInv, TypeOK, Holding
<1>3. \A x \in Blocks : Failed(x)' => Failed(x)
  BY <1>1, <1>2 DEF Add, Failed, FailedMask
<1>4. \A a \in Ancestors[mostWork[t]] : ~Failed(a) /\ a \in Blocks
  BY <1>1, <1>2, AncestorsClosed DEF Unmarked
<1>5. Ancestors[b] \subseteq Ancestors[mostWork[t]]
  BY <1>1, <1>2, AncestorsTransitive
<1>6. \A a \in Ancestors[tip'] : ~Failed(a)'
  BY <1>1, <1>3, <1>4, <1>5
<1>7. \A u \in Threads : pc'[u] = "step" => u = t
  BY <1>1, <1>2, Alone
<1> QED BY <1>1, <1>3, <1>4, <1>6, <1>7 DEF Unmarked

(* ... and one that is found invalid is not connected, and ends the step.    *)
LEMMA UnmarkedConnectFails ==
    ASSUME IInv, Unmarked, NEW t \in Threads, NEW b \in Blocks, StepConnectFails(t, b)
    PROVE  Unmarked'
<1> SUFFICES ASSUME NoTrace PROVE Unmarked'
  BY DEF StepConnectFails, bounds, Unmarked, NoTrace
<1>1. /\ pc[t] = "step" /\ b \in Blocks \ {Genesis} /\ Prev[b] = tip
      /\ status' = Add(status, {b}, "failed_valid") /\ UNCHANGED <<tip, mostWork>>
      /\ pc' = [pc EXCEPT ![t] = "test"]
  BY DEF StepConnectFails, Connecting, InStep, Release, Goto, MarkInvalid
<1>2. /\ status \in [Blocks -> SUBSET Flags] /\ pc \in [Threads -> PC] /\ tip \in Blocks
  BY DEF IInv, TypeOK
<1>3. b \notin Ancestors[tip]
  BY <1>1, AncestorsStep
<1>4. \A x \in Blocks \ {b} : Failed(x)' => Failed(x)
  BY <1>1, <1>2 DEF Add, Failed
<1>5. \A u \in Threads : pc[u] \notin {"invalidate", "disconnect"} /\ pc'[u] # "step"
  BY <1>1, <1>2, Alone
<1>6. \A a \in Ancestors[tip'] : ~Failed(a)'
  BY <1>1, <1>2, <1>3, <1>4, <1>5, AncestorsClosed DEF Unmarked
<1> QED BY <1>5, <1>6 DEF Unmarked

(* InvalidateBlock marks the active chain from the block it is given upwards,  *)
(* and leaves its loop when the tip is below that block.                     *)
LEMMA UnmarkedInvalidate ==
    ASSUME IInv, Unmarked, NEW t \in Threads,
           \/ \E b \in Blocks : InvalidateBlock(t, b)
           \/ InvalidateMark(t) \/ InvalidateTip(t) \/ InvalidateEnd(t)
    PROVE  Unmarked'
<1> SUFFICES ASSUME NoTrace PROVE Unmarked'
  BY DEF InvalidateBlock, Intervenes, InvalidateMark, InvalidateTip, InvalidateEnd, bounds,
         Unmarked, NoTrace, IInv, TypeOK
<1>1. /\ status \in [Blocks -> SUBSET Flags] /\ pc \in [Threads -> PC] /\ tip \in Blocks
      /\ mostWork \in [Threads -> Blocks \cup {None}] /\ tip \in Ancestors[tip]
  BY AncestorsClosed DEF IInv, TypeOK
<1>2. ASSUME NEW b \in Blocks, InvalidateBlock(t, b) PROVE Unmarked'
  <2>1. /\ lock = None /\ pc' = [pc EXCEPT ![t] = "invalidate"] /\ tip' = tip
        /\ mostWork' = [mostWork EXCEPT ![t] = b]
        /\ status' = Add(status, {b}, "failed_valid")
    BY <1>2 DEF InvalidateBlock, Intervenes, Calls, MarkInvalid, Goto
  <2>2. \A a \in Ancestors[tip] : ~Failed(a)
    BY <2>1, UnmarkedAtRest
  <2>3. ASSUME NEW a \in Ancestors[tip'], Failed(a)' PROVE a = b
    <3>1. a \in Blocks /\ ~Failed(a)
      BY <1>1, <2>1, <2>2, AncestorsClosed
    <3> QED BY <1>1, <2>1, <2>3, <3>1 DEF Add, Failed
  <2>4. pc'[t] = "invalidate" /\ mostWork'[t] = b /\ b \in Ancestors[b]
    BY <1>1, <2>1, AncestorsClosed
  <2>5. \A u \in Threads : pc'[u] # "step"
    BY <1>1, <2>1 DEF IInv, Holding
  <2> QED BY <2>3, <2>4, <2>5 DEF Unmarked
<1>3. CASE InvalidateMark(t)
  <2>1. /\ pc[t] = "invalidate" /\ mostWork[t] \in Ancestors[tip]
        /\ status' = Add(status, {tip}, "failed_child") /\ UNCHANGED <<tip, mostWork>>
        /\ pc' = [pc EXCEPT ![t] = "disconnect"]
    BY <1>3 DEF InvalidateMark, Goto
  <2>2. ASSUME NEW a \in Ancestors[tip'], Failed(a)' PROVE a = tip \/ Failed(a)
    <3>1. a \in Blocks
      BY <1>1, <2>1, AncestorsClosed
    <3> QED BY <1>1, <2>1, <2>2, <3>1 DEF Add, Failed
  <2>3. \A u \in Threads : /\ pc'[u] # "step"
                           /\ pc[u] \in {"invalidate", "disconnect"} => u = t
    BY <1>1, <2>1, Alone
  <2> QED BY <1>1, <2>1, <2>2, <2>3 DEF Unmarked
<1>4. CASE InvalidateTip(t)
  <2>1. /\ pc[t] = "disconnect" /\ tip # Genesis /\ tip' = Prev[tip]
        /\ UNCHANGED <<status, mostWork>> /\ pc' = [pc EXCEPT ![t] = "invalidate"]
    BY <1>4 DEF InvalidateTip, DisconnectTip, Goto
  <2>2. \A u \in Threads : /\ pc'[u] = "step" => pc[u] = "step"
                           /\ pc[u] \in {"invalidate", "disconnect"} =>
                                 pc'[u] \in {"invalidate", "disconnect"}
    BY <1>1, <2>1
  <2>3. NoTrace' => NoTrace
    OBVIOUS
  <2> QED BY <1>1, <2>1, <2>2, <2>3, AncestorsStep, UnmarkedKept DEF Failed
<1>5. CASE InvalidateEnd(t)
  <2>1. /\ pc[t] = "invalidate" /\ mostWork[t] \notin Ancestors[tip]
        /\ UNCHANGED <<status, tip, mostWork>> /\ pc' = [pc EXCEPT ![t] = "loop"]
    BY <1>5 DEF InvalidateEnd, Release, Goto
  <2>2. ASSUME NEW a \in Ancestors[tip] PROVE ~Failed(a)
    <3>1. Ancestors[a] \subseteq Ancestors[tip]
      BY <1>1, AncestorsTransitive
    <3>2. \A u \in Threads : pc[u] \in {"invalidate", "disconnect"} => u = t
      BY <2>1, Alone
    <3> QED BY <2>1, <3>1, <3>2 DEF Unmarked
  <2>3. \A u \in Threads : pc'[u] # "step"
    BY <1>1, <2>1, Alone
  <2> QED BY <2>1, <2>2, <2>3 DEF Unmarked, Failed
<1> QED BY <1>2, <1>3, <1>4, <1>5

(* Reconsidering and replaying mark nothing.                                 *)
LEMMA UnmarkedOther ==
    ASSUME IInv, Unmarked, NEW t \in Threads,
           \/ \E b \in Blocks : ReconsiderBlock(t, b)
           \/ ReprocessBlocks(t) \/ StepDisconnect(t) \/ Test(t) \/ Done(t) \/ ReplayStep(t)
    PROVE  Unmarked'
<1>1. /\ status \in [Blocks -> SUBSET Flags] /\ pc \in [Threads -> PC] /\ tip \in Blocks
      /\ tip \in Ancestors[tip]
  BY AncestorsClosed DEF IInv, TypeOK
<1>2. /\ UNCHANGED mostWork /\ (NoTrace' => NoTrace)
      /\ tip' = tip \/ (tip # Genesis /\ tip' = Prev[tip])
      /\ pc[t] \notin {"invalidate", "disconnect"}
      /\ \/ pc' = pc
         \/ \E l \in {"idle", "loop", "done", "replay"} : pc' = [pc EXCEPT ![t] = l]
  <2>1. CASE (\E b \in Blocks : ReconsiderBlock(t, b)) \/ ReprocessBlocks(t)
    <3>1. manual \in Nat /\ manual' = manual + 1 /\ crashes' = crashes
      BY <2>1 DEF ReconsiderBlock, ReprocessBlocks, Intervenes, IInv, TypeOK
    <3>2. NoTrace' => NoTrace
      BY <3>1 DEF NoTrace
    <3> QED BY <2>1, <3>2 DEF ReconsiderBlock, ReprocessBlocks, Intervenes, Calls, Goto
  <2>2. CASE StepDisconnect(t) \/ ReplayStep(t)
    BY <2>2 DEF StepDisconnect, InStep, ReplayStep, DisconnectTip, Release, Goto, threads, bounds,
                NoTrace
  <2>3. CASE Test(t) \/ Done(t)
    BY <2>3 DEF Test, Done, Goto, index, bounds, NoTrace
  <2> QED BY <2>1, <2>2, <2>3
<1>3. \A x \in Blocks : Failed(x)' => Failed(x)
  <2>1. ASSUME NEW R, Reconsider(R), NEW x \in Blocks, Failed(x)' PROVE Failed(x)
    <3>1. PICK S : status' = Strip(status, S)
      BY <2>1 DEF Reconsider
    <3> QED BY <1>1, <2>1, <3>1 DEF Strip, Failed
  <2>2. CASE (\E b \in Blocks : ReconsiderBlock(t, b)) \/ ReprocessBlocks(t)
    BY <2>1, <2>2 DEF ReconsiderBlock, ReprocessBlocks
  <2>3. CASE StepDisconnect(t) \/ ReplayStep(t) \/ Test(t) \/ Done(t)
    BY <2>3 DEF StepDisconnect, ReplayStep, DisconnectTip, Test, Done, index, Failed
  <2> QED BY <2>2, <2>3
<1>4. \A u \in Threads : /\ pc'[u] = "step" => pc[u] = "step"
                         /\ pc[u] \in {"invalidate", "disconnect"} =>
                               pc'[u] \in {"invalidate", "disconnect"}
  BY <1>1, <1>2
<1>5. tip' \in Ancestors[tip]
  BY <1>1, <1>2, AncestorsStep
<1> QED BY <1>2, <1>3, <1>4, <1>5, UnmarkedKept

(* What a restart finds marked was marked before.                            *)
LEMMA UnmarkedLoad ==
    ASSUME IInv, MInv, NEW d \in [Blocks -> SUBSET Flags], NEW best \in Ancestors[tip],
           \A b \in Blocks : d[b] = status[b] \/ d[b] = disk[b],
           LoadBlockIndex(d, best), manual = 0
    PROVE  /\ \A a \in Ancestors[best] : d[a] \cap FailedMask = {}
           /\ Unmarked'
<1>1. /\ tip \in Blocks /\ best \in Blocks /\ Ancestors[best] \subseteq Ancestors[tip]
      /\ Ancestors[tip] \subseteq Blocks
  BY AncestorsClosed, AncestorsTransitive DEF IInv, TypeOK
<1>2. \A a \in Ancestors[tip] : ~Failed(a)
  BY DEF MInv, Unmarked, Intact, NoTrace
<1>3. \A a \in Ancestors[best] : d[a] \cap FailedMask = {}
  BY <1>1, <1>2 DEF MInv, Intact, Failed
<1>4. status' = d /\ tip' = best /\ \A t \in Threads : pc'[t] # "step"
  BY DEF LoadBlockIndex
<1> QED BY <1>3, <1>4 DEF Unmarked, Failed

(* A crash or a shutdown, and the restart.                                   *)
LEMMA StopIsLoad ==
    ASSUME IInv, MInv, (\E S \in SUBSET dirty : Crash(S)) \/ Shutdown
    PROVE  /\ Running /\ crashes' = crashes + 1 /\ manual' = manual
           /\ \E d \in [Blocks -> SUBSET Flags], best \in Ancestors[tip] :
                 /\ \A b \in Blocks : d[b] = status[b] \/ d[b] = disk[b]
                 /\ \A a \in Ancestors[best] : Core \subseteq d[a]
                 /\ LoadBlockIndex(d, best)
<1>1. Running /\ crashes' = crashes + 1 /\ manual' = manual
  BY DEF Crash, Shutdown, Stops
<1>2. /\ status \in [Blocks -> SUBSET Flags] /\ disk \in [Blocks -> SUBSET Flags]
      /\ tip \in Ancestors[tip] /\ diskBest \in Ancestors[tip]
      /\ tip \in Blocks /\ diskBest \in Blocks
  BY AncestorsClosed DEF IInv, TypeOK, MInv, Behind
<1>3. ASSUME NEW S
      PROVE  /\ Written(S, status) \in [Blocks -> SUBSET Flags]
             /\ \A b \in Blocks : Written(S, status)[b] = IF b \in S THEN status[b] ELSE disk[b]
  BY <1>2 DEF Written
<1>4. CASE \E S \in SUBSET dirty : Crash(S)
  <2>1. PICK S \in SUBSET dirty : Crash(S)
    BY <1>4
  <2>2. LoadBlockIndex(Written(S, status), diskBest)
    BY <2>1 DEF Crash
  <2>3. ASSUME NEW a \in Ancestors[diskBest] PROVE Core \subseteq Written(S, status)[a]
    <3>1. a \in Blocks /\ Core \subseteq disk[a] /\ disk[a] \cap Core \subseteq status[a]
      BY <1>2, AncestorsClosed DEF IInv, Storage
    <3> QED BY <1>3, <3>1
  <2> QED BY <1>1, <1>2, <1>3, <2>2, <2>3
<1>5. CASE Shutdown
  <2>1. LoadBlockIndex(Written(dirty, status), tip)
    BY <1>5 DEF Shutdown
  <2>2. \A a \in Ancestors[tip] : Core \subseteq Written(dirty, status)[a]
    BY <1>2, <1>3, AncestorsClosed DEF IInv, Storage, ActiveChain
  <2> QED BY <1>1, <1>2, <1>3, <2>1, <2>2
<1> QED BY <1>4, <1>5

(* Every step keeps the marks where they may be.                             *)
LEMMA UnmarkedNext == IInv /\ MInv /\ [Next]_vars => Unmarked'
<1> SUFFICES ASSUME IInv, MInv, [Next]_vars PROVE Unmarked'
  OBVIOUS
<1>0. Unmarked
  BY DEF MInv
<1>1. ASSUME NEW t \in Threads, Continue(t) PROVE Unmarked'
  BY <1>0, <1>1, UnmarkedActivate, UnmarkedConnect, UnmarkedConnectFails, UnmarkedInvalidate,
     UnmarkedOther DEF Continue, ActivateBestChainStep
<1>2. ASSUME NEW t \in Threads, NEW b \in Blocks,
             InvalidateBlock(t, b) \/ ReconsiderBlock(t, b)
      PROVE  Unmarked'
  BY <1>0, <1>2, UnmarkedInvalidate, UnmarkedOther
<1>3. CASE (\E S \in SUBSET dirty : Crash(S)) \/ Shutdown
  <2>1. crashes \in Nat /\ crashes' = crashes + 1 /\ manual' = manual
    BY <1>3, StopIsLoad DEF IInv, TypeOK
  <2>2. CASE manual = 0
    BY <1>3, <2>2, StopIsLoad, UnmarkedLoad
  <2> QED BY <2>1, <2>2 DEF Unmarked, NoTrace
<1>4. CASE UNCHANGED vars
  BY <1>0, <1>4 DEF vars, index, threads, bounds, Unmarked, Failed, NoTrace
<1> QED BY <1>0, <1>1, <1>2, <1>3, <1>4, UnmarkedProcess, UnmarkedOther DEF Next

(* The coins on disk move only to the tip.                                   *)
LEMMA BehindNext == IInv /\ MInv /\ [Next]_vars => Behind'
<1> SUFFICES ASSUME IInv, MInv, [Next]_vars PROVE Behind'
  OBVIOUS
<1>1. tip \in Blocks /\ tip \in Ancestors[tip] /\ diskBest \in Ancestors[tip]
  BY AncestorsClosed DEF IInv, TypeOK, MInv, Behind
<1>2. CASE UNCHANGED <<tip, diskBest>>
  BY <1>1, <1>2 DEF Behind
<1>3. ASSUME NEW st, NEW d, DisconnectTip(st, d) PROVE Behind'
  BY <1>1, <1>3, AncestorsStep, AncestorsClosed DEF DisconnectTip, Flush, Behind
<1>4. ASSUME NEW t \in Threads, NEW b \in Blocks, StepConnect(t, b) PROVE Behind'
  <2>1. /\ b # Genesis /\ tip = Prev[b] /\ tip' = b /\ diskBest' \in {b, diskBest}
    BY <1>4 DEF StepConnect, Connecting, MayFlush, Flush, stored
  <2> QED BY <1>1, <2>1, AncestorsStep, AncestorsClosed DEF Behind
<1>5. ASSUME NEW t \in Threads, Done(t) PROVE Behind'
  BY <1>1, <1>5 DEF Done, MayFlush, Flush, stored, Behind
<1>6. CASE (\E S \in SUBSET dirty : Crash(S)) \/ Shutdown
  <2>1. tip' = diskBest' /\ tip' \in Ancestors[tip]
    BY <1>6, StopIsLoad DEF LoadBlockIndex
  <2> QED BY <1>1, <2>1, AncestorsTransitive, AncestorsClosed DEF Behind
<1>7. ASSUME NEW t \in Threads, NEW b \in Blocks,
             ProcessNewBlock(t, b) \/ InvalidateBlock(t, b) \/ ReconsiderBlock(t, b)
      PROVE  Behind'
  BY <1>2, <1>7 DEF ProcessNewBlock, ProcessDuplicate, ProcessContextualFailure, ProcessStakeSpent,
                    ProcessStored, InvalidateBlock, ReconsiderBlock, index, stored
<1>8. ASSUME NEW t \in Threads, ReprocessBlocks(t) PROVE Behind'
  BY <1>2, <1>8 DEF ReprocessBlocks, stored
<1>9. ASSUME NEW t \in Threads, Continue(t) PROVE Behind'
  <2>1. CASE StepDisconnect(t) \/ InvalidateTip(t) \/ ReplayStep(t)
    BY <1>3, <2>1 DEF StepDisconnect, InvalidateTip, ReplayStep
  <2>2. CASE ActivateBestChain(t) \/ Test(t) \/ InvalidateMark(t) \/ InvalidateEnd(t)
             \/ \E b \in Blocks : StepConnectFails(t, b)
    BY <1>2, <2>2 DEF ActivateBestChain, Test, InvalidateMark, InvalidateEnd, StepConnectFails,
                      index, stored
  <2> QED BY <1>4, <1>5, <1>9, <2>1, <2>2 DEF Continue, ActivateBestChainStep
<1>10. CASE UNCHANGED vars
  BY <1>2, <1>10 DEF vars, index, stored
<1> QED BY <1>6, <1>7, <1>8, <1>9, <1>10 DEF Next

(* Marks on disk stay among those in memory when marks are only added.       *)
LEMMA MarksKept ==
    ASSUME MInv, manual = 0, \A b \in Blocks : status[b] \subseteq status'[b],
           \A b \in Blocks : disk'[b] = disk[b] \/ disk'[b] = status'[b]
    PROVE  \A b \in Blocks : disk'[b] \cap FailedMask \subseteq status'[b]
BY DEF MInv, Intact

(* A flush writes what the memory holds.                                     *)
LEMMA FlushWrites ==
    ASSUME NEW st, NEW d, NEW best, MayFlush(st, d, best)
    PROVE  \A b \in Blocks : disk'[b] = disk[b] \/ disk'[b] = st[b]
BY DEF MayFlush, Flush, Written, stored

(* Until the first intervention marks are only added, and never taken from    *)
(* disk.                                                                     *)
LEMMA IntactNext == IInv /\ MInv /\ [Next]_vars => Intact'
<1> SUFFICES ASSUME IInv, MInv, [Next]_vars, manual' = 0 PROVE Intact'
  BY DEF Intact
<1>1. /\ status \in [Blocks -> SUBSET Flags] /\ disk \in [Blocks -> SUBSET Flags]
      /\ pc \in [Threads -> PC] /\ manual \in Nat
  BY DEF IInv, TypeOK
<1>2. \A S, flag : \A b \in Blocks : status[b] \subseteq Add(status, S, flag)[b]
  BY <1>1 DEF Add
<1>3. ASSUME NEW t \in Threads, NEW b \in Blocks, ProcessNewBlock(t, b) PROVE Intact'
  <2>1. /\ UNCHANGED <<manual, disk>>
        /\ pc' = pc \/ pc' = [pc EXCEPT ![t] = "loop"]
    BY <1>3 DEF ProcessNewBlock, ProcessDuplicate, ProcessContextualFailure, ProcessStakeSpent,
                ProcessStored, Goto, threads, stored, bounds
  <2>2. \A x \in Blocks : status[x] \subseteq status'[x]
    <3>1. \A S, R, f, g : \A x \in Blocks : status[x] \subseteq Add(Add(status, S, f), R, g)[x]
      BY <1>1 DEF Add
    <3> QED BY <1>2, <1>3, <3>1 DEF ProcessNewBlock, ProcessDuplicate, ProcessContextualFailure,
               ProcessStakeSpent, ProcessStored, MarkInvalid, index
  <2> QED BY <1>1, <2>1, <2>2, MarksKept DEF MInv, Intact
<1>4. ASSUME NEW t \in Threads,
             \/ \E b \in Blocks : InvalidateBlock(t, b) \/ ReconsiderBlock(t, b)
             \/ ReprocessBlocks(t)
      PROVE  FALSE
  <2>1. manual' = manual + 1
    BY <1>4 DEF InvalidateBlock, ReconsiderBlock, ReprocessBlocks, Intervenes
  <2> QED BY <1>1, <2>1
<1>5. ASSUME NEW t \in Threads, Continue(t) PROVE Intact'
  <2>1. manual' = manual /\ manual = 0
    BY <1>5 DEF Continue, ActivateBestChain, ActivateBestChainStep, StepDisconnect, StepConnect,
                StepConnectFails, Test, Done, InvalidateMark, InvalidateTip, InvalidateEnd,
                ReplayStep, bounds
  <2>2. ~InvalidateMark(t) /\ ~InvalidateTip(t) /\ ~InvalidateEnd(t) /\ ~ReplayStep(t)
    BY <2>1 DEF MInv, Intact, InvalidateMark, InvalidateTip, InvalidateEnd, ReplayStep
  <2>3. \/ pc' = pc
        \/ \E l \in {"idle", "loop", "step", "test", "done"} : pc' = [pc EXCEPT ![t] = l]
    BY <1>5, <2>2 DEF Continue, ActivateBestChain, ActivateBestChainStep, StepDisconnect,
                      StepConnect, StepConnectFails, Test, Done, Release, Goto, threads
  <2>4. /\ \A x \in Blocks : status[x] \subseteq status'[x]
        /\ \A x \in Blocks : disk'[x] = disk[x] \/ disk'[x] = status'[x]
    <3>1. CASE ActivateBestChain(t)
      BY <1>2, <3>1 DEF ActivateBestChain, FindMostWorkChain, stored
    <3>2. CASE StepDisconnect(t)
      BY <3>2, FlushWrites DEF StepDisconnect, DisconnectTip, MayFlush
    <3>3. ASSUME NEW b \in Blocks, StepConnect(t, b)
          PROVE  /\ \A x \in Blocks : status[x] \subseteq status'[x]
                 /\ \A x \in Blocks : disk'[x] = disk[x] \/ disk'[x] = status'[x]
      BY <1>2, <3>3, FlushWrites DEF StepConnect
    <3>4. ASSUME NEW b \in Blocks, StepConnectFails(t, b)
          PROVE  /\ \A x \in Blocks : status[x] \subseteq status'[x]
                 /\ \A x \in Blocks : disk'[x] = disk[x] \/ disk'[x] = status'[x]
      BY <1>2, <3>4 DEF StepConnectFails, MarkInvalid, stored
    <3>5. CASE Test(t)
      BY <3>5 DEF Test, index, stored
    <3>6. CASE Done(t)
      BY <3>6, FlushWrites DEF Done
    <3> QED BY <1>5, <2>2, <3>1, <3>2, <3>3, <3>4, <3>5, <3>6 DEF Continue, ActivateBestChainStep
  <2> QED BY <1>1, <2>1, <2>3, <2>4, MarksKept DEF MInv, Intact
<1>6. CASE (\E S \in SUBSET dirty : Crash(S)) \/ Shutdown
  <2>1. PICK d \in [Blocks -> SUBSET Flags], best \in Ancestors[tip] : LoadBlockIndex(d, best)
    BY <1>6, StopIsLoad
  <2>2. /\ disk' = d /\ status' = d
        /\ \E i \in Threads : pc' = [t \in Threads |-> IF t = i THEN "loop" ELSE "idle"]
    BY <2>1 DEF LoadBlockIndex
  <2> QED BY <2>2 DEF Intact
<1>7. CASE UNCHANGED vars
  BY <1>7 DEF vars, index, threads, stored, bounds, MInv, Intact
<1> QED BY <1>3, <1>4, <1>5, <1>6, <1>7 DEF Next

(* The genesis block is not marked.                                          *)
LEMMA MarksInit == Init => MInv
BY AncestorsGenesis DEF Init, MInv, Unmarked, Behind, Intact, Failed, FailedMask

(* Every step keeps the invariant of the marks.                              *)
LEMMA MarksNext == IInv /\ MInv /\ [Next]_vars => MInv'
BY UnmarkedNext, BehindNext, IntactNext DEF MInv

-----------------------------------------------------------------------------
(* The assertion of PruneBlockIndexCandidates.                             *)

(* At a startup it fails only if the stored tip is marked.                   *)
LEMMA LoadAsserts ==
    ASSUME IInv, MInv, NEW d \in [Blocks -> SUBSET Flags], NEW best \in Ancestors[tip],
           \A b \in Blocks : d[b] = status[b] \/ d[b] = disk[b],
           \A a \in Ancestors[best] : Core \subseteq d[a],
           LoadBlockIndex(d, best), node' = "assert"
    PROVE  disk'[diskBest'] \cap FailedMask # {} /\ manual # 0
<1> DEFINE zero == [b \in Blocks |-> 0]
           chained == {b \in Blocks : \A a \in Ancestors[b] : "data" \in d[a]}
<1>1. /\ candidates' = PruneCandidates({b \in chained : IsValidTransactions(b, d)}, best, zero, lowFirst')
      /\ candidates' = {} /\ disk' = d /\ diskBest' = best
  BY DEF LoadBlockIndex
<1>2. best \in Blocks /\ best \in Ancestors[best]
  BY AncestorsClosed DEF IInv, TypeOK
<1>3. best \in chained /\ "data" \in d[best]
  BY <1>2 DEF Core
<1>4. ~WorseBy(best, best, zero, lowFirst')
  <2>1. Work[best] \in Nat /\ best \in Nat /\ zero[best] = 0
    BY <1>2
  <2> QED BY <2>1 DEF WorseBy
<1>5. d[best] \cap FailedMask # {}
  <2> HIDE DEF zero, chained
  <2> QED BY <1>1, <1>3, <1>4 DEF PruneCandidates, IsValidTransactions
<1>6. manual # 0
  BY <1>2, <1>5, UnmarkedLoad
<1> QED BY <1>1, <1>5, <1>6

(* Every step keeps it: a connection leaves the block that is worked towards. *)
LEMMA PruneNext == IInv /\ MInv /\ PruneLeavesOne /\ [Next]_vars => PruneLeavesOne'
<1> SUFFICES ASSUME IInv, MInv, PruneLeavesOne, [Next]_vars, node' = "assert"
             PROVE  PruneLeavesOne'
  BY DEF PruneLeavesOne
<1>1. CASE UNCHANGED vars
  BY <1>1 DEF vars, stored, bounds, PruneLeavesOne
<1>2. ASSUME NEW t \in Threads, NEW b \in Blocks, StepConnect(t, b) PROVE FALSE
  <2>1. /\ pc[t] = "step" /\ b \in Ancestors[mostWork[t]]
        /\ node' = IF PruneCandidates(candidates, b, seq, lowFirst) = {} THEN "assert" ELSE "up"
    BY <1>2 DEF StepConnect, Connecting, InStep
  <2>2. mostWork[t] \in candidates /\ candidates \in SUBSET Blocks /\ seq \in [Blocks -> Nat]
    BY <2>1 DEF IInv, Holding, TypeOK
  <2> QED BY <2>1, <2>2, ConnectKeeps
<1>3. CASE (\E S \in SUBSET dirty : Crash(S)) \/ Shutdown
  <2>1. crashes' > 0 /\ manual' = manual /\ manual \in Nat
    BY <1>3, StopIsLoad DEF IInv, TypeOK
  <2>2. disk'[diskBest'] \cap FailedMask # {} /\ manual # 0
    BY <1>3, StopIsLoad, LoadAsserts
  <2> QED BY <2>1, <2>2 DEF PruneLeavesOne
<1>4. ASSUME NEW t \in Threads, Continue(t) PROVE \E b \in Blocks : StepConnect(t, b)
  BY <1>4 DEF Running, Continue, ActivateBestChain, ActivateBestChainStep, StepDisconnect, InStep,
              Connecting, StepConnectFails, Test, Done, InvalidateMark, InvalidateTip,
              InvalidateEnd, ReplayStep, bounds
<1>5. ASSUME NEW t \in Threads,
             \/ \E b \in Blocks : ProcessNewBlock(t, b) \/ InvalidateBlock(t, b) \/ ReconsiderBlock(t, b)
             \/ ReprocessBlocks(t)
      PROVE  FALSE
  BY <1>5 DEF Running, ProcessNewBlock, ProcessDuplicate, ProcessContextualFailure, ProcessStakeSpent,
              ProcessStored, InvalidateBlock, ReconsiderBlock, ReprocessBlocks, Intervenes, Calls,
              bounds
<1> QED BY <1>1, <1>2, <1>3, <1>4, <1>5 DEF Next

-----------------------------------------------------------------------------
(* The invariant holds for every header tree, whatever the threads do and     *)
(* wherever the process stops.                                               *)
THEOREM Invariance == Spec => []IInv
<1> QED BY InitOk, NextOk, PTL DEF Spec

(* Types.                                                                    *)
THEOREM TypeCorrect == Spec => []TypeOK
<1>1. IInv => TypeOK
  BY DEF IInv
<1> QED BY <1>1, Invariance, PTL

(* The order of writes in FlushStateToDisk is enough: at every instant, also  *)
(* between two writes, the databases hold the whole chain of the coins.      *)
THEOREM StoredChain == Spec => []StoredChainComplete
<1>1. IInv => StoredChainComplete
  BY DEF IInv, Storage, StoredChainComplete, Core
<1> QED BY <1>1, Invariance, PTL

(* Whatever the order in which data arrives, a block has nChainTx exactly     *)
(* when it and all its ancestors have data ...                               *)
THEOREM LinkageIsExact == Spec => []LinkedExact
<1>1. IInv => LinkedExact
  BY DEF IInv, Linkage, LinkedExact
<1> QED BY <1>1, Invariance, PTL

(* ... and otherwise waits in mapBlocksUnlinked.                             *)
THEOREM WaitingIsExact == Spec => []UnlinkedExact
<1>1. IInv => UnlinkedExact
  BY DEF IInv, Linkage, UnlinkedExact
<1> QED BY <1>1, Invariance, PTL

(* A candidate is never worse than the tip and never lacks data.             *)
THEOREM CandidatesNotStale == Spec => []NoStaleCandidate
<1>1. IInv => NoStaleCandidate
  BY DEF IInv, Candidacy, NoStaleCandidate, Worse
<1> QED BY <1>1, Invariance, PTL

(* The active chain has its data and has been checked, and, unless the node    *)
(* both crashed and was interfered with, carries no failure mark when cs_main *)
(* is free: whichever threads invalidate, reconsider, replay and activate in  *)
(* between, or wherever a flush is cut, for every header tree.               *)
THEOREM ActiveChainIsSound == Spec => []ActiveChainSound
<1>1. IInv /\ MInv => ActiveChainSound
  BY UnmarkedAtRest DEF IInv, MInv, NoTrace, ActiveChain, ActiveChainSound, Core
<1> QED BY <1>1, InitOk, MarksInit, NextOk, MarksNext, PTL DEF Spec

(* PruneBlockIndexCandidates always leaves a candidate, whatever blocks fail,  *)
(* also those a failed reorganisation returns to, and wherever a flush is cut: *)
(* its assertion fails only at the startup after a crash inside              *)
(* InvalidateBlock, on a stored tip that carries a mark.                     *)
THEOREM PruneKeepsOne == Spec => []PruneLeavesOne
<1>1. Init => PruneLeavesOne
  BY DEF Init, PruneLeavesOne
<1> QED BY <1>1, InitOk, MarksInit, NextOk, MarksNext, PruneNext, PTL DEF Spec

-----------------------------------------------------------------------------
(***************************************************************************)
(* "Make the best chain active": for every header tree, whatever blocks    *)
(* fail and whenever they fail, in whatever order blocks arrive, however   *)
(* the threads inside ActivateBestChain overtake each other between two    *)
(* holds of cs_main and wherever the process stops and starts again, the   *)
(* best chain that no step found invalid is the active one when the last   *)
(* of them has returned, unless a better one was active before and could   *)
(* not be returned to.  As long as no operator intervenes (BestChainActive *)
(* fails after reconsiderblock).                                           *)
(***************************************************************************)

\* What is missing from the candidates is worse than a chain that was active.
Covered ==
    \A b \in linked : Unfailed(b) =>
        b \in candidates \/ \E d \in linked : "scripts" \in status[d] /\ Worse(b, d)

\* No candidate that may be connected beats m.
Choice(m) == \A c \in candidates : Unfailed(c) => ~Worse(m, c)

Chosen == \A t \in Threads : pc[t] = "step" => Choice(mostWork[t])

\* As long as a better candidate exists, some thread will look for it.
Pending ==
    \/ Choice(tip)
    \/ \E t \in Threads : \/ pc[t] \in {"loop", "step"}
                          \/ pc[t] = "test" /\ mostWork[t] # tip

BInv == manual = 0 => Covered /\ Chosen /\ Pending

-----------------------------------------------------------------------------
(* The order of the candidates.                                            *)

(* CBlockIndexWorkComparator is a strict total order.                        *)
LEMMA Order ==
    ASSUME NEW ids \in [Blocks -> Nat], NEW low \in BOOLEAN,
           NEW a \in Blocks, NEW b \in Blocks, NEW c \in Blocks
    PROVE  /\ ~WorseBy(a, a, ids, low)
           /\ a = b \/ WorseBy(a, b, ids, low) \/ WorseBy(b, a, ids, low)
           /\ WorseBy(a, b, ids, low) => ~WorseBy(b, a, ids, low)
           /\ WorseBy(a, b, ids, low) /\ WorseBy(b, c, ids, low) => WorseBy(a, c, ids, low)
<1>1. /\ a \in Nat /\ b \in Nat /\ c \in Nat
      /\ Work[a] \in Nat /\ Work[b] \in Nat /\ Work[c] \in Nat
      /\ ids[a] \in Nat /\ ids[b] \in Nat /\ ids[c] \in Nat
  BY TreeAssumption, WorkAssumption
<1>2. ~WorseBy(a, a, ids, low)
  BY <1>1 DEF WorseBy
<1>3. a = b \/ WorseBy(a, b, ids, low) \/ WorseBy(b, a, ids, low)
  BY <1>1 DEF WorseBy
<1>4. WorseBy(a, b, ids, low) => ~WorseBy(b, a, ids, low)
  BY <1>1 DEF WorseBy
<1>5. WorseBy(a, b, ids, low) /\ WorseBy(b, c, ids, low) => WorseBy(a, c, ids, low)
  BY <1>1 DEF WorseBy
<1> QED BY <1>2, <1>3, <1>4, <1>5

(* A set of blocks that is not empty has one that none of them beats.        *)
LEMMA Maximum ==
    ASSUME seq \in [Blocks -> Nat], lowFirst \in BOOLEAN, NEW X \in SUBSET Blocks, X # {}
    PROVE  \E m \in X : \A x \in X : ~Worse(m, x)
<1> DEFINE Above(x) == {y \in X : Worse(x, y)}
           T == {Above(x) : x \in X}
<1>1. T # {} /\ T \subseteq FiniteSubsetsOf(Blocks)
  <2>1. \A x \in X : Above(x) \in SUBSET Blocks /\ IsFiniteSet(Above(x))
    BY TreeAssumption, FS_Subset
  <2>2. \A x \in X : Above(x) \in FiniteSubsetsOf(Blocks)
    BY <2>1 DEF FiniteSubsetsOf
  <2> HIDE DEF Above
  <2> QED BY <2>2
<1>2. IsWellFoundedOn(StrictSubsetOrdering(Blocks), FiniteSubsetsOf(Blocks))
  BY FS_StrictSubsetOrderingWellFounded
<1>3. PICK A \in T : \A B \in T : ~(<<B, A>> \in StrictSubsetOrdering(Blocks))
  <2> HIDE DEF T
  <2> QED BY <1>1, <1>2, WFMin
<1>4. PICK m \in X : A = Above(m)
  OBVIOUS
<1>5. ASSUME NEW x \in X, Worse(m, x) PROVE FALSE
  <2>1. Above(x) \subseteq A /\ x \in A /\ x \notin Above(x)
    <3>1. ~Worse(x, x) /\ \A y \in Blocks : Worse(x, y) => Worse(m, y)
      BY <1>5, Order DEF Worse
    <3>2. x \in Above(m) /\ x \notin Above(x)
      BY <1>5, <3>1
    <3>3. Above(x) \subseteq Above(m)
      BY <1>5, <3>1
    <3> QED BY <1>4, <3>2, <3>3
  <2>2. Above(x) \in T /\ Above(x) \in SUBSET Blocks /\ A \in SUBSET Blocks
    BY <1>4
  <2>3. <<Above(x), A>> \in StrictSubsetOrdering(Blocks)
    <3> HIDE DEF Above
    <3> QED BY <2>1, <2>2 DEF StrictSubsetOrdering
  <2> QED BY <1>3, <2>2, <2>3
<1> QED BY <1>5

-----------------------------------------------------------------------------
(* Each step keeps the invariant.                                          *)

(* Blocks are marked, and candidates dropped that are marked or worse than a   *)
(* chain that was active.                                                    *)
LEMMA StaysCovered ==
    ASSUME IInv, Covered, UNCHANGED <<linked, seq, lowFirst>>,
           \A b \in Blocks : status[b] \subseteq status'[b],
           candidates' \subseteq candidates,
           \A c \in candidates : c \in candidates' \/ ~Unfailed(c)' \/
              \E d \in linked : "scripts" \in status'[d] /\ Worse(c, d)
    PROVE  Covered' /\ \A m : Choice(m) => Choice(m)'
<1>1. linked \in SUBSET Blocks /\ candidates \in SUBSET Blocks
  BY DEF IInv, TypeOK
<1>2. \A x \in Blocks : Unfailed(x)' => Unfailed(x)
  BY AncestorsClosed DEF Unfailed, Failed
<1>3. \A x, y : Worse(x, y)' <=> Worse(x, y)
  BY DEF Worse
<1>4. ASSUME NEW b \in linked, Unfailed(b)'
      PROVE  b \in candidates' \/ \E d \in linked : "scripts" \in status'[d] /\ Worse(b, d)
  <2>1. Unfailed(b)
    BY <1>1, <1>2, <1>4
  <2>2. CASE b \in candidates
    BY <1>4, <2>2
  <2>3. CASE \E d \in linked : "scripts" \in status[d] /\ Worse(b, d)
    BY <1>1, <2>3
  <2> QED BY <2>1, <2>2, <2>3 DEF Covered
<1> QED BY <1>1, <1>2, <1>3, <1>4 DEF Covered, Choice

(* ReceivedBlockTransactions: every block it links that is as good as the     *)
(* tip becomes a candidate.                                                  *)
LEMMA BestStored ==
    ASSUME IInv, BInv, manual = 0, NEW t \in Threads, NEW b \in Blocks, ProcessStored(t, b)
    PROVE  BInv'
<1>1. /\ b # Genesis /\ ~HasData(b)
      /\ lock = None /\ ReceivedBlockTransactions(b)
      /\ status' = Add(Add(status, {b}, "tree"), {b}, "data")
      /\ pc' = [pc EXCEPT ![t] = "loop"]
      /\ UNCHANGED <<lowFirst, tip, mostWork>>
  BY DEF ProcessStored, Calls, AcceptBlockHeader, Goto
<1>2. /\ status \in [Blocks -> SUBSET Flags] /\ seq \in [Blocks -> Nat] /\ tip \in Blocks
      /\ pc \in [Threads -> PC] /\ candidates \in SUBSET Blocks /\ linked \in SUBSET Blocks
      /\ lowFirst \in BOOLEAN
  BY DEF IInv, TypeOK
<1>3. \A x \in Blocks :
        /\ Unfailed(x)' <=> Unfailed(x)
        /\ "scripts" \in status'[x] <=> "scripts" \in status[x]
  <2>1. \A x \in Blocks : /\ "scripts" \in status'[x] <=> "scripts" \in status[x]
                          /\ Failed(x)' <=> Failed(x)
    BY <1>1, <1>2 DEF Add, Failed, FailedMask
  <2> QED BY <2>1, AncestorsClosed DEF Unfailed
<1>4. tip \in linked /\ "scripts" \in status[tip]
  BY <1>2, TipLinked, AncestorsClosed DEF IInv, ActiveChain, Core
<1>5. Covered'
  <2>1. CASE Prev[b] \in linked
    <3> DEFINE L == Unblocked(b)
    <3>1. PICK f \in SeqOrders(L) :
            /\ seq' = [x \in Blocks |-> IF x \in L THEN f[x] ELSE seq[x]]
            /\ candidates' = candidates \cup PruneCandidates(L, tip, seq', lowFirst)
            /\ linked' = linked \cup L
      BY <1>1, <2>1 DEF ReceivedBlockTransactions
    <3>2. L \subseteq Blocks /\ L \cap linked = {}
      <4>1. ASSUME NEW x \in L, x \in linked PROVE FALSE
        <5>1. b \in Ancestors[x]
          BY DEF Unblocked, Descendants
        <5>2. HasData(b)
          BY <4>1, <5>1 DEF IInv, Linkage
        <5> QED BY <1>1, <5>2
      <4> QED BY <4>1 DEF Unblocked, Descendants
    <3> HIDE DEF L
    <3>3. \A x, y \in linked : Worse(x, y)' <=> Worse(x, y)
      <4>1. \A x \in linked : seq'[x] = seq[x]
        BY <1>2, <3>1, <3>2
      <4> QED BY <1>1, <4>1 DEF WorseBy, Worse
    <3>4. ASSUME NEW x \in linked', Unfailed(x)'
          PROVE  x \in candidates' \/ \E d \in linked' : "scripts" \in status'[d] /\ Worse(x, d)'
      <4>1. CASE x \in linked
        <5>1. x \in candidates \/ \E d \in linked : "scripts" \in status[d] /\ Worse(x, d)
          BY <1>2, <1>3, <3>4, <4>1 DEF BInv, Covered
        <5> QED BY <1>2, <1>3, <3>1, <3>3, <4>1, <5>1
      <4>2. CASE x \in L
        <5>1. x \in candidates' \/ WorseBy(x, tip, seq', lowFirst)
          BY <3>1, <4>2 DEF PruneCandidates
        <5> QED BY <1>1, <1>2, <1>3, <1>4, <3>1, <5>1 DEF Worse
      <4> QED BY <3>1, <3>4, <4>1, <4>2
    <3> QED BY <3>4 DEF Covered
  <2>2. CASE Prev[b] \notin linked
    <3>1. UNCHANGED <<linked, seq, candidates, lowFirst>>
      BY <1>1, <2>2 DEF ReceivedBlockTransactions
    <3> QED BY <1>2, <1>3, <3>1 DEF BInv, Covered, Worse
  <2> QED BY <2>1, <2>2
<1>6. \A u \in Threads : pc[u] # "step"
  BY <1>1, NamesAssumption DEF IInv, Holding
<1>7. Chosen' /\ Pending'
  BY <1>1, <1>2, <1>6 DEF Chosen, Pending
<1> QED BY <1>5, <1>7 DEF BInv

(* A header that is refused, with a mark or without.                         *)
LEMMA BestRefused ==
    ASSUME IInv, BInv, manual = 0, NEW t \in Threads, NEW b \in Blocks,
           ProcessContextualFailure(t, b) \/ ProcessStakeSpent(t, b)
    PROVE  BInv'
<1>1. UNCHANGED <<linked, seq, lowFirst, candidates, tip, pc, mostWork>>
  BY DEF ProcessContextualFailure, ProcessStakeSpent, threads
<1>2. \A x \in Blocks : status[x] \subseteq status'[x]
  <2>1. CASE ProcessContextualFailure(t, b)
    BY <2>1 DEF IInv, TypeOK, ProcessContextualFailure, MarkInvalid, Add
  <2>2. CASE ProcessStakeSpent(t, b)
    BY <2>2 DEF IInv, TypeOK, ProcessStakeSpent, Add
  <2> QED BY <2>1, <2>2
<1>3. Covered' /\ \A m : Choice(m) => Choice(m)'
  BY <1>1, <1>2, StaysCovered DEF BInv
<1> QED BY <1>1, <1>3 DEF BInv, Chosen, Pending

(* The thread finds nothing better than the tip and returns, or sets out for  *)
(* the best candidate that may be connected.                                 *)
LEMMA BestActivate ==
    ASSUME IInv, BInv, manual = 0, NEW t \in Threads, ActivateBestChain(t)
    PROVE  BInv'
<1>1. PICK most \in MostWork :
        /\ FindMostWorkChain(most)
        /\ IF most \in {None, tip}
           THEN pc' = [pc EXCEPT ![t] = "idle"] /\ UNCHANGED mostWork
           ELSE /\ pc' = [pc EXCEPT ![t] = "step"]
                /\ mostWork' = [mostWork EXCEPT ![t] = most]
  BY DEF ActivateBestChain, Goto
<1>2. /\ status \in [Blocks -> SUBSET Flags] /\ candidates \in SUBSET Blocks
      /\ seq \in [Blocks -> Nat] /\ lowFirst \in BOOLEAN
      /\ pc \in [Threads -> PC] /\ mostWork \in [Threads -> Blocks \cup {None}]
      /\ UNCHANGED <<linked, seq, lowFirst, tip>>
      /\ lock = None
  BY DEF IInv, TypeOK, ActivateBestChain
<1> DEFINE above == UNION {AboveFailed(c) : c \in Passed(most)}
           first == UNION {FirstFailed(c) : c \in Passed(most)}
<1>3. status' = Add(status, above, "failed_child") /\ candidates' = candidates \ (above \cup first)
  BY <1>1 DEF FindMostWorkChain
<1>4. ASSUME NEW y, y \in above \/ y \in first PROVE y \in Blocks /\ ~Unfailed(y)
  BY <1>2, <1>4, PassedOver DEF Unfailed
<1> HIDE DEF above, first
<1>5. \A x \in Blocks : status[x] \subseteq status'[x]
  BY <1>2, <1>3 DEF Add
<1>6. \A x \in Blocks : Unfailed(x)' => Unfailed(x)
  BY <1>5, AncestorsClosed DEF Unfailed, Failed
<1>7. Covered' /\ \A m : Choice(m) => Choice(m)'
  BY <1>2, <1>3, <1>4, <1>5, <1>6, StaysCovered DEF BInv
<1>8. \A c \in candidates : Unfailed(c) => most # None /\ (c = most \/ Worse(c, most))
  BY <1>1, <1>2, ChoiceStays, AncestorsClosed DEF Unfailed, Usable, Path
<1>9. IF most = None THEN \A m : Choice(m) ELSE Choice(most)
  <2>1. CASE most = None
    BY <1>8, <2>1 DEF Choice
  <2>2. CASE most # None
    <3>1. most \in Blocks
      BY <1>1, <1>2, <2>2, ChoiceStays, PassedOver DEF FindMostWorkChain
    <3>2. \A c \in candidates : Unfailed(c) => ~Worse(most, c)
      BY <1>2, <1>8, <3>1, Order DEF Worse
    <3> QED BY <2>2, <3>2 DEF Choice
  <2> QED BY <2>1, <2>2
<1>10. \A u \in Threads : pc[u] # "step"
  BY <1>2, NamesAssumption DEF IInv, Holding
<1>11. CASE most \in {None, tip}
  <2>1. Choice(tip)'
    BY <1>2, <1>7, <1>9, <1>11
  <2>2. \A u \in Threads : pc'[u] # "step"
    BY <1>1, <1>2, <1>10, <1>11
  <2> QED BY <1>7, <2>1, <2>2 DEF BInv, Chosen, Pending
<1>12. CASE most \notin {None, tip}
  <2>1. Choice(most)'
    BY <1>7, <1>9, <1>12
  <2>2. /\ pc'[t] = "step" /\ mostWork'[t] = most
        /\ \A u \in Threads \ {t} : pc'[u] # "step"
    BY <1>1, <1>2, <1>10, <1>12
  <2> QED BY <1>7, <2>1, <2>2 DEF BInv, Chosen, Pending
<1> QED BY <1>11, <1>12

(* A block is connected: what is dropped is worse than it.                   *)
LEMMA BestConnect ==
    ASSUME IInv, BInv, manual = 0, NEW t \in Threads, NEW b \in Blocks, StepConnect(t, b)
    PROVE  BInv'
<1>1. /\ pc[t] = "step" /\ b \in Ancestors[mostWork[t]] \ {Genesis}
      /\ tip' = b /\ status' = Add(status, {b}, "scripts")
      /\ candidates' = PruneCandidates(candidates, b, seq, lowFirst)
      /\ pc' = [pc EXCEPT ![t] = "test"] \/ pc' = pc
      /\ UNCHANGED <<linked, seq, lowFirst, mostWork>>
  BY DEF StepConnect, Connecting, InStep, Release, Goto
<1>2. /\ status \in [Blocks -> SUBSET Flags] /\ candidates \in SUBSET Blocks
      /\ linked \in SUBSET Blocks /\ pc \in [Threads -> PC]
      /\ Covered /\ Chosen
  BY DEF IInv, TypeOK, BInv
<1>3. b \in linked
  <2>1. mostWork[t] \in linked /\ mostWork[t] \in Blocks
    BY <1>1, <1>2 DEF IInv, Holding, Candidacy
  <2>2. b \in Blocks /\ Ancestors[b] \subseteq Ancestors[mostWork[t]]
    BY <1>1, <2>1, AncestorsTransitive
  <2> QED BY <2>1, <2>2 DEF IInv, Linkage
<1>4. "scripts" \in status'[b] /\ \A x \in Blocks : status[x] \subseteq status'[x]
  BY <1>1, <1>2, <1>3 DEF Add
<1>5. /\ candidates' \subseteq candidates
      /\ \A c \in candidates : c \in candidates' \/ Worse(c, b)
  BY <1>1 DEF PruneCandidates, Worse
<1>6. Covered' /\ \A m : Choice(m) => Choice(m)'
  BY <1>1, <1>2, <1>3, <1>4, <1>5, StaysCovered
<1>7. Chosen'
  BY <1>1, <1>2, <1>6 DEF Chosen
<1>8. Pending'
  <2>1. CASE b = mostWork[t]
    BY <1>1, <1>2, <1>6, <2>1 DEF Chosen, Pending
  <2>2. CASE b # mostWork[t]
    BY <1>1, <1>2, <2>2 DEF Pending
  <2> QED BY <2>1, <2>2
<1> QED BY <1>6, <1>7, <1>8 DEF BInv

(* A block is found invalid, perhaps one that was active before: it is marked, *)
(* and the thread tries again.                                               *)
LEMMA BestConnectFails ==
    ASSUME IInv, BInv, manual = 0, NEW t \in Threads, NEW b \in Blocks, StepConnectFails(t, b)
    PROVE  BInv'
<1>1. /\ pc[t] = "step" /\ tip # mostWork[t]
      /\ status' = Add(status, {b}, "failed_valid") /\ candidates' = candidates \ {b}
      /\ pc' = [pc EXCEPT ![t] = "test"]
      /\ UNCHANGED <<linked, seq, lowFirst, tip, mostWork>>
  BY DEF StepConnectFails, Connecting, InStep, Release, Goto, MarkInvalid
<1>2. status \in [Blocks -> SUBSET Flags] /\ pc \in [Threads -> PC]
  BY DEF IInv, TypeOK
<1>3. ~Unfailed(b)' /\ \A x \in Blocks : status[x] \subseteq status'[x]
  BY <1>1, <1>2, AncestorsClosed DEF Add, Unfailed, Failed, FailedMask
<1>4. Covered'
  BY <1>1, <1>3, StaysCovered DEF BInv
<1>5. \A u \in Threads : pc'[u] # "step"
  BY <1>1, <1>2, Alone
<1> QED BY <1>1, <1>2, <1>4, <1>5 DEF BInv, Chosen, Pending

(* The other steps of a thread change the tip and where the thread is.        *)
LEMMA BestOther ==
    ASSUME IInv, BInv, manual = 0, NEW t \in Threads,
           \/ \E b \in Blocks : ProcessDuplicate(t, b)
           \/ StepDisconnect(t) \/ Test(t) \/ Done(t)
    PROVE  BInv'
<1>1. UNCHANGED <<status, linked, seq, lowFirst, candidates, mostWork>>
  BY DEF ProcessDuplicate, StepDisconnect, DisconnectTip, Test, Done, index, threads
<1>2. Covered' /\ \A m : Choice(m) => Choice(m)'
  BY <1>1, StaysCovered DEF BInv
<1>3. Chosen /\ Pending /\ pc \in [Threads -> PC]
  BY DEF BInv, IInv, TypeOK
<1>4. CASE StepDisconnect(t)
  <2>1. pc[t] = "step" /\ pc' = pc
    BY <1>4 DEF StepDisconnect, InStep, threads
  <2> QED BY <1>1, <1>2, <1>3, <2>1 DEF BInv, Chosen, Pending
<1>5. CASE (\E b \in Blocks : ProcessDuplicate(t, b)) \/ Test(t) \/ Done(t)
  <2>1. /\ tip' = tip
        /\ \/ pc' = [pc EXCEPT ![t] = "loop"]
           \/ pc[t] = "test" /\ mostWork[t] = tip /\ pc' = [pc EXCEPT ![t] = "done"]
           \/ pc[t] = "done" /\ pc' = [pc EXCEPT ![t] = "idle"]
    BY <1>5 DEF ProcessDuplicate, Test, Done, Goto, index
  <2> QED BY <1>1, <1>2, <1>3, <2>1 DEF BInv, Chosen, Pending
<1> QED BY <1>4, <1>5

(* A restart makes candidates of all that are no worse than the stored tip.   *)
LEMMA BestStop ==
    ASSUME IInv, MInv, manual = 0, (\E S \in SUBSET dirty : Crash(S)) \/ Shutdown
    PROVE  BInv'
<1>1. PICK d \in [Blocks -> SUBSET Flags], best \in Ancestors[tip] :
        /\ \A a \in Ancestors[best] : Core \subseteq d[a]
        /\ LoadBlockIndex(d, best)
  BY StopIsLoad
<1> DEFINE zero == [b \in Blocks |-> 0]
           chained == {b \in Blocks : \A a \in Ancestors[b] : "data" \in d[a]}
<1>2. /\ status' = d /\ linked' = chained /\ seq' = zero /\ tip' = best
      /\ candidates' = PruneCandidates({b \in chained : IsValidTransactions(b, d)},
                                       best, zero, lowFirst')
      /\ \E i \in Threads : pc' = [t \in Threads |-> IF t = i THEN "loop" ELSE "idle"]
  BY <1>1 DEF LoadBlockIndex
<1>3. best \in chained /\ "scripts" \in d[best]
  <2>1. best \in Blocks /\ best \in Ancestors[best]
    BY AncestorsClosed, AncestorsTransitive DEF IInv, TypeOK
  <2> QED BY <1>1, <2>1 DEF Core
<1>4. ASSUME NEW b \in chained, Unfailed(b)'
      PROVE  b \in candidates' \/ WorseBy(b, best, zero, lowFirst')
  <2>1. b \in Blocks /\ b \in Ancestors[b] /\ "data" \in d[b]
    BY AncestorsClosed
  <2>2. IsValidTransactions(b, d)
    BY <1>2, <1>4, <2>1 DEF Unfailed, Failed, IsValidTransactions
  <2> HIDE DEF chained, zero
  <2> QED BY <1>2, <2>2 DEF PruneCandidates
<1>5. Covered'
  <2> HIDE DEF chained, zero
  <2> QED BY <1>2, <1>3, <1>4 DEF Covered, Worse
<1>6. Chosen' /\ Pending'
  BY <1>2 DEF Chosen, Pending
<1> QED BY <1>5, <1>6 DEF BInv

(* Every step keeps the invariant, until the first intervention.             *)
LEMMA BestNext == IInv /\ MInv /\ BInv /\ [Next]_vars => BInv'
<1> SUFFICES ASSUME IInv, MInv, BInv, [Next]_vars, manual' = 0 PROVE BInv'
  BY DEF BInv
<1>1. manual \in Nat
  BY DEF IInv, TypeOK
<1>2. ASSUME NEW t \in Threads, NEW b \in Blocks, ProcessNewBlock(t, b) PROVE BInv'
  <2>1. manual = 0
    BY <1>2 DEF ProcessNewBlock, ProcessDuplicate, ProcessContextualFailure,
                ProcessStakeSpent, ProcessStored, bounds
  <2> QED BY <1>2, <2>1, BestOther, BestRefused, BestStored DEF ProcessNewBlock
<1>3. ASSUME NEW t \in Threads,
             \/ \E b \in Blocks : InvalidateBlock(t, b) \/ ReconsiderBlock(t, b)
             \/ ReprocessBlocks(t)
      PROVE  FALSE
  <2>1. manual' = manual + 1
    BY <1>3 DEF InvalidateBlock, ReconsiderBlock, ReprocessBlocks, Intervenes
  <2> QED BY <1>1, <2>1
<1>4. ASSUME NEW t \in Threads, Continue(t) PROVE BInv'
  <2>1. manual = 0
    BY <1>4 DEF Continue, ActivateBestChain, ActivateBestChainStep, StepDisconnect, StepConnect,
                StepConnectFails, Test, Done, InvalidateMark, InvalidateTip, InvalidateEnd,
                ReplayStep, bounds
  <2>2. ~InvalidateMark(t) /\ ~InvalidateTip(t) /\ ~InvalidateEnd(t) /\ ~ReplayStep(t)
    BY <2>1 DEF MInv, Intact, InvalidateMark, InvalidateTip, InvalidateEnd, ReplayStep
  <2> QED BY <1>4, <2>1, <2>2, BestActivate, BestConnect, BestConnectFails, BestOther
          DEF Continue, ActivateBestChainStep
<1>5. CASE (\E S \in SUBSET dirty : Crash(S)) \/ Shutdown
  <2>1. manual = 0
    BY <1>5, StopIsLoad
  <2> QED BY <1>5, <2>1, BestStop
<1>6. CASE UNCHANGED vars
  <2>1. UNCHANGED <<status, linked, seq, lowFirst, candidates, tip, pc, mostWork, manual>>
    BY <1>6 DEF vars, index, threads, bounds
  <2>2. Covered' /\ \A m : Choice(m) => Choice(m)'
    BY <2>1, StaysCovered DEF BInv
  <2> QED BY <2>1, <2>2 DEF BInv, Chosen, Pending
<1> QED BY <1>2, <1>3, <1>4, <1>5, <1>6 DEF Next

(* The node starts on the genesis block.                                     *)
LEMMA BestInit == Init => BInv
<1> SUFFICES ASSUME Init PROVE BInv
  OBVIOUS
<1>1. seq \in [Blocks -> Nat] /\ lowFirst \in BOOLEAN
  BY DEF Init
<1>2. ~Worse(Genesis, Genesis)
  BY <1>1, TreeAssumption, Order DEF Worse
<1> QED BY <1>2 DEF Init, BInv, Covered, Choice, Chosen, Pending

-----------------------------------------------------------------------------
(* What follows when every thread has returned.                            *)

(* A block that no step found invalid is worse than a lost chain, or no better *)
(* than a candidate that may be connected.                                   *)
LEMMA LostAbove ==
    ASSUME IInv, Covered, NEW b \in linked, Unfailed(b)
    PROVE  \/ \E d \in Blocks : Lost(d) /\ Worse(b, d)
           \/ \E m \in candidates : Unfailed(m) /\ (m = b \/ Worse(b, m))
<1>1. linked \in SUBSET Blocks /\ seq \in [Blocks -> Nat] /\ lowFirst \in BOOLEAN
  BY DEF IInv, TypeOK
<1> DEFINE X == {b} \cup {x \in linked : "scripts" \in status[x] /\ Worse(b, x)}
<1>2. X \in SUBSET Blocks /\ X # {}
  BY <1>1
<1>3. PICK m \in X : \A x \in X : ~Worse(m, x)
  <2> HIDE DEF X
  <2> QED BY <1>1, <1>2, Maximum
<1>4. m \in linked /\ (m = b \/ Worse(b, m))
  OBVIOUS
<1>5. CASE Unfailed(m)
  <2>1. ASSUME NEW d \in linked, "scripts" \in status[d], Worse(m, d) PROVE FALSE
    <3>1. Worse(b, d)
      BY <1>1, <1>4, <2>1, Order DEF Worse
    <3> QED BY <1>3, <2>1, <3>1
  <2> QED BY <1>4, <1>5, <2>1 DEF Covered
<1>6. CASE ~Unfailed(m)
  <2>1. m # b /\ "scripts" \in status[m] /\ Worse(b, m)
    BY <1>6
  <2> QED BY <1>1, <1>4, <1>6, <2>1 DEF Lost
<1> QED BY <1>5, <1>6

(* When every thread has returned, a chain that beats the tip has a block      *)
(* found invalid or is worse than a lost one, for every header tree, after any *)
(* crash and restart and however blocks fail.                                *)
THEOREM BestChainWins == Spec => [](manual = 0 => BestChainActive)
<1>1. IInv /\ BInv => (manual = 0 => BestChainActive)
  <2> SUFFICES ASSUME IInv, BInv, manual = 0, AtRest,
                      NEW b \in linked, Unfailed(b), Worse(tip, b)
               PROVE  \E d \in Blocks : Lost(d) /\ Worse(b, d)
    BY DEF BestChainActive
  <2>1. /\ seq \in [Blocks -> Nat] /\ lowFirst \in BOOLEAN /\ tip \in Blocks
        /\ linked \in SUBSET Blocks /\ candidates \in SUBSET Blocks
        /\ Covered /\ Choice(tip)
    BY DEF IInv, TypeOK, BInv, Pending, AtRest
  <2>2. ASSUME NEW m \in candidates, Unfailed(m), m = b \/ Worse(b, m) PROVE FALSE
    <3>1. Worse(tip, m)
      BY <2>1, <2>2, Order DEF Worse
    <3> QED BY <2>1, <2>2, <3>1 DEF Choice
  <2> QED BY <2>1, <2>2, LostAbove
<1> QED BY <1>1, InitOk, MarksInit, BestInit, NextOk, MarksNext, BestNext, PTL DEF Spec

(* Then the candidates that the next block competes with are complete, but for *)
(* blocks worse than a lost chain.                                           *)
THEOREM CandidatesReady == Spec => [](manual = 0 => CandidatesAtRest)
<1>1. IInv /\ BInv => (manual = 0 => CandidatesAtRest)
  <2> SUFFICES ASSUME IInv, BInv, manual = 0, AtRest,
                      NEW b \in linked, Unfailed(b), ~Worse(b, tip)
               PROVE  b \in candidates \/ \E d \in Blocks : Lost(d) /\ Worse(b, d)
    BY DEF CandidatesAtRest, CandidatesComplete
  <2>1. /\ seq \in [Blocks -> Nat] /\ lowFirst \in BOOLEAN /\ tip \in Blocks
        /\ linked \in SUBSET Blocks /\ candidates \in SUBSET Blocks
        /\ Covered /\ Choice(tip)
    BY DEF IInv, TypeOK, BInv, Pending, AtRest
  <2>2. ASSUME NEW m \in candidates, Unfailed(m), m = b \/ Worse(b, m) PROVE m = b
    <3>1. ~Worse(tip, m) /\ ~Worse(m, tip)
      BY <2>2, <2>1 DEF Choice, IInv, Candidacy, Worse
    <3>2. m = tip
      BY <2>1, <3>1, Order DEF Worse
    <3> QED BY <2>2, <3>2
  <2> QED BY <2>1, <2>2, LostAbove
<1> QED BY <1>1, InitOk, MarksInit, BestInit, NextOk, MarksNext, BestNext, PTL DEF Spec

-----------------------------------------------------------------------------
(* Causes of failure marks, until an operator intervenes or a crash stores    *)
(* one mark without the other.                                               *)

Undisturbed == manual = 0 /\ crashes = 0

Caused(b) == \E a \in Ancestors[b] : "failed_valid" \in status[a]

Causes == Undisturbed => \A b \in Blocks : Failed(b) => Caused(b)

(* A mark is set on a block found invalid or above a marked one.             *)
LEMMA CausesKept ==
    ASSUME Causes, Undisturbed, \A b \in Blocks : status[b] \subseteq status'[b],
           \A b \in Blocks : Failed(b)' =>
               \/ Failed(b) \/ "failed_valid" \in status'[b]
               \/ \E x \in Ancestors[b] : x \in Blocks /\ Failed(x)
    PROVE  Causes'
<1> SUFFICES ASSUME NEW b \in Blocks, Failed(b)' PROVE Caused(b)'
  BY DEF Causes
<1>1. CASE "failed_valid" \in status'[b]
  BY <1>1, AncestorsClosed DEF Caused
<1>2. CASE \E x \in Ancestors[b] : x \in Blocks /\ Failed(x)
  <2>1. PICK x \in Ancestors[b] : x \in Blocks /\ Failed(x)
    BY <1>2
  <2>2. PICK a \in Ancestors[x] : "failed_valid" \in status[a]
    BY <2>1 DEF Causes, Caused
  <2>3. a \in Ancestors[b] /\ a \in Blocks
    BY <2>1, <2>2, AncestorsTransitive
  <2> QED BY <2>2, <2>3 DEF Caused
<1> QED BY <1>1, <1>2, AncestorsClosed

(* Every step gives its marks a cause.                                       *)
LEMMA CausesNext == IInv /\ MInv /\ Causes /\ [Next]_vars => Causes'
<1> SUFFICES ASSUME IInv, MInv, Causes, [Next]_vars, Undisturbed' PROVE Causes'
  BY DEF Causes
<1>1. /\ status \in [Blocks -> SUBSET Flags] /\ candidates \in SUBSET Blocks
      /\ manual \in Nat /\ crashes \in Nat
  BY DEF IInv, TypeOK
<1>2. CASE status' = status /\ UNCHANGED <<manual, crashes>>
  BY <1>2, CausesKept DEF Undisturbed, Failed
<1>3. ASSUME NEW b \in Blocks, NEW st, st = status \/ st = Add(status, {b}, "tree"),
             status' = MarkInvalid(b, st) /\ UNCHANGED <<manual, crashes>>
      PROVE  Causes'
  <2>1. \A x \in Blocks : /\ status[x] \subseteq status'[x]
                          /\ Failed(x)' => Failed(x) \/ "failed_valid" \in status'[x]
    BY <1>1, <1>3 DEF MarkInvalid, Add, Failed, FailedMask
  <2> QED BY <1>3, <2>1, CausesKept DEF Undisturbed
<1>4. ASSUME NEW b \in Blocks, NEW st, NEW flag, st = status \/ st = Add(status, {b}, "tree"),
             flag \in {"tree", "data", "scripts"},
             status' = Add(st, {b}, flag) /\ UNCHANGED <<manual, crashes>>
      PROVE  Causes'
  <2>1. \A x \in Blocks : /\ status[x] \subseteq status'[x]
                          /\ Failed(x)' => Failed(x)
    BY <1>1, <1>4 DEF Add, Failed, FailedMask
  <2> QED BY <1>4, <2>1, CausesKept DEF Undisturbed
<1>5. ASSUME NEW t \in Threads, NEW b \in Blocks, ProcessNewBlock(t, b) PROVE Causes'
  <2>1. CASE ProcessDuplicate(t, b)
    BY <1>2, <2>1 DEF ProcessDuplicate, index, bounds
  <2>2. CASE ProcessContextualFailure(t, b)
    BY <1>3, <2>2 DEF ProcessContextualFailure, bounds
  <2>3. CASE ProcessStakeSpent(t, b)
    BY <1>4, <2>3 DEF ProcessStakeSpent, bounds
  <2>4. CASE ProcessStored(t, b)
    BY <1>4, <2>4 DEF ProcessStored, bounds
  <2> QED BY <1>5, <2>1, <2>2, <2>3, <2>4 DEF ProcessNewBlock
<1>6. ASSUME NEW t \in Threads, ActivateBestChain(t) PROVE Causes'
  <2>1. PICK most : FindMostWorkChain(most)
    BY <1>6 DEF ActivateBestChain
  <2> DEFINE above == UNION {AboveFailed(c) : c \in Passed(most)}
  <2>2. status' = Add(status, above, "failed_child") /\ UNCHANGED <<manual, crashes>>
    BY <1>6, <2>1 DEF FindMostWorkChain, ActivateBestChain, bounds
  <2>3. ASSUME NEW y \in above PROVE \E x \in Ancestors[y] : x \in Blocks /\ Failed(x)
    BY <1>1, <2>3, PassedOver
  <2> HIDE DEF above
  <2>4. \A x \in Blocks : /\ status[x] \subseteq status'[x]
                          /\ Failed(x)' => Failed(x) \/ x \in above
    BY <1>1, <2>2 DEF Add, Failed, FailedMask
  <2> QED BY <2>2, <2>3, <2>4, CausesKept DEF Undisturbed
<1>7. ASSUME NEW t \in Threads, NEW b \in Blocks, StepConnect(t, b) \/ StepConnectFails(t, b)
      PROVE  Causes'
  BY <1>3, <1>4, <1>7 DEF StepConnect, StepConnectFails, bounds
<1>8. ASSUME NEW t \in Threads, Continue(t), ~ActivateBestChain(t),
             \A b \in Blocks : ~StepConnect(t, b) /\ ~StepConnectFails(t, b)
      PROVE  Causes'
  <2>1. manual = 0
    BY <1>8 DEF Undisturbed, Continue, ActivateBestChainStep, StepDisconnect, Test, Done,
                InvalidateMark, InvalidateTip, InvalidateEnd, ReplayStep, bounds
  <2>2. StepDisconnect(t) \/ Test(t) \/ Done(t)
    BY <1>8, <2>1 DEF MInv, Intact, Continue, ActivateBestChainStep, InvalidateMark,
                      InvalidateTip, InvalidateEnd, ReplayStep
  <2> QED BY <1>2, <2>2 DEF StepDisconnect, DisconnectTip, Test, Done, index, bounds
<1>9. ASSUME \/ \E t \in Threads : \/ \E b \in Blocks : InvalidateBlock(t, b) \/ ReconsiderBlock(t, b)
                                   \/ ReprocessBlocks(t)
             \/ \E S \in SUBSET dirty : Crash(S)
             \/ Shutdown
      PROVE  FALSE
  <2>1. manual' = manual + 1 \/ crashes' = crashes + 1
    BY <1>9 DEF InvalidateBlock, ReconsiderBlock, ReprocessBlocks, Intervenes, Crash, Shutdown, Stops
  <2> QED BY <1>1, <2>1 DEF Undisturbed
<1>10. CASE UNCHANGED vars
  BY <1>2, <1>10 DEF vars, index, bounds
<1> QED BY <1>5, <1>6, <1>7, <1>8, <1>9, <1>10 DEF Next

(* A block carries a failure mark only if it or an ancestor was found invalid. *)
THEOREM FailuresHaveCauses == Spec => [](Undisturbed => FailureHasCause)
<1>1. Init => Causes
  BY DEF Init, Causes, Failed, FailedMask
<1>2. Causes => (Undisturbed => FailureHasCause)
  BY DEF Causes, Caused, FailureHasCause
<1> QED BY <1>1, <1>2, InitOk, MarksInit, NextOk, MarksNext, CausesNext, PTL DEF Spec

-----------------------------------------------------------------------------
(* Blocks whose check always has the same outcome: no chain is ever lost.     *)

\* A marked block has something wrong below it, a checked block nothing.
Verdicts ==
    Fickle = {} /\ manual = 0 =>
        \A b \in Blocks :
            /\ HasData(b) => fault[b] # "contextual"
            /\ Failed(b) => \E a \in Ancestors[b] : fault[a] # "none"
            /\ "scripts" \in status[b] => \A a \in Ancestors[b] : fault[a] = "none"

(* What each step adds to an entry is right about the block.                  *)
LEMMA VerdictsKept ==
    ASSUME Verdicts, fault' = fault, manual' = 0 => manual = 0,
           \A b \in Blocks :
               /\ HasData(b)' => HasData(b) \/ fault[b] # "contextual"
               /\ Failed(b)' => \/ Failed(b) \/ fault[b] # "none" \/ b \in Fickle
                                \/ \E x \in Ancestors[b] : x \in Blocks /\ Failed(x)
               /\ "scripts" \in status'[b] =>
                     \/ "scripts" \in status[b]
                     \/ Fickle = {} /\ manual = 0 => \A a \in Ancestors[b] : fault[a] = "none"
    PROVE  Verdicts'
<1> SUFFICES ASSUME Fickle = {}, manual = 0, NEW b \in Blocks
             PROVE  /\ HasData(b)' => fault[b] # "contextual"
                    /\ Failed(b)' => \E a \in Ancestors[b] : fault[a] # "none"
                    /\ "scripts" \in status'[b] => \A a \in Ancestors[b] : fault[a] = "none"
  BY DEF Verdicts
<1>1. ASSUME Failed(b)' PROVE \E a \in Ancestors[b] : fault[a] # "none"
  <2>1. CASE Failed(b) \/ fault[b] # "none"
    BY <2>1, AncestorsClosed DEF Verdicts
  <2>2. CASE \E x \in Ancestors[b] : x \in Blocks /\ Failed(x)
    BY <2>2, AncestorsTransitive DEF Verdicts
  <2> QED BY <1>1, <2>1, <2>2
<1> QED BY <1>1 DEF Verdicts

(* Every step keeps the verdicts right, also a restart, which only forgets.    *)
LEMMA VerdictsNext == IInv /\ MInv /\ Verdicts /\ [Next]_vars => Verdicts'
<1> SUFFICES ASSUME IInv, MInv, Verdicts, [Next]_vars, manual' = 0 PROVE Verdicts'
  BY DEF Verdicts
<1>1. /\ status \in [Blocks -> SUBSET Flags] /\ candidates \in SUBSET Blocks
      /\ tip \in Blocks /\ manual \in Nat
      /\ fault \in [Blocks -> {"none", "contextual", "connect"}]
  BY DEF IInv, TypeOK
<1>2. CASE UNCHANGED <<fault, status, manual>>
  BY <1>2, VerdictsKept DEF Failed, HasData
<1>3. ASSUME NEW t \in Threads, NEW b \in Blocks, ProcessNewBlock(t, b) PROVE Verdicts'
  <2>1. UNCHANGED <<fault, manual>>
    BY <1>3 DEF ProcessNewBlock, ProcessDuplicate, ProcessContextualFailure, ProcessStakeSpent,
                ProcessStored, bounds
  <2>2. \A x \in Blocks :
          /\ HasData(x)' => HasData(x) \/ fault[x] # "contextual"
          /\ Failed(x)' => Failed(x) \/ fault[x] # "none"
          /\ "scripts" \in status'[x] => "scripts" \in status[x]
    <3>1. CASE ProcessDuplicate(t, b)
      BY <3>1 DEF ProcessDuplicate, index, HasData, Failed
    <3>2. CASE ProcessContextualFailure(t, b)
      BY <1>1, <3>2 DEF ProcessContextualFailure, MarkInvalid, Add, Failed, FailedMask, HasData
    <3>3. CASE ProcessStakeSpent(t, b)
      BY <1>1, <3>3 DEF ProcessStakeSpent, Add, Failed, FailedMask, HasData
    <3>4. CASE ProcessStored(t, b)
      BY <1>1, <3>4 DEF ProcessStored, Add, Failed, FailedMask, HasData
    <3> QED BY <1>3, <3>1, <3>2, <3>3, <3>4 DEF ProcessNewBlock
  <2> QED BY <2>1, <2>2, VerdictsKept
<1>4. ASSUME NEW t \in Threads, ActivateBestChain(t) PROVE Verdicts'
  <2>1. PICK most : FindMostWorkChain(most)
    BY <1>4 DEF ActivateBestChain
  <2> DEFINE above == UNION {AboveFailed(c) : c \in Passed(most)}
  <2>2. status' = Add(status, above, "failed_child") /\ UNCHANGED <<fault, manual>>
    BY <1>4, <2>1 DEF FindMostWorkChain, ActivateBestChain, bounds
  <2>3. ASSUME NEW y \in above PROVE \E x \in Ancestors[y] : x \in Blocks /\ Failed(x)
    BY <1>1, <2>3, PassedOver
  <2> HIDE DEF above
  <2>4. \A x \in Blocks : /\ HasData(x)' => HasData(x)
                          /\ Failed(x)' => Failed(x) \/ x \in above
                          /\ "scripts" \in status'[x] => "scripts" \in status[x]
    BY <1>1, <2>2 DEF Add, Failed, FailedMask, HasData
  <2> QED BY <2>2, <2>3, <2>4, VerdictsKept
<1>5. ASSUME NEW t \in Threads, NEW b \in Blocks, StepConnect(t, b) PROVE Verdicts'
  <2>1. /\ pc[t] = "step" /\ b \in Ancestors[mostWork[t]] \ {Genesis} /\ Prev[b] = tip
        /\ fault[b] # "connect" /\ status' = Add(status, {b}, "scripts")
        /\ UNCHANGED <<fault, manual>>
    BY <1>5 DEF StepConnect, Connecting, InStep
  <2>2. b \in Blocks /\ HasData(b)
    BY <1>1, <2>1, AncestorsClosed DEF IInv, Holding, Candidacy, Linkage
  <2>3. Ancestors[b] = {b} \cup Ancestors[tip] /\ tip \in Ancestors[tip]
        /\ "scripts" \in status[tip]
    BY <1>1, <2>1, <2>2, AncestorsStep, AncestorsClosed DEF IInv, ActiveChain, Core
  <2>4. ASSUME Fickle = {}, manual = 0 PROVE \A a \in Ancestors[b] : fault[a] = "none"
    BY <1>1, <2>1, <2>2, <2>3, <2>4 DEF Verdicts
  <2>5. \A x \in Blocks : /\ HasData(x)' => HasData(x)
                          /\ Failed(x)' => Failed(x)
                          /\ "scripts" \in status'[x] => "scripts" \in status[x] \/ x = b
    BY <1>1, <2>1 DEF Add, Failed, FailedMask, HasData
  <2> QED BY <2>1, <2>4, <2>5, VerdictsKept
<1>6. ASSUME NEW t \in Threads, NEW b \in Blocks, StepConnectFails(t, b) PROVE Verdicts'
  <2>1. /\ fault[b] = "connect" \/ b \in Fickle
        /\ status' = Add(status, {b}, "failed_valid") /\ UNCHANGED <<fault, manual>>
    BY <1>6 DEF StepConnectFails, MarkInvalid, bounds
  <2>2. \A x \in Blocks : /\ HasData(x)' => HasData(x)
                          /\ Failed(x)' => Failed(x) \/ x = b
                          /\ "scripts" \in status'[x] => "scripts" \in status[x]
    BY <1>1, <2>1 DEF Add, Failed, FailedMask, HasData
  <2> QED BY <2>1, <2>2, VerdictsKept
<1>7. ASSUME NEW t \in Threads, Continue(t), ~ActivateBestChain(t),
             \A b \in Blocks : ~StepConnect(t, b) /\ ~StepConnectFails(t, b)
      PROVE  Verdicts'
  <2>1. manual = 0
    BY <1>7 DEF Continue, ActivateBestChainStep, StepDisconnect, Test, Done,
                InvalidateMark, InvalidateTip, InvalidateEnd, ReplayStep, bounds
  <2>2. StepDisconnect(t) \/ Test(t) \/ Done(t)
    BY <1>7, <2>1 DEF MInv, Intact, Continue, ActivateBestChainStep, InvalidateMark,
                      InvalidateTip, InvalidateEnd, ReplayStep
  <2> QED BY <1>2, <2>2 DEF StepDisconnect, DisconnectTip, Test, Done, index, bounds
<1>8. ASSUME NEW t \in Threads,
             \/ \E b \in Blocks : InvalidateBlock(t, b) \/ ReconsiderBlock(t, b)
             \/ ReprocessBlocks(t)
      PROVE  FALSE
  <2>1. manual' = manual + 1
    BY <1>8 DEF InvalidateBlock, ReconsiderBlock, ReprocessBlocks, Intervenes
  <2> QED BY <1>1, <2>1
<1>9. CASE (\E S \in SUBSET dirty : Crash(S)) \/ Shutdown
  <2>1. PICK d \in [Blocks -> SUBSET Flags], best \in Ancestors[tip] :
          /\ \A b \in Blocks : d[b] = status[b] \/ d[b] = disk[b]
          /\ LoadBlockIndex(d, best)
    BY <1>9, StopIsLoad
  <2>2. manual = 0 /\ UNCHANGED <<fault, manual>> /\ status' = d
    BY <1>9, <2>1, StopIsLoad DEF Crash, Shutdown, LoadBlockIndex
  <2>3. \A b \in Blocks : disk[b] \cap Core \subseteq status[b]
    BY DEF IInv, Storage
  <2>4. \A b \in Blocks : disk[b] \cap FailedMask \subseteq status[b]
    BY <2>2 DEF MInv, Intact
  <2>5. \A b \in Blocks : /\ HasData(b)' => HasData(b)
                          /\ Failed(b)' => Failed(b)
                          /\ "scripts" \in status'[b] => "scripts" \in status[b]
    BY <2>1, <2>2, <2>3, <2>4 DEF HasData, Failed, Core
  <2> QED BY <2>2, <2>5, VerdictsKept
<1>10. CASE UNCHANGED vars
  BY <1>2, <1>10 DEF vars, index, bounds
<1> QED BY <1>3, <1>4, <1>5, <1>6, <1>7, <1>8, <1>9, <1>10 DEF Next

(* If a block that was connected once never fails when it is connected again,  *)
(* the best chain that no step found invalid is always the active one when    *)
(* every thread has returned: what the comment of PruneBlockIndexCandidates   *)
(* counts on.                                                                *)
THEOREM BestChainWinsAlways == Spec => [](Fickle = {} /\ manual = 0 => BestChainAlways)
<1>1. Init => Verdicts
  <2> SUFFICES ASSUME Init PROVE Verdicts
    OBVIOUS
  <2>1. fault[Genesis] = "none" /\ Genesis \in Blocks
    BY NamesAssumption DEF Init
  <2>2. \A b \in Blocks : /\ status[b] = IF b = Genesis THEN {"tree", "data", "scripts"} ELSE {}
                          /\ ~Failed(b)
    BY DEF Init, Failed, FailedMask
  <2> QED BY <2>1, <2>2, AncestorsGenesis DEF Verdicts, HasData
<1>2. IInv /\ BInv /\ Verdicts => (Fickle = {} /\ manual = 0 => BestChainAlways)
  <2> SUFFICES ASSUME IInv, BInv, Verdicts, Fickle = {}, manual = 0, AtRest,
                      NEW b \in linked, Unfailed(b), Worse(tip, b)
               PROVE  FALSE
    BY DEF BestChainAlways
  <2>1. /\ seq \in [Blocks -> Nat] /\ lowFirst \in BOOLEAN /\ tip \in Blocks
        /\ linked \in SUBSET Blocks /\ candidates \in SUBSET Blocks
        /\ Covered /\ Choice(tip)
    BY DEF IInv, TypeOK, BInv, Pending, AtRest
  <2>2. ASSUME NEW m \in candidates, Unfailed(m), m = b \/ Worse(b, m) PROVE FALSE
    <3>1. Worse(tip, m)
      BY <2>1, <2>2, Order DEF Worse
    <3> QED BY <2>1, <2>2, <3>1 DEF Choice
  <2>3. ASSUME NEW d \in Blocks, Lost(d) PROVE FALSE
    <3>1. PICK x \in Ancestors[d] : Failed(x)
      BY <2>3 DEF Lost, Unfailed
    <3>2. x \in Blocks /\ Ancestors[x] \subseteq Ancestors[d]
      BY <3>1, AncestorsTransitive
    <3>3. PICK a \in Ancestors[x] : fault[a] # "none"
      BY <3>1, <3>2 DEF Verdicts
    <3>4. \A y \in Ancestors[d] : fault[y] = "none"
      BY <2>3 DEF Lost, Verdicts
    <3> QED BY <3>2, <3>3, <3>4
  <2> QED BY <2>1, <2>2, <2>3, LostAbove
<1> QED BY <1>1, <1>2, InitOk, MarksInit, BestInit, NextOk, MarksNext, BestNext, VerdictsNext, PTL
        DEF Spec
=============================================================================
