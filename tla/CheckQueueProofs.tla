--------------------------- MODULE CheckQueueProofs ---------------------------
(***************************************************************************)
(* Theorems about CheckQueue, for every number of workers and checks.      *)
(***************************************************************************)
EXTENDS CheckQueue, FiniteSetTheorems, TLAPS

(* Disjoint finite sets: the cardinality of the union is the sum.  nTodo     *)
(* counts the queue and the batches together and is adjusted by differences. *)
LEMMA DisjointUnion ==
    ASSUME NEW A, NEW B, IsFiniteSet(A), IsFiniteSet(B), A \cap B = {}
    PROVE  /\ IsFiniteSet(A \cup B)
           /\ Cardinality(A \cup B) = Cardinality(A) + Cardinality(B)
<1> DEFINE n == Cardinality(A)
           m == Cardinality(B)
<1>1. n \in Nat /\ m \in Nat /\ ExistsBijection(1..n, A) /\ ExistsBijection(1..m, B)
  BY FS_CardinalityType
<1>2. PICK f \in [1..n -> A] : /\ \A i, j \in 1..n : f[i] = f[j] => i = j
                               /\ \A a \in A : \E i \in 1..n : f[i] = a
  BY <1>1 DEF ExistsBijection, Bijection, Injection, Surjection, IsInjective
<1>3. PICK g \in [1..m -> B] : /\ \A i, j \in 1..m : g[i] = g[j] => i = j
                               /\ \A b \in B : \E i \in 1..m : g[i] = b
  BY <1>1 DEF ExistsBijection, Bijection, Injection, Surjection, IsInjective
<1> DEFINE h == [i \in 1..(n + m) |-> IF i <= n THEN f[i] ELSE g[i - n]]
<1> HIDE DEF n, m
<1>4. h \in [1..(n + m) -> A \cup B]
  BY <1>1, <1>2, <1>3
<1>5. \A i, j \in 1..(n + m) : h[i] = h[j] => i = j
  <2> SUFFICES ASSUME NEW i \in 1..(n + m), NEW j \in 1..(n + m), h[i] = h[j]
               PROVE  i = j
    OBVIOUS
  <2>1. CASE i <= n /\ j <= n
    BY <2>1, <1>1, <1>2
  <2>2. CASE i > n /\ j > n
    BY <2>2, <1>1, <1>3
  <2>3. CASE i <= n /\ j > n
    BY <2>3, <1>1, <1>2, <1>3
  <2>4. CASE i > n /\ j <= n
    BY <2>4, <1>1, <1>2, <1>3
  <2> QED BY <2>1, <2>2, <2>3, <2>4, <1>1
<1>6. \A c \in A \cup B : \E i \in 1..(n + m) : h[i] = c
  <2>1. \A c \in A : \E i \in 1..(n + m) : h[i] = c
    BY <1>1, <1>2
  <2>2. ASSUME NEW c \in B PROVE \E i \in 1..(n + m) : h[i] = c
    <3>1. PICK i \in 1..m : g[i] = c
      BY <1>3
    <3>2. i + n \in 1..(n + m) /\ h[i + n] = c
      BY <3>1, <1>1
    <3> QED BY <3>2
  <2> QED BY <2>1, <2>2
<1>7. ExistsBijection(1..(n + m), A \cup B)
  BY <1>4, <1>5, <1>6 DEF ExistsBijection, Bijection, Injection, Surjection, IsInjective
<1>8. IsFiniteSet(1..(n + m)) /\ Cardinality(1..(n + m)) = n + m
  BY <1>1, FS_Interval
<1> QED BY <1>7, <1>8, FS_Bijection DEF n, m
-----------------------------------------------------------------------------
(* The inductive invariant.                                                *)

\* The threads inside Loop, and those of them that count as idle
Inside(p) == {u \in Threads : p[u] \in {"exec", "wait", "notified"}}
Idlers(p) == {u \in Threads : p[u] \in {"wait", "notified"}}

\* The checks not yet completed, with and without those of one thread
Left == queue \cup Taken
LeftWithout(t) == queue \cup UNION {batch[u] : u \in Threads \ {t}}

\* No check is in two places.
Partition ==
    /\ \A t \in Threads : batch[t] \cap queue = {}
    /\ \A t, u \in Threads : t # u => batch[t] \cap batch[u] = {}

\* The three counters count what they are said to count.
Counters ==
    /\ nTodo = Cardinality(Left)
    /\ nTotal = Cardinality(Inside(pc))
    /\ nIdle = Cardinality(Idlers(pc))

\* A thread executes when it has a batch; one taken after a failure is skipped.
Batches ==
    \A t \in Threads :
        /\ pc[t] = "exec" <=> batch[t] # {}
        /\ pc[t] = "exec" /\ ~ok[t] => ~fAllOk

\* fAllOk tells whether the completed checks of the present control passed.
Status ==
    IF pc[Master] = "out" THEN Left = {} /\ fAllOk
    ELSE Left \subseteq added /\ (fAllOk <=> (added \ Left) \cap Failing = {})

IInv == TypeOK /\ Partition /\ Counters /\ Batches /\ Status

\* What holds where the do loop of thread t starts: t has no batch and is
\* counted as inside and not as idle.
Pre(t, total, idle, todo, allOk, p) ==
    /\ p \in [Threads -> PC] /\ \A w \in Workers : p[w] # "open"
    /\ total \in Nat /\ total = Cardinality(Inside(p) \cup {t})
    /\ idle \in Nat /\ idle = Cardinality(Idlers(p) \ {t})
    /\ todo \in Nat /\ todo = Cardinality(LeftWithout(t))
    /\ allOk \in BOOLEAN
    /\ p[t] # "exec" => batch[t] = {}
    /\ t = Master => pc[Master] # "out"
    /\ t # Master => (p[Master] = "out" <=> pc[Master] = "out")
    /\ \A u \in Threads \ {t} :
          /\ p[u] = "exec" <=> batch[u] # {}
          /\ p[u] = "exec" /\ ~ok[u] => ~allOk
    /\ IF pc[Master] = "out" THEN LeftWithout(t) = {} /\ allOk
       ELSE /\ LeftWithout(t) \subseteq added
            /\ allOk <=> (added \ LeftWithout(t)) \cap Failing = {}

USE ChecksAssumption, ThreadsAssumption, BatchAssumption

(* The threads, and any set of checks or threads, are finite.                *)
LEMMA Finite ==
    /\ IsFiniteSet(Threads)
    /\ \A S \in SUBSET Checks : IsFiniteSet(S) /\ Cardinality(S) \in Nat
    /\ \A S \in SUBSET Threads : IsFiniteSet(S) /\ Cardinality(S) \in Nat
<1>1. IsFiniteSet(Threads)
  BY FS_AddElement DEF Threads
<1> QED BY <1>1, FS_Subset, FS_CardinalityType

(* The initial state satisfies the invariant.                                *)
LEMMA InitOk == Init => IInv
<1> SUFFICES ASSUME Init PROVE IInv
  OBVIOUS
<1> USE DEF Init
<1>1. TypeOK
  BY DEF TypeOK, PC, Threads
<1>2. Inside(pc) = {} /\ Idlers(pc) = {} /\ Left = {}
  BY DEF Inside, Idlers, Left, Taken
<1>3. Partition /\ Batches
  BY DEF Partition, Batches
<1>4. Counters
  BY <1>2, FS_EmptySet DEF Counters
<1>5. Status
  BY <1>2 DEF Status, Threads
<1> QED BY <1>1, <1>3, <1>4, <1>5 DEF IInv

(* LoopHead, by its three outcomes.  A batch takes at least one check from a  *)
(* queue that is not empty.                                                  *)
LEMMA LoopTake ==
    ASSUME IInv, NEW t \in Threads, NEW total, NEW idle, NEW todo, NEW allOk, NEW p,
           Pre(t, total, idle, todo, allOk, p),
           nTodo' = todo, Take(t, total, idle, allOk, p)
    PROVE  IInv'
<1>1. PICK b \in SUBSET queue : /\ Cardinality(b) = BatchLen(total, idle)
                              /\ batch' = [batch EXCEPT ![t] = b]
                              /\ queue' = queue \ b
  BY DEF Take
<1>2. b # {}
  <2>1. BatchLen(total, idle) # 0
    BY DEF BatchLen
  <2> QED BY <1>1, <2>1, FS_EmptySet
<1>3. /\ ok' = [ok EXCEPT ![t] = allOk] /\ pc' = [p EXCEPT ![t] = "exec"]
      /\ nTotal' = total /\ nIdle' = idle /\ fAllOk' = allOk
      /\ UNCHANGED <<added, verdict>>
  BY DEF Take
<1>4. TypeOK'
  BY <1>1, <1>3 DEF TypeOK, IInv, Pre, PC, Threads
<1>5. Left' = LeftWithout(t)
  <2>1. batch'[t] = b /\ \A u \in Threads \ {t} : batch'[u] = batch[u]
    BY <1>1 DEF TypeOK, IInv
  <2> QED BY <1>1, <2>1 DEF Left, LeftWithout, Taken
<1>6. Partition'
  BY <1>1 DEF Partition, IInv, TypeOK
<1>7. Counters'
  <2>1. Inside(pc') = Inside(p) \cup {t} /\ Idlers(pc') = Idlers(p) \ {t}
    BY <1>3 DEF Inside, Idlers, Pre
  <2> QED BY <1>3, <1>5, <2>1 DEF Counters, Pre, Inside, Idlers
<1>8. Batches'
  <2> SUFFICES ASSUME NEW u \in Threads
               PROVE  /\ pc'[u] = "exec" <=> batch'[u] # {}
                      /\ pc'[u] = "exec" /\ ~ok'[u] => ~fAllOk'
    BY DEF Batches
  <2>1. CASE u = t
    BY <2>1, <1>1, <1>2, <1>3 DEF Pre, IInv, TypeOK
  <2>2. CASE u # t
    <3>1. pc'[u] = p[u] /\ batch'[u] = batch[u] /\ ok'[u] = ok[u]
      BY <2>2, <1>1, <1>3 DEF Pre, IInv, TypeOK
    <3>2. /\ p[u] = "exec" <=> batch[u] # {}
          /\ p[u] = "exec" /\ ~ok[u] => ~allOk
      BY <2>2 DEF Pre
    <3> QED BY <3>1, <3>2, <1>3
  <2> QED BY <2>1, <2>2
<1>9. Status'
  <2>1. pc'[Master] = "out" <=> pc[Master] = "out"
    BY <1>3 DEF Pre, Threads
  <2> QED BY <1>3, <1>5, <2>1 DEF Status, Pre
<1> QED BY <1>4, <1>6, <1>7, <1>8, <1>9 DEF IInv
(* The master leaves when nothing is left: nobody executes a batch.          *)
LEMMA LoopReturn ==
    ASSUME IInv, NEW t \in Threads, NEW total, NEW idle, NEW todo, NEW allOk, NEW p,
           Pre(t, total, idle, todo, allOk, p),
           nTodo' = todo, Return(t, total, idle, todo, allOk, p)
    PROVE  /\ IInv'
           /\ t = Master /\ pc[Master] # "out" /\ pc'[Master] = "out"
           /\ verdict' = (added \cap Failing = {})
           /\ added' = added
<1>1. /\ t = Master /\ todo = 0 /\ queue = {}
      /\ verdict' = allOk /\ fAllOk' = TRUE
      /\ nTotal' = total - 1 /\ nIdle' = idle
      /\ pc' = [p EXCEPT ![t] = "out"]
      /\ batch' = [batch EXCEPT ![t] = {}]
      /\ UNCHANGED <<queue, ok, added>>
  BY DEF Return, MayReturn, Reset
<1>2. LeftWithout(t) = {}
  <2>1. LeftWithout(t) \in SUBSET Checks
    BY DEF LeftWithout, IInv, TypeOK
  <2> QED BY <1>1, <2>1, Finite, FS_EmptySet DEF Pre
<1>3. Left' = {}
  <2>1. batch'[t] = {} /\ \A u \in Threads \ {t} : batch'[u] = batch[u]
    BY <1>1 DEF TypeOK, IInv
  <2> QED BY <1>1, <1>2, <2>1 DEF Left, LeftWithout, Taken
<1>4. total \in Nat \ {0} /\ total - 1 = Cardinality(Inside(p) \ {t})
  <2>1. /\ IsFiniteSet(Inside(p) \cup {t})
        /\ (Inside(p) \cup {t}) \ {t} = Inside(p) \ {t}
        /\ t \in Inside(p) \cup {t}
        /\ Cardinality(Inside(p) \ {t}) \in Nat
    BY Finite DEF Inside
  <2>2. Cardinality((Inside(p) \cup {t}) \ {t}) = Cardinality(Inside(p) \cup {t}) - 1
    BY <2>1, FS_RemoveElement
  <2>3. total = Cardinality(Inside(p) \cup {t}) /\ total \in Nat
    BY DEF Pre
  <2> QED BY <2>1, <2>2, <2>3
<1>5. TypeOK'
  BY <1>1, <1>4 DEF TypeOK, IInv, Pre, PC, Threads
<1>6. Partition'
  BY <1>1 DEF Partition, IInv, TypeOK
<1>7. Counters'
  <2>1. Inside(pc') = Inside(p) \ {t} /\ Idlers(pc') = Idlers(p) \ {t}
    BY <1>1 DEF Inside, Idlers, Pre
  <2>2. nTodo' = Cardinality(Left')
    BY <1>1, <1>3, FS_EmptySet
  <2> QED BY <1>1, <1>4, <2>1, <2>2 DEF Counters, Pre, Inside, Idlers
<1>8. Batches'
  <2> SUFFICES ASSUME NEW u \in Threads
               PROVE  /\ pc'[u] = "exec" <=> batch'[u] # {}
                      /\ pc'[u] = "exec" /\ ~ok'[u] => ~fAllOk'
    BY DEF Batches
  <2>1. batch'[u] = {}
    BY <1>3 DEF Left, Taken
  <2>2. CASE u = t
    BY <2>1, <2>2, <1>1 DEF Pre
  <2>3. CASE u # t
    <3>1. pc'[u] = p[u] /\ batch'[u] = batch[u]
      BY <2>3, <1>1 DEF Pre, IInv, TypeOK
    <3>2. p[u] = "exec" <=> batch[u] # {}
      BY <2>3 DEF Pre
    <3> QED BY <2>1, <3>1, <3>2
  <2> QED BY <2>2, <2>3
<1>9. pc'[Master] = "out" /\ pc[Master] # "out"
  BY <1>1 DEF Pre, Threads
<1>10. Status'
  BY <1>1, <1>3, <1>9 DEF Status
<1>11. verdict' = (added \cap Failing = {})
  <2>1. allOk \in BOOLEAN /\ (allOk <=> (added \ {}) \cap Failing = {})
    BY <1>2, <1>9 DEF Pre
  <2> QED BY <2>1, <1>1
<1> QED BY <1>1, <1>5, <1>6, <1>7, <1>8, <1>9, <1>10, <1>11 DEF IInv

(* A thread that finds nothing to do waits.                                  *)
LEMMA LoopBlock ==
    ASSUME IInv, NEW t \in Threads, NEW total, NEW idle, NEW todo, NEW allOk, NEW p,
           Pre(t, total, idle, todo, allOk, p),
           nTodo' = todo, Block(t, total, idle, todo, allOk, p)
    PROVE  IInv'
<1>1. /\ queue = {} /\ nTotal' = total /\ nIdle' = idle + 1 /\ fAllOk' = allOk
      /\ pc' = [p EXCEPT ![t] = "wait"]
      /\ batch' = [batch EXCEPT ![t] = {}]
      /\ UNCHANGED <<queue, ok, added, verdict>>
  BY DEF Block
<1>2. Left' = LeftWithout(t)
  <2>1. batch'[t] = {} /\ \A u \in Threads \ {t} : batch'[u] = batch[u]
    BY <1>1 DEF TypeOK, IInv
  <2> QED BY <1>1, <2>1 DEF Left, LeftWithout, Taken
<1>3. TypeOK'
  BY <1>1 DEF TypeOK, IInv, Pre, PC, Threads
<1>4. Partition'
  BY <1>1 DEF Partition, IInv, TypeOK
<1>5. Counters'
  <2>1. Inside(pc') = Inside(p) \cup {t} /\ Idlers(pc') = (Idlers(p) \ {t}) \cup {t}
    BY <1>1 DEF Inside, Idlers, Pre
  <2>2. Cardinality((Idlers(p) \ {t}) \cup {t}) = idle + 1
    BY Finite, FS_AddElement DEF Idlers, Pre
  <2> QED BY <1>1, <1>2, <2>1, <2>2 DEF Counters, Pre, Inside, Idlers
<1>6. Batches'
  <2> SUFFICES ASSUME NEW u \in Threads
               PROVE  /\ pc'[u] = "exec" <=> batch'[u] # {}
                      /\ pc'[u] = "exec" /\ ~ok'[u] => ~fAllOk'
    BY DEF Batches
  <2>1. CASE u = t
    BY <2>1, <1>1 DEF Pre, IInv, TypeOK
  <2>2. CASE u # t
    <3>1. pc'[u] = p[u] /\ batch'[u] = batch[u] /\ ok'[u] = ok[u]
      BY <2>2, <1>1 DEF Pre, IInv, TypeOK
    <3>2. /\ p[u] = "exec" <=> batch[u] # {}
          /\ p[u] = "exec" /\ ~ok[u] => ~allOk
      BY <2>2 DEF Pre
    <3> QED BY <3>1, <3>2, <1>1
  <2> QED BY <2>1, <2>2
<1>7. Status'
  <2>1. pc'[Master] = "out" <=> pc[Master] = "out"
    BY <1>1 DEF Pre, Threads
  <2> QED BY <1>1, <1>2, <2>1 DEF Status, Pre
<1> QED BY <1>3, <1>4, <1>5, <1>6, <1>7 DEF IInv

(* A step of the loop preserves the invariant; the only one that changes what *)
(* the caller of Wait() sees is the master's return, with the exact verdict.  *)
LEMMA LoopOk ==
    ASSUME IInv, NEW t \in Threads, NEW total, NEW idle, NEW todo, NEW allOk, NEW p,
           Pre(t, total, idle, todo, allOk, p),
           LoopHead(t, total, idle, todo, allOk, p)
    PROVE  /\ IInv'
           /\ added' = added
           /\ \/ verdict' = verdict /\ (pc'[Master] = "out" <=> pc[Master] = "out")
              \/ /\ pc[Master] # "out" /\ pc'[Master] = "out"
                 /\ verdict' = (added \cap Failing = {})
<1>1. nTodo' = todo
  BY DEF LoopHead
<1>2. CASE Take(t, total, idle, allOk, p)
  <2>1. IInv'
    BY <1>1, <1>2, LoopTake
  <2>2. added' = added /\ verdict' = verdict /\ pc' = [p EXCEPT ![t] = "exec"]
    BY <1>2 DEF Take
  <2> QED BY <2>1, <2>2 DEF Pre, Threads
<1>3. CASE Return(t, total, idle, todo, allOk, p)
  BY <1>1, <1>3, LoopReturn
<1>4. CASE Block(t, total, idle, todo, allOk, p)
  <2>1. IInv'
    BY <1>1, <1>4, LoopBlock
  <2>2. added' = added /\ verdict' = verdict /\ pc' = [p EXCEPT ![t] = "wait"]
    BY <1>4 DEF Block
  <2> QED BY <2>1, <2>2 DEF Pre, Threads
<1> QED BY <1>2, <1>3, <1>4 DEF LoopHead
(* What the three entries into the loop establish: a thread calls Loop,       *)
LEMMA EnterPre ==
    ASSUME IInv, NEW t \in Threads, pc[t] = IF t = Master THEN "open" ELSE "out"
    PROVE  Pre(t, nTotal + 1, nIdle, nTodo, fAllOk, pc)
<1>1. t \notin Inside(pc) /\ t \notin Idlers(pc) /\ pc[t] # "exec"
  BY DEF Inside, Idlers
<1>2. nTotal + 1 = Cardinality(Inside(pc) \cup {t}) /\ nIdle = Cardinality(Idlers(pc) \ {t})
  <2>1. Idlers(pc) \ {t} = Idlers(pc)
    BY <1>1
  <2>2. Cardinality(Inside(pc) \cup {t}) = Cardinality(Inside(pc)) + 1
    BY <1>1, Finite, FS_AddElement DEF Inside
  <2> QED BY <2>1, <2>2 DEF IInv, Counters
<1>3. batch[t] = {}
  BY <1>1 DEF IInv, Batches
<1>4. Left = LeftWithout(t)
  BY <1>3 DEF Left, LeftWithout, Taken
<1>5. \A u \in Threads \ {t} :
          /\ pc[u] = "exec" <=> batch[u] # {}
          /\ pc[u] = "exec" /\ ~ok[u] => ~fAllOk
  BY DEF IInv, Batches
<1>6. t = Master => pc[Master] # "out"
  OBVIOUS
<1>7. IF pc[Master] = "out" THEN LeftWithout(t) = {} /\ fAllOk
      ELSE /\ LeftWithout(t) \subseteq added
           /\ fAllOk <=> (added \ LeftWithout(t)) \cap Failing = {}
  BY <1>4 DEF IInv, Status
<1>8. /\ pc \in [Threads -> PC] /\ \A w \in Workers : pc[w] # "open"
      /\ nTotal \in Nat /\ nIdle \in Nat /\ nTodo \in Nat /\ fAllOk \in BOOLEAN
      /\ nTodo = Cardinality(LeftWithout(t))
  BY <1>4 DEF IInv, TypeOK, Counters
<1> QED BY <1>2, <1>3, <1>5, <1>6, <1>7, <1>8 DEF Pre

(* ... a thread leaves cond.wait and gets the mutex back,                    *)
LEMMA WakePre ==
    ASSUME IInv, NEW t \in Threads, pc[t] = "notified"
    PROVE  Pre(t, nTotal, nIdle - 1, nTodo, fAllOk, pc)
<1>1. t \in Inside(pc) /\ t \in Idlers(pc) /\ pc[t] # "exec"
  BY DEF Inside, Idlers
<1>2. /\ nTotal = Cardinality(Inside(pc) \cup {t})
      /\ nIdle - 1 = Cardinality(Idlers(pc) \ {t})
      /\ nIdle - 1 \in Nat
  <2>1. Inside(pc) \cup {t} = Inside(pc)
    BY <1>1
  <2>2. /\ Cardinality(Idlers(pc) \ {t}) = Cardinality(Idlers(pc)) - 1
        /\ Cardinality(Idlers(pc) \ {t}) \in Nat
    BY <1>1, Finite, FS_RemoveElement DEF Idlers
  <2> QED BY <2>1, <2>2 DEF IInv, Counters
<1>3. batch[t] = {}
  BY <1>1 DEF IInv, Batches
<1>4. Left = LeftWithout(t)
  BY <1>3 DEF Left, LeftWithout, Taken
<1>5. \A u \in Threads \ {t} :
          /\ pc[u] = "exec" <=> batch[u] # {}
          /\ pc[u] = "exec" /\ ~ok[u] => ~fAllOk
  BY DEF IInv, Batches
<1>6. t = Master => pc[Master] # "out"
  OBVIOUS
<1>7. IF pc[Master] = "out" THEN LeftWithout(t) = {} /\ fAllOk
      ELSE /\ LeftWithout(t) \subseteq added
           /\ fAllOk <=> (added \ LeftWithout(t)) \cap Failing = {}
  BY <1>4 DEF IInv, Status
<1>8. /\ pc \in [Threads -> PC] /\ \A w \in Workers : pc[w] # "open"
      /\ nTotal \in Nat /\ nTodo \in Nat /\ fAllOk \in BOOLEAN
      /\ nTodo = Cardinality(LeftWithout(t))
  BY <1>4 DEF IInv, TypeOK, Counters
<1> QED BY <1>2, <1>3, <1>5, <1>6, <1>7, <1>8 DEF Pre
(* ... a thread has executed its batch and clears it up.                     *)
LEMMA CleanPre ==
    ASSUME IInv, NEW t \in Threads, pc[t] = "exec"
    PROVE  LET todo == nTodo - Cardinality(batch[t])
           IN  Pre(t, nTotal, nIdle, todo, fAllOk /\ BatchOk(t), NotifyMaster(t, todo))
<1> DEFINE todo == nTodo - Cardinality(batch[t])
           p == NotifyMaster(t, todo)
           allOk == fAllOk /\ BatchOk(t)
<1>1. /\ batch[t] # {} /\ batch[t] \in SUBSET Checks
      /\ Left = LeftWithout(t) \cup batch[t]
      /\ LeftWithout(t) \cap batch[t] = {}
      /\ LeftWithout(t) \in SUBSET Checks
  BY DEF IInv, TypeOK, Batches, Partition, Left, LeftWithout, Taken
<1>2. todo \in Nat /\ todo = Cardinality(LeftWithout(t))
  <2>1. /\ Cardinality(Left) = Cardinality(LeftWithout(t)) + Cardinality(batch[t])
        /\ Cardinality(LeftWithout(t)) \in Nat /\ Cardinality(batch[t]) \in Nat
    BY <1>1, Finite, DisjointUnion
  <2> QED BY <2>1 DEF IInv, Counters
<1>3. /\ p \in [Threads -> PC]
      /\ \A u \in Threads : p[u] # pc[u] => pc[u] = "wait" /\ p[u] = "notified"
  BY DEF IInv, TypeOK, NotifyMaster, PC
<1>4. Inside(p) \cup {t} = Inside(pc) /\ Idlers(p) \ {t} = Idlers(pc) /\ p[t] = "exec"
  BY <1>3 DEF Inside, Idlers
<1>5. \A u \in Threads \ {t} :
          /\ p[u] = "exec" <=> batch[u] # {}
          /\ p[u] = "exec" /\ ~ok[u] => ~allOk
  <2> SUFFICES ASSUME NEW u \in Threads \ {t}
               PROVE  /\ p[u] = "exec" <=> batch[u] # {}
                      /\ p[u] = "exec" /\ ~ok[u] => ~allOk
    OBVIOUS
  <2>1. p[u] = "exec" <=> pc[u] = "exec"
    BY <1>3
  <2>2. /\ pc[u] = "exec" <=> batch[u] # {}
        /\ pc[u] = "exec" /\ ~ok[u] => ~fAllOk
    BY DEF IInv, Batches
  <2> QED BY <2>1, <2>2
<1>6. pc[Master] # "out"
  BY <1>1 DEF IInv, Status
<1>7. LeftWithout(t) \subseteq added /\ (allOk <=> (added \ LeftWithout(t)) \cap Failing = {})
  <2>1. Left \subseteq added /\ (fAllOk <=> (added \ Left) \cap Failing = {})
    BY <1>6 DEF IInv, Status
  <2>2. ~ok[t] => ~fAllOk
    BY DEF IInv, Batches
  <2>3. added \ LeftWithout(t) = (added \ Left) \cup batch[t]
    BY <1>1, <2>1
  <2> QED BY <1>1, <2>1, <2>2, <2>3 DEF BatchOk
<1>8. \A w \in Workers : p[w] # "open"
  BY <1>3 DEF IInv, TypeOK, Threads
<1>9. p[Master] = "out" <=> pc[Master] = "out"
  BY <1>3 DEF Threads
<1>10. /\ nTotal \in Nat /\ nTotal = Cardinality(Inside(p) \cup {t})
       /\ nIdle \in Nat /\ nIdle = Cardinality(Idlers(p) \ {t})
  BY <1>4 DEF IInv, TypeOK, Counters
<1>11. allOk \in BOOLEAN
  OBVIOUS
<1> HIDE DEF todo, p, allOk
<1>12. Pre(t, nTotal, nIdle, todo, allOk, p)
  BY <1>2, <1>3, <1>4, <1>5, <1>6, <1>7, <1>8, <1>9, <1>10, <1>11 DEF Pre
<1> QED BY <1>12 DEF todo, p, allOk

(* A step of a thread inside the queue.                                      *)
LEMMA LoopStepOk ==
    ASSUME IInv, NEW t \in Threads, LoopStep(t)
    PROVE  /\ IInv'
           /\ added' = added
           /\ \/ verdict' = verdict /\ (pc'[Master] = "out" <=> pc[Master] = "out")
              \/ /\ pc[Master] # "out" /\ pc'[Master] = "out"
                 /\ verdict' = (added \cap Failing = {})
<1>1. CASE Enter(t)
  <2>1. Pre(t, nTotal + 1, nIdle, nTodo, fAllOk, pc)
    BY <1>1, EnterPre DEF Enter
  <2> QED BY <1>1, <2>1, LoopOk DEF Enter
<1>2. CASE Clean(t)
  <2> DEFINE todo == nTodo - Cardinality(batch[t])
  <2>1. Pre(t, nTotal, nIdle, todo, fAllOk /\ BatchOk(t), NotifyMaster(t, todo))
    BY <1>2, CleanPre DEF Clean
  <2>2. LoopHead(t, nTotal, nIdle, todo, fAllOk /\ BatchOk(t), NotifyMaster(t, todo))
    BY <1>2 DEF Clean
  <2> HIDE DEF todo
  <2> QED BY <2>1, <2>2, LoopOk
<1>3. CASE Wake(t)
  <2>1. Pre(t, nTotal, nIdle - 1, nTodo, fAllOk, pc)
    BY <1>3, WakePre DEF Wake
  <2> QED BY <1>3, <2>1, LoopOk DEF Wake
<1> QED BY <1>1, <1>2, <1>3 DEF LoopStep

(* A wait that ends by itself changes nothing that is counted.               *)
LEMMA SpuriousOk ==
    ASSUME IInv, NEW t \in Threads, SpuriousWakeup(t)
    PROVE  /\ IInv' /\ UNCHANGED <<added, verdict>>
           /\ pc'[Master] = "out" <=> pc[Master] = "out"
<1>1. /\ pc[t] = "wait" /\ pc' = [pc EXCEPT ![t] = "notified"]
      /\ UNCHANGED <<queue, nTodo, nTotal, nIdle, fAllOk, batch, ok, added, verdict>>
  BY DEF SpuriousWakeup
<1>2. /\ \A u \in Threads : pc'[u] # pc[u] => pc[u] = "wait" /\ pc'[u] = "notified"
      /\ pc' \in [Threads -> PC]
  BY <1>1 DEF IInv, TypeOK, PC
<1>3. Inside(pc') = Inside(pc) /\ Idlers(pc') = Idlers(pc)
  BY <1>2 DEF Inside, Idlers
<1>4. pc'[Master] = "out" <=> pc[Master] = "out"
  BY <1>2 DEF Threads
<1>5. Left' = Left /\ Partition'
  BY <1>1 DEF Left, Taken, IInv, Partition
<1>6. TypeOK'
  BY <1>1, <1>2 DEF IInv, TypeOK, Threads
<1>7. Counters'
  BY <1>1, <1>3, <1>5 DEF IInv, Counters
<1>8. Batches'
  BY <1>1, <1>2 DEF IInv, Batches
<1>9. Status'
  BY <1>1, <1>4, <1>5 DEF IInv, Status
<1> QED BY <1>1, <1>4, <1>5, <1>6, <1>7, <1>8, <1>9 DEF IInv
(* The constructor of a control starts from an idle queue.                   *)
LEMMA OpenOk ==
    ASSUME IInv, Open
    PROVE  IInv' /\ pc'[Master] # "out" /\ added' = {} /\ verdict' = verdict
<1>1. /\ pc[Master] = "out" /\ pc' = [pc EXCEPT ![Master] = "open"] /\ added' = {}
      /\ UNCHANGED <<queue, nTodo, nTotal, nIdle, fAllOk, batch, ok, verdict>>
  BY DEF Open
<1>2. /\ \A u \in Threads : pc'[u] # pc[u] => pc[u] = "out" /\ pc'[u] = "open"
      /\ pc' \in [Threads -> PC] /\ pc'[Master] = "open"
      /\ \A w \in Workers : pc'[w] # "open"
  BY <1>1 DEF IInv, TypeOK, PC, Threads
<1>3. Inside(pc') = Inside(pc) /\ Idlers(pc') = Idlers(pc)
  BY <1>2 DEF Inside, Idlers
<1>4. Left' = Left /\ Partition'
  BY <1>1 DEF Left, Taken, IInv, Partition
<1>5. TypeOK'
  BY <1>1, <1>2 DEF IInv, TypeOK
<1>6. Counters'
  BY <1>1, <1>3, <1>4 DEF IInv, Counters
<1>7. Batches'
  BY <1>1, <1>2 DEF IInv, Batches
<1>8. Status'
  BY <1>1, <1>2, <1>4 DEF IInv, Status
<1> QED BY <1>1, <1>2, <1>4, <1>5, <1>6, <1>7, <1>8 DEF IInv

(* The checks of one control are distinct objects (S avoids added), so that   *)
(* nTodo grows by exactly their number.                                      *)
LEMMA AddOk ==
    ASSUME IInv, NEW S \in SUBSET (Checks \ added), Add(S)
    PROVE  /\ IInv' /\ verdict' = verdict /\ added' = added \cup S
           /\ pc[Master] # "out" /\ pc'[Master] # "out"
<1>1. /\ pc[Master] = "open" /\ queue' = queue \cup S
      /\ nTodo' = nTodo + Cardinality(S) /\ added' = added \cup S
      /\ UNCHANGED <<nTotal, nIdle, fAllOk, batch, ok, verdict>>
  BY DEF Add
<1>2. PICK N \in Notified(S) :
          pc' = [u \in Threads |-> IF u \in N THEN "notified" ELSE pc[u]]
  BY DEF Add
<1>3. N \subseteq Waiting
  BY DEF Notified
<1>4. /\ \A u \in Threads : pc'[u] # pc[u] => pc[u] = "wait" /\ pc'[u] = "notified"
      /\ pc' \in [Threads -> PC]
  BY <1>2, <1>3 DEF Waiting, IInv, TypeOK, PC
<1>5. Inside(pc') = Inside(pc) /\ Idlers(pc') = Idlers(pc)
  BY <1>4 DEF Inside, Idlers
<1>6. pc'[Master] # "out"
  BY <1>1, <1>4 DEF Threads
<1>7. /\ Left' = Left \cup S /\ Left \cap S = {}
      /\ Left \in SUBSET Checks /\ S \in SUBSET Checks /\ Left \subseteq added
  <2>1. Left \subseteq added
    BY <1>1 DEF IInv, Status
  <2> QED BY <1>1, <2>1 DEF Left, Taken, IInv, TypeOK
<1>8. TypeOK'
  <2>1. nTodo' \in Nat
    BY <1>1, Finite DEF IInv, TypeOK
  <2> QED BY <1>1, <1>4, <2>1 DEF IInv, TypeOK, Threads
<1>9. Partition'
  <2>1. \A u \in Threads : batch[u] \cap S = {}
    BY <1>7 DEF Left, Taken
  <2> QED BY <1>1, <2>1 DEF IInv, Partition
<1>10. Counters'
  <2>1. Cardinality(Left') = Cardinality(Left) + Cardinality(S)
    BY <1>7, Finite, DisjointUnion
  <2> QED BY <1>1, <1>5, <2>1 DEF IInv, Counters
<1>11. Batches'
  BY <1>1, <1>4 DEF IInv, Batches
<1>12. Status'
  <2>1. added' \ Left' = added \ Left
    BY <1>1, <1>7
  <2>2. fAllOk <=> (added \ Left) \cap Failing = {}
    BY <1>1 DEF IInv, Status
  <2> QED BY <1>1, <1>6, <1>7, <2>1, <2>2 DEF Status
<1> QED BY <1>1, <1>6, <1>8, <1>9, <1>10, <1>11, <1>12 DEF IInv

(* Every step preserves the invariant.                                       *)
LEMMA NextOk == IInv /\ [Next]_vars => IInv'
<1> SUFFICES ASSUME IInv, [Next]_vars PROVE IInv'
  OBVIOUS
<1>1. CASE Open
  BY <1>1, OpenOk
<1>2. ASSUME NEW S \in SUBSET (Checks \ added), Add(S) PROVE IInv'
  BY <1>2, AddOk
<1>3. ASSUME NEW t \in Threads, LoopStep(t) PROVE IInv'
  BY <1>3, LoopStepOk
<1>4. ASSUME NEW t \in Threads, SpuriousWakeup(t) PROVE IInv'
  BY <1>4, SpuriousOk
<1>5. CASE UNCHANGED vars
  BY <1>5 DEF vars, IInv, TypeOK, Partition, Counters, Batches, Status, Left, Taken,
              Inside, Idlers
<1> QED BY <1>1, <1>2, <1>3, <1>4, <1>5 DEF Next

-----------------------------------------------------------------------------
(* The invariant holds whatever the threads do: how many workers there are,  *)
(* when they start and which of them are woken makes no difference.          *)
THEOREM Invariance == Spec => []IInv
<1> QED BY InitOk, NextOk, PTL DEF Spec

(* Types: in particular the counters of CCheckQueue never wrap below zero.    *)
THEOREM TypeCorrect == Spec => []TypeOK
<1>1. IInv => TypeOK
  BY DEF IInv
<1> QED BY <1>1, Invariance, PTL

(* Once Wait() has returned, no worker holds a check of that block.          *)
THEOREM NoCheckOutlivesControl == Spec => []NoCheckOutlives
<1>1. IInv => NoCheckOutlives
  BY DEF IInv, Status, NoCheckOutlives, Left
<1> QED BY <1>1, Invariance, PTL

(* CCheckQueueControl's assertion on IsIdle never fails.                     *)
THEOREM ConstructorAssertion == Spec => []AssertIdle
<1>1. ASSUME IInv, pc[Master] = "out" PROVE IsIdle
  <2>1. Left = {} /\ fAllOk
    BY <1>1 DEF IInv, Status
  <2>2. nTodo = 0
    BY <1>1, <2>1, FS_EmptySet DEF IInv, Counters
  <2>3. \A u \in Threads : pc[u] # "exec"
    BY <1>1, <2>1 DEF IInv, Batches, Left, Taken
  <2>4. Inside(pc) = Idlers(pc)
    BY <2>3 DEF Inside, Idlers
  <2> QED BY <1>1, <2>1, <2>2, <2>4 DEF IsIdle, IInv, Counters
<1>2. IInv => AssertIdle
  BY <1>1 DEF AssertIdle
<1> QED BY <1>2, Invariance, PTL

(* The queue implements ScriptVerdict: Wait() answers TRUE exactly when every *)
(* check handed over to its control passes.                                  *)
THEOREM Refinement == Spec => ImplementsVerdict
<1>1. Init => Abstract!Init
  BY DEF Init, Abstract!Init, Threads
<1>2. IInv /\ [Next]_vars => [Abstract!Next]_Abstract!vars
  <2> SUFFICES ASSUME IInv, [Next]_vars PROVE [Abstract!Next]_Abstract!vars
    OBVIOUS
  <2> USE DEF Abstract!Next, Abstract!vars
  <2>1. CASE Open
    <3>1. pc[Master] = "out"
      BY <2>1 DEF Open
    <3> QED BY <2>1, <3>1, OpenOk DEF Abstract!Open
  <2>2. ASSUME NEW S \in SUBSET (Checks \ added), Add(S)
        PROVE  Abstract!Next
    BY <2>2, AddOk DEF Abstract!Add
  <2>3. ASSUME NEW t \in Threads, LoopStep(t)
        PROVE  [Abstract!Next]_Abstract!vars
    BY <2>3, LoopStepOk DEF Abstract!Answer
  <2>4. ASSUME NEW t \in Threads, SpuriousWakeup(t)
        PROVE  UNCHANGED Abstract!vars
    BY <2>4, SpuriousOk
  <2>5. CASE UNCHANGED vars
    BY <2>5 DEF vars
  <2> QED BY <2>1, <2>2, <2>3, <2>4, <2>5 DEF Next
<1> QED BY <1>1, <1>2, Invariance, PTL DEF Spec, ImplementsVerdict, Abstract!Spec
===============================================================================
