--------------------------- MODULE WorkQueueProofs ---------------------------
(***************************************************************************)
(* Proofs about WorkQueue.tla, for any number of workers and requests and  *)
(* any depth: the type invariant, that no request has two owners or is     *)
(* answered twice, and that WaitExit returns only when the workers that    *)
(* have counted themselves are out of Run.                                 *)
(***************************************************************************)
EXTENDS WorkQueue, FiniteSetTheorems, TLAPS

\* A worker holds an item exactly while it executes one.
ItemWhenWorking == \A w \in Threads : at[w] = "working" <=> item[w] # NoRequest

\* numThreads counts the workers inside Run.
CountExact == numThreads = Cardinality(Inside)

OwnerInv == TypeOK /\ ItemWhenWorking /\ OneOwner
ExitInv == TypeOK /\ CountExact

-----------------------------------------------------------------------------

\* Appending to a sequence without repetition a value that is not in it.
LEMMA AppendRange ==
    ASSUME NEW S, NEW s \in Seq(S), NEW e \in S
    PROVE  /\ Append(s, e) \in Seq(S)
           /\ Len(Append(s, e)) = Len(s) + 1
           /\ \A i \in 1 .. Len(s) : Append(s, e)[i] = s[i]
           /\ Append(s, e)[Len(s) + 1] = e
  OBVIOUS

\* The values of a sequence by its indices.
LEMMA SeqDomain ==
    ASSUME NEW S, NEW s \in Seq(S)
    PROVE  DOMAIN s = 1 .. Len(s) /\ Len(s) \in Nat /\ \A i \in 1 .. Len(s) : s[i] \in S
  OBVIOUS

\* What is left when the first item has been taken.
LEMMA TailRange ==
    ASSUME NEW S, NEW s \in Seq(S), s # <<>>
    PROVE  /\ Tail(s) \in Seq(S)
           /\ Head(s) = s[1] /\ Head(s) \in S
           /\ Len(Tail(s)) = Len(s) - 1 /\ Len(s) \in Nat \ {0}
           /\ \A i \in 1 .. Len(Tail(s)) : Tail(s)[i] = s[i + 1]
  OBVIOUS

\* The initial state has the types of the variables.
LEMMA InitType == Init => TypeOK
  <1> SUFFICES ASSUME Init PROVE TypeOK
    OBVIOUS
  <1>1. running \in BOOLEAN /\ rejecting \in BOOLEAN
    BY DEF Init
  <1>2. queue \in Seq(Requests)
    BY DEF Init
  <1>3. replies \in [Requests -> Nat]
    BY DEF Init
  <1> QED BY <1>1, <1>2, <1>3 DEF Init, TypeOK

\* Every step keeps the types; numThreads needs a worker inside to go down.
LEMMA NextType == ExitInv /\ [Next]_vars => TypeOK'
  <1> SUFFICES ASSUME ExitInv, [Next]_vars PROVE TypeOK'
    OBVIOUS
  <1> USE DEF ExitInv, TypeOK, Reply, Queued
  <1>1. ASSUME NEW r \in Requests, Dispatch(r) PROVE TypeOK'
    BY <1>1 DEF Dispatch
  <1>2. ASSUME NEW r \in Requests, Reject(r) PROVE TypeOK'
    BY <1>2 DEF Reject
  <1>3. CASE Enqueue
    <2>1. dispatched \in Requests
      BY <1>3 DEF Enqueue
    <2>2. Append(queue, dispatched) \in Seq(Requests)
      BY <2>1, AppendRange
    <2>3. queue' \in Seq(Requests)
      BY <1>3, <2>2 DEF Enqueue
    <2>4. replies' \in [Requests -> Nat]
      <3>1. Reply({dispatched}) \/ replies' = replies
        BY <1>3 DEF Enqueue
      <3>2. Reply({dispatched}) => replies' \in [Requests -> Nat]
        OBVIOUS
      <3> QED BY <3>1, <3>2
    <2>5. waiting' \subseteq Threads \cup {Stopper}
      BY <1>3 DEF Enqueue, NotifyOne
    <2>6. dispatched' = NoRequest
      BY <1>3 DEF Enqueue
    <2>7. UNCHANGED <<running, numThreads, at, item, rejecting, stop>>
      BY <1>3 DEF Enqueue
    <2> QED BY <2>3, <2>4, <2>5, <2>6, <2>7
  <1>4. ASSUME NEW w \in Threads, Worker(w) PROVE TypeOK'
    <2>1. CASE Enter(w)
      BY <2>1 DEF Enter
    <2>2. CASE Loop(w)
      BY <2>2 DEF Loop
    <2>3. CASE Wait(w)
      BY <2>3 DEF Wait
    <2>4. CASE Break(w)
      BY <2>4 DEF Break
    <2>5. CASE Take(w)
      BY <2>5, TailRange DEF Take
    <2>6. CASE Work(w)
      BY <2>6 DEF Work
    <2>7. CASE Leave(w)
      <3>1. w \in Inside /\ IsFiniteSet(Inside)
        BY <2>7, ThreadsAssumption, FS_Subset DEF Leave, Inside
      <3>2. numThreads # 0
        BY <3>1, FS_EmptySet DEF CountExact
      <3> QED BY <2>7, <3>2 DEF Leave, NotifyAll
    <2> QED BY <1>4, <2>1, <2>2, <2>3, <2>4, <2>5, <2>6, <2>7 DEF Worker
  <1>5. ASSUME NEW t \in Threads \cup {Stopper}, SpuriousWakeup(t) PROVE TypeOK'
    BY <1>5 DEF SpuriousWakeup
  <1>6. CASE SetReject
    BY <1>6 DEF SetReject
  <1>7. CASE Interrupt
    BY <1>7 DEF Interrupt, NotifyAll
  <1>8. CASE WaitExit
    BY <1>8 DEF WaitExit
  <1>9. CASE Delete
    BY <1>9 DEF Delete
  <1>10. CASE UNCHANGED vars
    BY <1>10 DEF vars
  <1> QED
    BY <1>1, <1>2, <1>3, <1>4, <1>5, <1>6, <1>7, <1>8, <1>9, <1>10 DEF Next

-----------------------------------------------------------------------------

\* Only Enter and Leave change who is inside, and both change the counter.
LEMMA NextCount == ExitInv /\ [Next]_vars => CountExact'
  <1> SUFFICES ASSUME ExitInv, [Next]_vars PROVE CountExact'
    OBVIOUS
  <1> USE DEF ExitInv, TypeOK, CountExact
  <1>1. IsFiniteSet(Inside)
    BY ThreadsAssumption, FS_Subset DEF Inside
  <1>2. ASSUME NEW w \in Threads, Enter(w) PROVE CountExact'
    <2>1. Inside' = Inside \cup {w} /\ w \notin Inside
      BY <1>2 DEF Enter, Inside
    <2> QED BY <1>1, <1>2, <2>1, FS_AddElement DEF Enter
  <1>3. ASSUME NEW w \in Threads, Leave(w) PROVE CountExact'
    <2>1. Inside' = Inside \ {w} /\ w \in Inside
      BY <1>3 DEF Leave, Inside
    <2> QED BY <1>1, <1>3, <2>1, FS_RemoveElement DEF Leave
  <1>4. ASSUME NEW w \in Threads, Loop(w) \/ Break(w) \/ Take(w) \/ Work(w)
        PROVE CountExact'
    <2>1. Inside' = Inside
      BY <1>4 DEF Loop, Break, Take, Work, Inside
    <2> QED BY <1>4, <2>1 DEF Loop, Break, Take, Work
  <1>5. ASSUME UNCHANGED <<at, numThreads>> PROVE CountExact'
    BY <1>5 DEF Inside
  <1> QED
    BY <1>2, <1>3, <1>4, <1>5 DEF Next, Worker, Dispatch, Reject, Enqueue, Wait, SpuriousWakeup,
        SetReject, Interrupt, WaitExit, Delete, vars

\* Type correctness and the exact counter, of every behaviour of the queue.
THEOREM ExitInvariant == Spec => []ExitInv
  <1>1. Init => ExitInv
    <2> SUFFICES ASSUME Init PROVE ExitInv
      OBVIOUS
    <2>1. Inside = {}
      BY DEF Init, Inside
    <2> QED BY <2>1, InitType, FS_EmptySet DEF Init, ExitInv, CountExact
  <1>2. ExitInv /\ [Next]_vars => ExitInv'
    BY NextType, NextCount DEF ExitInv
  <1> QED BY <1>1, <1>2, PTL DEF Spec

\* The variables have their types in every state.
THEOREM TypeCorrect == Spec => []TypeOK
  <1>1. ExitInv => TypeOK
    BY DEF ExitInv
  <1> QED BY <1>1, ExitInvariant, PTL

\* WaitExit returns only when nobody who has entered Run is inside: the counter
\* is exact, so that zero means the set is empty.
THEOREM ExitsWhenStopped == Spec => ExitWhenStopped
  <1>1. ExitInv /\ [Next]_vars => [stop' = "exited" /\ stop # "exited" => Inside = {}]_vars
    <2> SUFFICES ASSUME ExitInv, Next, stop' = "exited", stop # "exited" PROVE Inside = {}
      BY DEF vars
    <2>1. WaitExit /\ ~(numThreads > 0)
      BY DEF Next, Worker, Dispatch, Reject, Enqueue, Enter, Loop, Wait, Break, Take, Work, Leave,
          SpuriousWakeup, SetReject, Interrupt, WaitExit, Delete
    <2>2. Cardinality(Inside) = 0
      BY <2>1 DEF ExitInv, TypeOK, CountExact
    <2>3. IsFiniteSet(Inside)
      BY ThreadsAssumption, FS_Subset DEF Inside
    <2> QED BY <2>2, <2>3, FS_EmptySet
  <1> QED BY <1>1, ExitInvariant, PTL DEF Spec, ExitWhenStopped

-----------------------------------------------------------------------------
(* One owner.  Each lemma is one kind of step; Queued is rewritten by what *)
(* the step does to the sequence.                                          *)

LEMMA InitOwner == Init => ItemWhenWorking /\ OneOwner
  <1> SUFFICES ASSUME Init PROVE ItemWhenWorking /\ OneOwner
    OBVIOUS
  <1>1. Queued = {} /\ DOMAIN queue = {}
    BY DEF Init, Queued
  <1>2. dispatched = NoRequest /\ \A w \in Threads : item[w] = NoRequest /\ at[w] = "created"
    BY DEF Init
  <1>3. \A r \in Requests : replies[r] = 0
    BY DEF Init
  <1> QED BY <1>1, <1>2, <1>3 DEF ItemWhenWorking, OneOwner

\* A new request is in no place, so that the event thread becomes its owner.
LEMMA DispatchOwner ==
    ASSUME OwnerInv, NEW r \in Requests, Dispatch(r) \/ Reject(r)
    PROVE  ItemWhenWorking' /\ OneOwner'
  <1> USE DEF OwnerInv, TypeOK, ItemWhenWorking
  <1>1. Queued' = Queued /\ New(r) /\ queue' = queue /\ item' = item /\ at' = at
    BY DEF Dispatch, Reject, Queued
  <1>2. CASE Dispatch(r)
    BY <1>1, <1>2, RequestAssumption DEF Dispatch, New, OneOwner
  <1>3. CASE Reject(r)
    <2>1. \A q \in Requests : replies'[q] = IF q = r THEN 1 ELSE replies[q]
      BY <1>1, <1>3 DEF Reject, Reply, New
    <2>2. dispatched' = dispatched
      BY <1>3 DEF Reject
    <2>3. r \notin Queued \cup {dispatched} \cup {item[w] : w \in Threads}
      BY <1>1 DEF New
    <2> QED BY <1>1, <2>1, <2>2, <2>3 DEF OneOwner
  <1> QED BY <1>2, <1>3

\* From the event thread into the queue, or answered because the queue is full.
LEMMA EnqueueOwner ==
    ASSUME OwnerInv, Enqueue
    PROVE  ItemWhenWorking' /\ OneOwner'
  <1> USE DEF OwnerInv, TypeOK, ItemWhenWorking
  <1>1. dispatched \in Requests /\ dispatched' = NoRequest /\ item' = item /\ at' = at
    BY DEF Enqueue
  <1>2. replies[dispatched] = 0
    BY <1>1 DEF OneOwner
  <1>3. CASE Len(queue) >= MaxDepth
    <2>1. \A q \in Requests : replies'[q] = IF q = dispatched THEN 1 ELSE replies[q]
      BY <1>1, <1>2, <1>3 DEF Enqueue, Reply
    <2>2. queue' = queue /\ Queued' = Queued /\ NoRequest \notin Queued
      BY <1>3, RequestAssumption DEF Enqueue, Queued
    <2>3. dispatched \notin {item[w] : w \in Threads}
      BY <1>1, RequestAssumption DEF OneOwner
    <2> QED BY <1>1, <2>1, <2>2, <2>3, RequestAssumption DEF OneOwner
  <1>4. CASE ~(Len(queue) >= MaxDepth)
    <2>1. queue' = Append(queue, dispatched) /\ replies' = replies
      BY <1>4 DEF Enqueue
    <2>2. /\ Len(queue') = Len(queue) + 1
          /\ \A i \in 1 .. Len(queue) : queue'[i] = queue[i]
          /\ queue'[Len(queue) + 1] = dispatched
          /\ queue' \in Seq(Requests)
      BY <1>1, <2>1, AppendRange
    <2>3. /\ DOMAIN queue = 1 .. Len(queue) /\ Len(queue) \in Nat
          /\ DOMAIN queue' = 1 .. Len(queue')
      BY <2>2, SeqDomain
    <2>4. Queued' = Queued \cup {dispatched}
      <3>1. \A x \in Queued : x \in Queued'
        BY <2>2, <2>3 DEF Queued
      <3>2. dispatched \in Queued'
        BY <2>2, <2>3 DEF Queued
      <3>3. \A x \in Queued' : x \in Queued \/ x = dispatched
        BY <2>2, <2>3 DEF Queued
      <3> QED BY <3>1, <3>2, <3>3
    <2>5. \A i, j \in DOMAIN queue' : queue'[i] = queue'[j] => i = j
      <3>1. \A i \in 1 .. Len(queue) : queue'[i] # dispatched
        BY <2>2, <2>3 DEF OneOwner, Queued
      <3>2. \A i, j \in 1 .. Len(queue) : queue[i] = queue[j] => i = j
        BY <2>3 DEF OneOwner
      <3> QED BY <2>2, <2>3, <3>1, <3>2
    <2>6. NoRequest \notin Queued
      BY RequestAssumption DEF Queued
    <2>7. dispatched \notin {item[w] : w \in Threads}
      BY <1>1, RequestAssumption DEF OneOwner
    <2> QED BY <1>1, <1>2, <2>1, <2>4, <2>5, <2>6, <2>7, RequestAssumption DEF OneOwner
  <1> QED BY <1>3, <1>4

\* From the queue to a worker.
LEMMA TakeOwner ==
    ASSUME OwnerInv, NEW w \in Threads, Take(w)
    PROVE  ItemWhenWorking' /\ OneOwner'
  <1> USE DEF OwnerInv, TypeOK, ItemWhenWorking
  <1>1. /\ queue # <<>> /\ queue' = Tail(queue) /\ at[w] = "locking"
        /\ item' = [item EXCEPT ![w] = Head(queue)] /\ at' = [at EXCEPT ![w] = "working"]
        /\ UNCHANGED <<dispatched, replies>>
    BY DEF Take
  <1>2. /\ Head(queue) = queue[1] /\ Head(queue) \in Requests
        /\ Len(queue') = Len(queue) - 1 /\ Len(queue) \in Nat \ {0}
        /\ \A i \in 1 .. Len(queue') : queue'[i] = queue[i + 1]
        /\ queue' \in Seq(Requests)
    BY <1>1, TailRange
  <1>3. DOMAIN queue = 1 .. Len(queue) /\ DOMAIN queue' = 1 .. Len(queue')
    BY <1>2, SeqDomain
  <1>4. \A i, j \in 1 .. Len(queue) : queue[i] = queue[j] => i = j
    BY <1>3 DEF OneOwner
  <1>5. Queued' = Queued \ {Head(queue)} /\ Head(queue) \in Queued
    <2>1. \A x \in Queued' : x \in Queued /\ x # Head(queue)
      <3> SUFFICES ASSUME NEW i \in 1 .. Len(queue')
                   PROVE  queue'[i] \in Queued /\ queue'[i] # Head(queue)
        BY <1>3 DEF Queued
      <3>1. i + 1 \in 1 .. Len(queue) /\ i + 1 # 1 /\ 1 \in 1 .. Len(queue)
        BY <1>2
      <3>2. queue'[i] = queue[i + 1]
        BY <1>2
      <3>3. queue[i + 1] # queue[1]
        BY <1>4, <3>1
      <3> QED BY <1>2, <1>3, <3>1, <3>2, <3>3 DEF Queued
    <2>2. \A x \in Queued : x # Head(queue) => x \in Queued'
      <3> SUFFICES ASSUME NEW i \in 1 .. Len(queue), queue[i] # queue[1] PROVE queue[i] \in Queued'
        BY <1>2, <1>3 DEF Queued
      <3>1. i - 1 \in 1 .. Len(queue') /\ queue'[i - 1] = queue[i]
        BY <1>2
      <3> QED BY <1>2, <1>3, <3>1 DEF Queued
    <2>3. Head(queue) \in Queued
      <3>1. 1 \in 1 .. Len(queue)
        BY <1>2
      <3> QED BY <1>2, <1>3, <3>1 DEF Queued
    <2> QED BY <2>1, <2>2, <2>3
  <1>6. \A i, j \in DOMAIN queue' : queue'[i] = queue'[j] => i = j
    <2> SUFFICES ASSUME NEW i \in 1 .. Len(queue'), NEW j \in 1 .. Len(queue'), queue'[i] = queue'[j]
                 PROVE  i = j
      BY <1>3
    <2>1. i + 1 \in 1 .. Len(queue) /\ j + 1 \in 1 .. Len(queue)
      BY <1>2
    <2>2. queue[i + 1] = queue[j + 1]
      BY <1>2
    <2>3. i + 1 = j + 1
      BY <1>4, <2>1, <2>2
    <2> QED BY <2>3
  <1>7. \A v \in Threads : item[v] # Head(queue)
    BY <1>2, <1>5, RequestAssumption DEF OneOwner
  <1>8. ItemWhenWorking'
    BY <1>1, <1>2, RequestAssumption
  <1>9. \A v \in Threads : item'[v] = IF v = w THEN Head(queue) ELSE item[v]
    BY <1>1
  <1>10. replies[Head(queue)] # 1 /\ Head(queue) # dispatched
    BY <1>2, <1>5 DEF OneOwner
  <1> QED BY <1>1, <1>2, <1>5, <1>6, <1>7, <1>8, <1>9, <1>10 DEF OneOwner

\* The worker answers what it holds, and holds nothing afterwards.
LEMMA WorkOwner ==
    ASSUME OwnerInv, NEW w \in Threads, Work(w)
    PROVE  ItemWhenWorking' /\ OneOwner'
  <1> USE DEF OwnerInv, TypeOK, ItemWhenWorking
  <1>1. /\ at[w] = "working" /\ item[w] \in Requests
        /\ item' = [item EXCEPT ![w] = NoRequest] /\ at' = [at EXCEPT ![w] = "loop"]
        /\ UNCHANGED <<queue, dispatched>>
    BY DEF Work
  <1>2. replies[item[w]] = 0
    BY <1>1 DEF OneOwner
  <1>3. \A q \in Requests : replies'[q] = IF q = item[w] THEN 1 ELSE replies[q]
    BY <1>1, <1>2 DEF Work, Reply
  <1>4. Queued' = Queued
    BY <1>1 DEF Queued
  <1>5. \A v \in Threads : item'[v] = IF v = w THEN NoRequest ELSE item[v]
    BY <1>1
  <1>6. item[w] \notin Queued \cup {dispatched} \cup {item'[v] : v \in Threads}
    BY <1>1, <1>5, RequestAssumption DEF OneOwner
  <1>7. ItemWhenWorking'
    BY <1>1
  <1> QED BY <1>1, <1>3, <1>4, <1>5, <1>6, <1>7, RequestAssumption DEF OneOwner

\* The destructor of the queue answers what is left in it.
LEMMA DeleteOwner ==
    ASSUME OwnerInv, Delete
    PROVE  ItemWhenWorking' /\ OneOwner'
  <1> USE DEF OwnerInv, TypeOK, ItemWhenWorking
  <1>1. queue' = <<>> /\ UNCHANGED <<at, item, dispatched>>
    BY DEF Delete
  <1>2. \A q \in Requests : replies'[q] = IF q \in Queued THEN replies[q] + 1 ELSE replies[q]
    BY DEF Delete, Reply
  <1>3. \A q \in Queued : q \in Requests /\ replies[q] = 0
    BY DEF Queued, OneOwner
  <1>4. \A q \in Queued : q \notin {dispatched} \cup {item[w] : w \in Threads}
    BY <1>3, RequestAssumption DEF OneOwner
  <1>5. Queued' = {} /\ DOMAIN queue' = {}
    BY <1>1 DEF Queued
  <1> QED BY <1>1, <1>2, <1>3, <1>4, <1>5 DEF OneOwner

\* The other steps move no request.
LEMMA QuietOwner ==
    ASSUME OwnerInv, UNCHANGED <<queue, item, dispatched, replies>>,
           \A w \in Threads : at'[w] = "working" <=> at[w] = "working"
    PROVE  ItemWhenWorking' /\ OneOwner'
  <1>1. Queued' = Queued
    BY DEF Queued
  <1> QED BY <1>1 DEF OwnerInv, ItemWhenWorking, OneOwner

\* A request has one owner until it is answered, and is answered once.
THEOREM OneOwnerAlways == Spec => []OneOwner
  <1>1. Init => OwnerInv
    BY InitType, InitOwner DEF OwnerInv
  <1>2. ExitInv /\ OwnerInv /\ [Next]_vars => OwnerInv'
    <2> SUFFICES ASSUME ExitInv, OwnerInv, [Next]_vars PROVE ItemWhenWorking' /\ OneOwner'
      BY NextType DEF OwnerInv
    <2>1. ASSUME NEW w \in Threads, Enter(w) \/ Loop(w) \/ Wait(w) \/ Break(w) \/ Leave(w)
          PROVE  ItemWhenWorking' /\ OneOwner'
      <3>1. /\ UNCHANGED <<queue, item, dispatched, replies>>
            /\ \A v \in Threads : at'[v] = "working" <=> at[v] = "working"
        BY <2>1 DEF Enter, Loop, Wait, Break, Leave, OwnerInv, TypeOK
      <3> QED BY <3>1, QuietOwner
    <2>2. ASSUME UNCHANGED <<queue, item, dispatched, replies, at>>
          PROVE  ItemWhenWorking' /\ OneOwner'
      BY <2>2, QuietOwner
    <2> QED
      BY <2>1, <2>2, DispatchOwner, EnqueueOwner, TakeOwner, WorkOwner, DeleteOwner
      DEF Next, Worker, SpuriousWakeup, SetReject, Interrupt, WaitExit, vars
  <1>3. OwnerInv => OneOwner
    BY DEF OwnerInv
  <1> QED BY <1>1, <1>2, <1>3, ExitInvariant, PTL DEF Spec
=============================================================================
