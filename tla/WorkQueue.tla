------------------------------ MODULE WorkQueue ------------------------------
(***************************************************************************)
(* The queue of the HTTP server (httpserver.cpp): the event thread enters  *)
(* requests, worker threads take them, and the shutdown thread interrupts  *)
(* the queue, waits for the workers and deletes it.                        *)
(*                                                                         *)
(* One step is one critical section of cs, or what a thread does between   *)
(* two of them.  A wait on cond ends with a notification or spuriously.    *)
(* A request is answered when WriteReply is called for it.  What a thread  *)
(* does with a queue that has been deleted is undefined and not modelled:  *)
(* such a thread makes no step.                                            *)
(***************************************************************************)
EXTENDS Integers, Sequences, FiniteSets

CONSTANTS
    Threads,        \* worker threads, -rpcthreads of them
    Requests,
    MaxDepth,       \* maxDepth, -rpcworkqueue
    Stopper,        \* the thread that shuts the server down
    NoRequest

ASSUME ThreadsAssumption == IsFiniteSet(Threads) /\ Stopper \notin Threads
ASSUME DepthAssumption == MaxDepth \in Nat \ {0}
ASSUME RequestAssumption == NoRequest \notin Requests

VARIABLES
    queue,          \* queue, the requests of its items
    running,        \* running
    numThreads,     \* numThreads
    waiting,        \* the threads that sleep on cond
    at,             \* where a worker is in Run
    item,           \* the item a worker has taken
    dispatched,     \* the request that http_request_cb is about to enqueue
    rejecting,      \* the callback is http_reject_request_cb
    stop,           \* where the shutdown is
    replies         \* how often each request has been answered

vars == <<queue, running, numThreads, waiting, at, item, dispatched, rejecting, stop, replies>>

Exists == stop # "deleted"
Awake(t) == t \notin waiting
Inside == {w \in Threads : at[w] \in {"loop", "locking", "working", "leaving"}}

Reply(S) == replies' = [r \in Requests |-> IF r \in S THEN replies[r] + 1 ELSE replies[r]]
Queued == {queue[i] : i \in DOMAIN queue}

\* cond.notify_one; a waiter is any thread that sleeps on cond, the stopper too
NotifyOne ==
    IF waiting = {} THEN waiting' = waiting ELSE \E t \in waiting : waiting' = waiting \ {t}
\* cond.notify_all
NotifyAll == waiting' = {}

Init ==
    /\ queue = <<>>
    /\ running = TRUE
    /\ numThreads = 0
    /\ waiting = {}
    /\ at = [w \in Threads |-> "created"]
    /\ item = [w \in Threads |-> NoRequest]
    /\ dispatched = NoRequest
    /\ rejecting = FALSE
    /\ stop = "no"
    /\ replies = [r \in Requests |-> 0]

-----------------------------------------------------------------------------
(* The event thread                                                        *)

New(r) == replies[r] = 0 /\ r \notin Queued /\ r # dispatched /\ \A w \in Threads : item[w] # r

\* A request comes in, and http_request_cb finds a handler for it
Dispatch(r) ==
    /\ New(r) /\ dispatched = NoRequest
    /\ ~rejecting
    /\ dispatched' = r
    /\ UNCHANGED <<queue, running, numThreads, waiting, at, item, rejecting, stop, replies>>

Reject(r) ==
    /\ New(r) /\ dispatched = NoRequest
    /\ rejecting
    /\ Reply({r})
    /\ UNCHANGED <<queue, running, numThreads, waiting, at, item, dispatched, rejecting, stop>>

\* mutant: nobody is told
EnqueueSilent ==
    /\ Exists /\ dispatched # NoRequest
    /\ dispatched' = NoRequest
    /\ IF Len(queue) >= MaxDepth
       THEN Reply({dispatched}) /\ UNCHANGED <<queue, waiting>>
       ELSE queue' = Append(queue, dispatched) /\ UNCHANGED <<replies, waiting>>
    /\ UNCHANGED <<running, numThreads, at, item, rejecting, stop>>

\* Enqueue, which does not look at running
Enqueue ==
    /\ Exists /\ dispatched # NoRequest
    /\ dispatched' = NoRequest
    /\ IF Len(queue) >= MaxDepth
       THEN Reply({dispatched}) /\ UNCHANGED <<queue, waiting>>
       ELSE queue' = Append(queue, dispatched) /\ NotifyOne /\ UNCHANGED replies
    /\ UNCHANGED <<running, numThreads, at, item, rejecting, stop>>

-----------------------------------------------------------------------------
(* A worker: Run and its ThreadCounter                                     *)

\* mutant: the thread does not count itself
EnterUncounted(w) ==
    /\ Exists /\ at[w] = "created"
    /\ at' = [at EXCEPT ![w] = "loop"]
    /\ UNCHANGED <<queue, running, numThreads, waiting, item, dispatched, rejecting, stop, replies>>

Enter(w) ==
    /\ Exists /\ at[w] = "created"
    /\ numThreads' = numThreads + 1
    /\ at' = [at EXCEPT ![w] = "loop"]
    /\ UNCHANGED <<queue, running, waiting, item, dispatched, rejecting, stop, replies>>

\* while (running): read without the lock, so that FALSE may be seen late
Loop(w) ==
    /\ Exists /\ at[w] = "loop"
    /\ \E seen \in {TRUE, running} : at' = [at EXCEPT ![w] = IF seen THEN "locking" ELSE "leaving"]
    /\ UNCHANGED <<queue, running, numThreads, waiting, item, dispatched, rejecting, stop, replies>>

Wait(w) ==
    /\ Exists /\ at[w] = "locking" /\ Awake(w)
    /\ running /\ queue = <<>>
    /\ waiting' = waiting \cup {w}
    /\ UNCHANGED <<queue, running, numThreads, at, item, dispatched, rejecting, stop, replies>>

Break(w) ==
    /\ Exists /\ at[w] = "locking" /\ Awake(w)
    /\ ~running
    /\ at' = [at EXCEPT ![w] = "leaving"]
    /\ UNCHANGED <<queue, running, numThreads, waiting, item, dispatched, rejecting, stop, replies>>

\* mutant: the item stays at the front
TakeCopy(w) ==
    /\ Exists /\ at[w] = "locking" /\ Awake(w)
    /\ running /\ queue # <<>>
    /\ item' = [item EXCEPT ![w] = Head(queue)]
    /\ at' = [at EXCEPT ![w] = "working"]
    /\ UNCHANGED <<queue, running, numThreads, waiting, dispatched, rejecting, stop, replies>>

Take(w) ==
    /\ Exists /\ at[w] = "locking" /\ Awake(w)
    /\ running /\ queue # <<>>
    /\ item' = [item EXCEPT ![w] = Head(queue)]
    /\ queue' = Tail(queue)
    /\ at' = [at EXCEPT ![w] = "working"]
    /\ UNCHANGED <<running, numThreads, waiting, dispatched, rejecting, stop, replies>>

\* The handler answers the request, or the destructor of HTTPRequest does
Work(w) ==
    /\ at[w] = "working"
    /\ Reply({item[w]})
    /\ item' = [item EXCEPT ![w] = NoRequest]
    /\ at' = [at EXCEPT ![w] = "loop"]
    /\ UNCHANGED <<queue, running, numThreads, waiting, dispatched, rejecting, stop>>

\* mutant: the last to leave does not say so
LeaveSilent(w) ==
    /\ Exists /\ at[w] = "leaving"
    /\ numThreads' = numThreads - 1
    /\ at' = [at EXCEPT ![w] = "gone"]
    /\ UNCHANGED <<queue, running, waiting, item, dispatched, rejecting, stop, replies>>

Leave(w) ==
    /\ Exists /\ at[w] = "leaving"
    /\ numThreads' = numThreads - 1
    /\ NotifyAll
    /\ at' = [at EXCEPT ![w] = "gone"]
    /\ UNCHANGED <<queue, running, item, dispatched, rejecting, stop, replies>>

SpuriousWakeup(t) ==
    /\ t \in waiting
    /\ waiting' = waiting \ {t}
    /\ UNCHANGED <<queue, running, numThreads, at, item, dispatched, rejecting, stop, replies>>

-----------------------------------------------------------------------------
(* The shutdown: InterruptHTTPServer and StopHTTPServer                    *)

SetReject ==
    /\ stop = "no"
    /\ stop' = "rejecting"
    /\ rejecting' = TRUE
    /\ UNCHANGED <<queue, running, numThreads, waiting, at, item, dispatched, replies>>

Interrupt ==
    /\ stop = "rejecting"
    /\ stop' = "interrupted"
    /\ running' = FALSE
    /\ NotifyAll
    /\ UNCHANGED <<queue, numThreads, at, item, dispatched, rejecting, replies>>

\* mutant: the number of threads is looked at once
WaitExitOnce ==
    /\ stop = "interrupted" /\ Awake(Stopper)
    /\ stop' = "exited"
    /\ UNCHANGED <<queue, running, numThreads, waiting, at, item, dispatched, rejecting, replies>>

WaitExit ==
    /\ stop = "interrupted" /\ Awake(Stopper)
    /\ IF numThreads > 0
       THEN waiting' = waiting \cup {Stopper} /\ UNCHANGED stop
       ELSE stop' = "exited" /\ UNCHANGED waiting
    /\ UNCHANGED <<queue, running, numThreads, at, item, dispatched, rejecting, replies>>

\* delete workQueue: the requests left in it are answered by their destructors
Delete ==
    /\ stop = "exited"
    /\ stop' = "deleted"
    /\ Reply(Queued)
    /\ queue' = <<>>
    /\ UNCHANGED <<running, numThreads, waiting, at, item, dispatched, rejecting>>

Worker(w) ==
    Enter(w) \/ Loop(w) \/ Wait(w) \/ Break(w) \/ Take(w) \/ Work(w) \/ Leave(w)

Next ==
    \/ \E r \in Requests : Dispatch(r) \/ Reject(r)
    \/ Enqueue
    \/ \E w \in Threads : Worker(w)
    \/ \E t \in Threads \cup {Stopper} : SpuriousWakeup(t)
    \/ SetReject \/ Interrupt \/ WaitExit \/ Delete

\* Threads that can run do, and handlers return; a shutdown that has begun goes
\* on.  Nobody has to send a request, to shut down or to wake up for nothing.
Fairness ==
    /\ WF_vars(Enqueue)
    /\ \A w \in Threads : WF_vars(Worker(w))
    /\ WF_vars(Interrupt) /\ WF_vars(WaitExit) /\ WF_vars(Delete)

Spec == Init /\ [][Next]_vars /\ Fairness

-----------------------------------------------------------------------------

TypeOK ==
    /\ queue \in Seq(Requests)
    /\ running \in BOOLEAN
    /\ numThreads \in Nat
    /\ waiting \subseteq Threads \cup {Stopper}
    /\ at \in [Threads -> {"created", "loop", "locking", "working", "leaving", "gone"}]
    /\ item \in [Threads -> Requests \cup {NoRequest}]
    /\ dispatched \in Requests \cup {NoRequest}
    /\ rejecting \in BOOLEAN
    /\ stop \in {"no", "rejecting", "interrupted", "exited", "deleted"}
    /\ replies \in [Requests -> Nat]

\* A request is answered once at most, and is in one place until then: in the
\* event thread, once in the queue, or with one worker ("if true, queue took
\* ownership").  A second WriteReply would fail its assertion.
OneOwner ==
    /\ \A i, j \in DOMAIN queue : queue[i] = queue[j] => i = j
    /\ \A v, w \in Threads : item[v] # NoRequest /\ item[v] = item[w] => v = w
    /\ \A w \in Threads : item[w] # NoRequest => item[w] \notin Queued \cup {dispatched}
    /\ dispatched \notin Queued
    /\ \A r \in Requests : replies[r] <= 1
    /\ \A r \in Requests : replies[r] = 1 =>
           r \notin Queued \cup {dispatched} \cup {item[w] : w \in Threads}

\* "Precondition: worker threads have all stopped (call WaitExit)": WaitExit
\* returns only when every worker that has entered Run is out of it, whatever
\* woke it up.  A thread that has not come to count itself yet is not waited
\* for, and may still enter before the queue is deleted, or try to afterwards.
ExitWhenStopped == [][stop' = "exited" /\ stop # "exited" => Inside = {}]_vars

\* Every request that enters the queue is answered, by a worker or by the
\* shutdown, and none is forgotten because a notification woke somebody else.
QueuedAnswered == \A r \in Requests : (r \in Queued) ~> (replies[r] > 0)

\* A shutdown ends: the last worker to leave wakes the thread in WaitExit.
ShutdownEnds == (stop # "no") ~> (stop = "deleted")
=============================================================================
