----------------------------- MODULE CheckQueue -----------------------------
(***************************************************************************)
(* CCheckQueue and CCheckQueueControl (checkqueue.h): the pool of threads  *)
(* that verifies the scripts of a block.  The thread that connects the     *)
(* block (the master) pushes checks and then joins the workers until every *)
(* check has completed.                                                    *)
(*                                                                         *)
(* One critical section of `mutex' is one action.  A batch is executed     *)
(* outside the mutex and touches nothing shared, so it is folded into the  *)
(* critical section that follows it (Clean).  The queue is a set: its      *)
(* order "doesn't matter" (checkqueue.h:43), so a batch is any subset of   *)
(* the right size.                                                         *)
(***************************************************************************)
EXTENDS Integers, FiniteSets

CONSTANTS
    Checks,     \* the script checks that can be handed over
    Failing,    \* those whose operator() returns false
    Workers,    \* the threads that run Thread()
    Master,     \* the thread that owns the CCheckQueueControl
    BatchSize   \* nBatchSize

ASSUME ChecksAssumption == IsFiniteSet(Checks) /\ Failing \subseteq Checks
ASSUME ThreadsAssumption == IsFiniteSet(Workers) /\ Master \notin Workers
ASSUME BatchAssumption == BatchSize \in Nat \ {0}

Threads == Workers \cup {Master}

VARIABLES
    queue,      \* checks not yet taken by a thread
    nTodo,      \* checks not yet completed, those in batches included
    nTotal,     \* threads inside Loop
    nIdle,      \* threads inside cond.wait
    fAllOk,     \* the temporary evaluation result
    pc,         \* where each thread is
    batch,      \* vChecks of each thread while it executes them
    ok,         \* its local fOk, read from fAllOk when the batch was taken
    added,      \* history: the checks handed over to the present control
    verdict     \* what the last Wait() returned

vars == <<queue, nTodo, nTotal, nIdle, fAllOk, pc, batch, ok, added, verdict>>

\* "out": a worker before Thread(), the master with no control open;
\* "open": the master between the control's constructor and Wait();
\* "exec": executing a batch; "wait": in cond.wait; "notified": woken, the
\* mutex not yet reacquired.
PC == {"out", "open", "exec", "wait", "notified"}

TypeOK ==
    /\ queue \in SUBSET Checks
    /\ nTodo \in Nat
    /\ nTotal \in Nat
    /\ nIdle \in Nat
    /\ fAllOk \in BOOLEAN
    /\ pc \in [Threads -> PC]
    /\ batch \in [Threads -> SUBSET Checks]
    /\ ok \in [Threads -> BOOLEAN]
    /\ added \in SUBSET Checks
    /\ verdict \in BOOLEAN
    /\ \A w \in Workers : pc[w] # "open"

Init ==
    /\ queue = {}
    /\ nTodo = 0
    /\ nTotal = 0
    /\ nIdle = 0
    /\ fAllOk = TRUE
    /\ pc = [t \in Threads |-> "out"]
    /\ batch = [t \in Threads |-> {}]
    /\ ok = [t \in Threads |-> TRUE]
    /\ added = {}
    /\ verdict = TRUE

-----------------------------------------------------------------------------
(* The body of Loop from "logically, the do loop starts here" on, entered  *)
(* with the mutex held and the given values of the shared variables.       *)

\* nNow: aim for smaller and smaller batches, never below 1 or above BatchSize
BatchLen(total, idle) ==
    LET share == Cardinality(queue) \div (total + idle + 1)
        capped == IF share < BatchSize THEN share ELSE BatchSize
    IN  IF capped > 1 THEN capped ELSE 1

Take(t, total, idle, allOk, p) ==
    /\ queue # {}
    /\ \E b \in SUBSET queue :
          /\ Cardinality(b) = BatchLen(total, idle)
          /\ batch' = [batch EXCEPT ![t] = b]
          /\ queue' = queue \ b
    /\ ok' = [ok EXCEPT ![t] = allOk]
    /\ pc' = [p EXCEPT ![t] = "exec"]
    /\ nTotal' = total
    /\ nIdle' = idle
    /\ fAllOk' = allOk
    /\ UNCHANGED <<added, verdict>>

\* (fMaster || fQuit) && nTodo == 0; nothing sets fQuit
MayReturnEarly(t, todo) == t = Master   \* mutant: batches are not waited for
MayReturn(t, todo) == t = Master /\ todo = 0

\* "reset the status for new work later"
NotReset(allOk) == allOk                \* mutant: the status is kept
Reset(allOk) == TRUE

Return(t, total, idle, todo, allOk, p) ==
    /\ queue = {} /\ MayReturn(t, todo)
    /\ verdict' = allOk
    /\ fAllOk' = Reset(allOk)
    /\ nTotal' = total - 1
    /\ nIdle' = idle
    /\ pc' = [p EXCEPT ![t] = "out"]
    /\ batch' = [batch EXCEPT ![t] = {}]
    /\ UNCHANGED <<queue, ok, added>>

\* mutant: a thread that waits is not counted as idle
BlockUncounted(t, total, idle, todo, allOk, p) ==
    /\ queue = {} /\ ~MayReturn(t, todo)
    /\ pc' = [p EXCEPT ![t] = "wait"]
    /\ nIdle' = idle /\ nTotal' = total /\ fAllOk' = allOk
    /\ batch' = [batch EXCEPT ![t] = {}]
    /\ UNCHANGED <<queue, ok, added, verdict>>

Block(t, total, idle, todo, allOk, p) ==
    /\ queue = {} /\ ~MayReturn(t, todo)
    /\ nIdle' = idle + 1
    /\ pc' = [p EXCEPT ![t] = "wait"]
    /\ nTotal' = total
    /\ fAllOk' = allOk
    /\ batch' = [batch EXCEPT ![t] = {}]
    /\ UNCHANGED <<queue, ok, added, verdict>>

LoopHead(t, total, idle, todo, allOk, p) ==
    /\ nTodo' = todo
    /\ \/ Take(t, total, idle, allOk, p)
       \/ Return(t, total, idle, todo, allOk, p)
       \/ Block(t, total, idle, todo, allOk, p)

-----------------------------------------------------------------------------
\* A worker starts Thread(), or the master calls Wait() (the control's
\* destructor calls it too when ConnectBlock returns early).
Enter(t) ==
    /\ pc[t] = IF t = Master THEN "open" ELSE "out"
    /\ LoopHead(t, nTotal + 1, nIdle, nTodo, fAllOk, pc)

\* mutant: the master is not told
NotifyNobody(t, todo) == pc

\* condMaster.notify_one(): the processed element was the last one
NotifyMaster(t, todo) ==
    IF todo = 0 /\ t # Master /\ pc[Master] = "wait"
    THEN [pc EXCEPT ![Master] = "notified"]
    ELSE pc

\* fOk after the batch: BOOST_FOREACH (check) if (fOk) fOk = check()
BatchSkipped(t) == ok[t]                \* mutant: results are thrown away
BatchOk(t) == ok[t] /\ batch[t] \cap Failing = {}

\* The batch is executed (not at all when a failure was known when it was
\* taken), then "the clean-up of the previous loop run" under the mutex.
Clean(t) ==
    /\ pc[t] = "exec"
    /\ LET todo == nTodo - Cardinality(batch[t])
       IN  LoopHead(t, nTotal, nIdle, todo, fAllOk /\ BatchOk(t), NotifyMaster(t, todo))

\* cond.wait returns with the mutex held
Wake(t) ==
    /\ pc[t] = "notified"
    /\ LoopHead(t, nTotal, nIdle - 1, nTodo, fAllOk, pc)

\* cond.wait may return without a notification
SpuriousWakeup(t) ==
    /\ pc[t] = "wait"
    /\ pc' = [pc EXCEPT ![t] = "notified"]
    /\ UNCHANGED <<queue, nTodo, nTotal, nIdle, fAllOk, batch, ok, added, verdict>>

\* CCheckQueueControl's constructor: it asserts IsIdle (see AssertIdle)
Open ==
    /\ pc[Master] = "out"
    /\ pc' = [pc EXCEPT ![Master] = "open"]
    /\ added' = {}
    /\ UNCHANGED <<queue, nTodo, nTotal, nIdle, fAllOk, batch, ok, verdict>>

Waiting == {w \in Workers : pc[w] = "wait"}

\* condWorker: nobody for an empty vector, one waiter for one check, all else
Notified(S) ==
    IF S = {} \/ Waiting = {} THEN {{}}
    ELSE IF Cardinality(S) = 1 THEN {{w} : w \in Waiting}
    ELSE {Waiting}

Add(S) ==
    /\ pc[Master] = "open"
    /\ queue' = queue \cup S
    /\ nTodo' = nTodo + Cardinality(S)
    /\ \E N \in Notified(S) :
          pc' = [t \in Threads |-> IF t \in N THEN "notified" ELSE pc[t]]
    /\ added' = added \cup S
    /\ UNCHANGED <<nTotal, nIdle, fAllOk, batch, ok, verdict>>

LoopStep(t) == Enter(t) \/ Clean(t) \/ Wake(t)

Next ==
    \/ Open
    \/ \E S \in SUBSET (Checks \ added) : Add(S)
    \/ \E t \in Threads : LoopStep(t) \/ SpuriousWakeup(t)

\* Threads inside the queue's code are scheduled and get the mutex in the end;
\* the control's owner reaches Wait() (at the latest from the destructor).
\* Nothing says that a worker ever starts, nor that a block is connected.
Fairness ==
    /\ WF_vars(LoopStep(Master))
    /\ \A w \in Workers : WF_vars(Clean(w) \/ Wake(w))

Spec == Init /\ [][Next]_vars /\ Fairness

-----------------------------------------------------------------------------
Taken == UNION {batch[t] : t \in Threads}

\* No check outlives its control: once Wait() has returned, no worker holds a
\* check (the scripts point into the block and the coins cache of the caller).
NoCheckOutlives == pc[Master] = "out" => queue = {} /\ Taken = {}

\* IsIdle(): what CCheckQueueControl's constructor asserts (checkqueue.h:188)
IsIdle == nTotal = nIdle /\ nTodo = 0 /\ fAllOk
AssertIdle == pc[Master] = "out" => IsIdle

\* Every Wait() returns, even if no worker ever starts.
WaitReturns == (pc[Master] # "out") ~> (pc[Master] = "out")

\* The queue does what ScriptVerdict says: Wait() is true exactly when all the
\* checks handed over to this control pass, whichever threads ran them and
\* although a batch taken after a failure is skipped.
Abstract == INSTANCE ScriptVerdict WITH
    phase <- IF pc[Master] = "out" THEN "closed" ELSE "open"
ImplementsVerdict == Abstract!Spec
=============================================================================
