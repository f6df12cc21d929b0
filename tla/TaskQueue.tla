------------------------------ MODULE TaskQueue ------------------------------
(***************************************************************************)
(* The task queue of async_workers/task_queue.py: a TaskQueue shared by     *)
(* RetryWorker threads, the delayed_requeue threads they spawn, the body    *)
(* threads that a timeout abandons, and the TaskResultBackend the clients   *)
(* poll.                                                                    *)
(*                                                                          *)
(* One action is one critical section or one thread-local stretch of        *)
(* _run_loop between two points where another thread may observe it.        *)
(* Priorities and creation times are constants of a task; delays, results,  *)
(* error texts and timestamps are abstracted away: a delay or a timeout may *)
(* elapse at any moment.                                                    *)
(***************************************************************************)
EXTENDS Naturals, FiniteSets

CONSTANTS
  Tasks,        \* the Task objects clients may enqueue
  Workers,      \* the RetryWorkers sharing the queue
  Stoppable,    \* the workers stop() may be called on
  MaxRetries,   \* Task.max_retries
  HasTimeout,   \* whether Task.timeout is set
  Priority,     \* Task.priority, lower is served first
  CreatedAt,    \* Task.created_at
  NoTask        \* what dequeue returns on a timeout (None)

ASSUME TasksAssumption ==
  /\ IsFiniteSet(Tasks)
  /\ NoTask \notin Tasks
  /\ MaxRetries \in [Tasks -> Nat]
  /\ HasTimeout \in [Tasks -> BOOLEAN]
  /\ Priority \in [Tasks -> Nat]
  /\ CreatedAt \in [Tasks -> Nat]

ASSUME WorkersAssumption ==
  /\ IsFiniteSet(Workers)
  /\ Stoppable \subseteq Workers

VARIABLES
  unsubmitted,    \* tasks no client has enqueued yet
  status,         \* Task.status
  retry_count,    \* Task.retry_count
  heap,           \* TaskQueue._heap
  revoked,        \* TaskQueue._revoked
  total_enqueued, \* TaskQueue.total_enqueued
  total_dequeued, \* TaskQueue.total_dequeued
  running,        \* RetryWorker._running
  pc,             \* where each worker thread stands in _run_loop
  current,        \* the local variable `task` of _run_loop
  processed,      \* RetryWorker.processed
  retried,        \* RetryWorker.retried
  failed,         \* RetryWorker.failed_permanently
  delayed,        \* tasks a delayed_requeue thread sleeps on
  zombies,        \* body threads a timeout left running, per task
  record          \* TaskResultBackend._store; "expired" is a deleted entry

clientVars  == <<unsubmitted, revoked>>
counterVars == <<processed, retried, failed>>
queueVars   == <<heap, total_enqueued, total_dequeued>>
vars == <<unsubmitted, status, retry_count, heap, revoked, total_enqueued,
          total_dequeued, running, pc, current, processed, retried, failed,
          delayed, zombies, record>>

TaskStatus == {"PENDING", "RUNNING", "SUCCESS", "FAILED", "RETRYING", "REVOKED"}
WorkerPC   == {"stopped", "loop", "waiting", "woken", "claimed", "executing",
               "storing"}
Holding    == {"claimed", "executing", "storing"}
Records    == {"none", "SUCCESS", "FAILED", "expired"}

Init ==
  /\ unsubmitted = Tasks
  /\ status = [t \in Tasks |-> "PENDING"]
  /\ retry_count = [t \in Tasks |-> 0]
  /\ heap = {}
  /\ revoked = {}
  /\ total_enqueued = 0
  /\ total_dequeued = 0
  /\ running = [w \in Workers |-> FALSE]
  /\ pc = [w \in Workers |-> "stopped"]
  /\ current = [w \in Workers |-> NoTask]
  /\ processed = [w \in Workers |-> 0]
  /\ retried = [w \in Workers |-> 0]
  /\ failed = [w \in Workers |-> 0]
  /\ delayed = {}
  /\ zombies = [t \in Tasks |-> 0]
  /\ record = [t \in Tasks |-> "none"]

-----------------------------------------------------------------------------
(* TaskQueue *)

\* The threads blocked in Condition.wait.
Waiters == {w \in Workers : pc[w] = "waiting"}
\* The threads notify() has released and that still have to take the lock.
Woken == {w \in Workers : pc[w] = "woken"}

\* Heap order on (priority, created_at).
Before(s, t) ==
  \/ Priority[s] < Priority[t]
  \/ Priority[s] = Priority[t] /\ CreatedAt[s] < CreatedAt[t]

\* Mutant: enqueue forgets notify().
NotifyNobody == UNCHANGED pc

\* Condition.notify wakes one waiter if there is one.
Notify ==
  \/ Waiters = {} /\ UNCHANGED pc
  \/ \E w \in Waiters : pc' = [pc EXCEPT ![w] = "woken"]

Enqueue(t) ==
  /\ heap' = heap \cup {t}
  /\ total_enqueued' = total_enqueued + 1
  /\ Notify
  /\ UNCHANGED total_dequeued

Submit(t) ==
  /\ t \in unsubmitted
  /\ unsubmitted' = unsubmitted \ {t}
  /\ Enqueue(t)
  /\ UNCHANGED <<status, retry_count, revoked, running, current, counterVars,
                 delayed, zombies, record>>

Revoke(t) ==
  /\ t \notin revoked
  /\ revoked' = revoked \cup {t}
  /\ UNCHANGED <<unsubmitted, status, retry_count, queueVars, running, pc,
                 current, counterVars, delayed, zombies, record>>

\* A thread inside dequeue, about to test the heap with the lock held.
AtDequeue(w) ==
  \/ pc[w] = "loop" /\ running[w]
  \/ pc[w] \in {"waiting", "woken"}

\* Mutant: total_dequeued counts calls of dequeue, not tasks.
PopCountingCalls(popped) ==
  /\ heap' = heap \ popped
  /\ total_dequeued' = total_dequeued + 1
  /\ status' = [t \in Tasks |->
                  IF t \in popped \cap revoked THEN "REVOKED" ELSE status[t]]
  /\ UNCHANGED <<unsubmitted, retry_count, revoked, total_enqueued, running,
                 counterVars, delayed, zombies, record>>

\* Pop the tasks of `popped`; the revoked ones among them are dropped.
PopAll(popped) ==
  /\ heap' = heap \ popped
  /\ total_dequeued' = total_dequeued + Cardinality(popped)
  /\ status' = [t \in Tasks |->
                  IF t \in popped \cap revoked THEN "REVOKED" ELSE status[t]]
  /\ UNCHANGED <<unsubmitted, retry_count, revoked, total_enqueued, running,
                 counterVars, delayed, zombies, record>>

\* dequeue returns t, having skipped every revoked task in front of it.
Take(w, t) ==
  /\ AtDequeue(w)
  /\ t \in heap \ revoked
  /\ \A u \in heap \ revoked : u = t \/ Before(t, u)
  /\ PopAll({u \in heap : u = t \/ (u \in revoked /\ Before(u, t))})
  /\ pc' = [pc EXCEPT ![w] = "claimed"]
  /\ current' = [current EXCEPT ![w] = t]

\* dequeue pops nothing but revoked tasks and returns None.
DropRevoked(w) ==
  /\ AtDequeue(w)
  /\ heap # {}
  /\ heap \subseteq revoked
  /\ PopAll(heap)
  /\ pc' = [pc EXCEPT ![w] = "loop"]
  /\ UNCHANGED current

\* The heap is empty: wait, wait again after a wake-up that came too late,
\* or give up at the deadline.
WaitOrGiveUp(w) ==
  /\ AtDequeue(w)
  /\ heap = {}
  /\ \/ pc[w] \in {"loop", "woken"} /\ pc' = [pc EXCEPT ![w] = "waiting"]
     \/ pc[w] \in {"waiting", "woken"} /\ pc' = [pc EXCEPT ![w] = "loop"]
  /\ UNCHANGED <<clientVars, status, retry_count, queueVars, running, current,
                 counterVars, delayed, zombies, record>>

-----------------------------------------------------------------------------
(* RetryWorker *)

Start(w) ==
  /\ pc[w] = "stopped"
  /\ running' = [running EXCEPT ![w] = TRUE]
  /\ pc' = [pc EXCEPT ![w] = "loop"]
  /\ UNCHANGED <<clientVars, status, retry_count, queueVars, current,
                 counterVars, delayed, zombies, record>>

Stop(w) ==
  /\ w \in Stoppable
  /\ running[w]
  /\ running' = [running EXCEPT ![w] = FALSE]
  /\ UNCHANGED <<clientVars, status, retry_count, queueVars, pc, current,
                 counterVars, delayed, zombies, record>>

\* Mutant: _running is tested once more after dequeue has returned a task.
ExitWithTask(w) ==
  /\ pc[w] \in {"loop", "claimed"}
  /\ ~running[w]
  /\ pc' = [pc EXCEPT ![w] = "stopped"]
  /\ current' = [current EXCEPT ![w] = NoTask]
  /\ UNCHANGED <<clientVars, status, retry_count, queueVars, running,
                 counterVars, delayed, zombies, record>>

\* The loop condition is tested between two tasks only.
Exit(w) ==
  /\ pc[w] = "loop"
  /\ ~running[w]
  /\ pc' = [pc EXCEPT ![w] = "stopped"]
  /\ UNCHANGED <<clientVars, status, retry_count, queueVars, running, current,
                 counterVars, delayed, zombies, record>>

\* dequeue never returns a task whose status is REVOKED, so the test after it
\* always falls through to the execution.
Begin(w) ==
  /\ pc[w] = "claimed"
  /\ pc' = [pc EXCEPT ![w] = "executing"]
  /\ status' = [status EXCEPT ![current[w]] = "RUNNING"]
  /\ UNCHANGED <<clientVars, retry_count, queueVars, running, current,
                 counterVars, delayed, zombies, record>>

Succeed(w) ==
  /\ pc[w] = "executing"
  /\ status' = [status EXCEPT ![current[w]] = "SUCCESS"]
  /\ processed' = [processed EXCEPT ![w] = @ + 1]
  /\ pc' = [pc EXCEPT ![w] = "storing"]
  /\ UNCHANGED <<clientVars, retry_count, queueVars, running, current, retried,
                 failed, delayed, zombies, record>>

\* Mutant: one retry too many.
CanRetryOnceMore(t) == retry_count[t] <= MaxRetries[t]

CanRetry(t) == retry_count[t] < MaxRetries[t]

\* The except branch with retries left: hand the task to a delayed_requeue
\* thread.
ScheduleRetry(w) ==
  LET t == current[w] IN
  /\ CanRetry(t)
  /\ retry_count' = [retry_count EXCEPT ![t] = @ + 1]
  /\ status' = [status EXCEPT ![t] = "RETRYING"]
  /\ retried' = [retried EXCEPT ![w] = @ + 1]
  /\ delayed' = delayed \cup {t}
  /\ pc' = [pc EXCEPT ![w] = "loop"]
  /\ current' = [current EXCEPT ![w] = NoTask]
  /\ UNCHANGED failed

\* The except branch with none left.
FailPermanently(w) ==
  LET t == current[w] IN
  /\ ~CanRetry(t)
  /\ status' = [status EXCEPT ![t] = "FAILED"]
  /\ failed' = [failed EXCEPT ![w] = @ + 1]
  /\ pc' = [pc EXCEPT ![w] = "storing"]
  /\ UNCHANGED <<retry_count, retried, delayed, current>>

HandleFailure(w) == ScheduleRetry(w) \/ FailPermanently(w)

\* task.func raised.
Fail(w) ==
  /\ pc[w] = "executing"
  /\ HandleFailure(w)
  /\ UNCHANGED <<clientVars, queueVars, running, processed, zombies, record>>

\* _execute gives up on join() and raises TimeoutError; the body goes on.
TimeOut(w) ==
  /\ pc[w] = "executing"
  /\ HasTimeout[current[w]]
  /\ zombies' = [zombies EXCEPT ![current[w]] = @ + 1]
  /\ HandleFailure(w)
  /\ UNCHANGED <<clientVars, queueVars, running, processed, record>>

ZombieEnds(t) ==
  /\ zombies[t] > 0
  /\ zombies' = [zombies EXCEPT ![t] = @ - 1]
  /\ UNCHANGED <<clientVars, status, retry_count, queueVars, running, pc,
                 current, counterVars, delayed, record>>

\* delayed_requeue after its sleep.
Requeue(t) ==
  /\ t \in delayed
  /\ delayed' = delayed \ {t}
  /\ status' = [status EXCEPT ![t] = "PENDING"]
  /\ Enqueue(t)
  /\ UNCHANGED <<clientVars, retry_count, running, current, counterVars,
                 zombies, record>>

-----------------------------------------------------------------------------
(* TaskResultBackend *)

\* backend.store with the status the worker has just given the task.
StoreResult(w) ==
  /\ pc[w] = "storing"
  /\ record' = [record EXCEPT ![current[w]] = status[current[w]]]
  /\ pc' = [pc EXCEPT ![w] = "loop"]
  /\ current' = [current EXCEPT ![w] = NoTask]
  /\ UNCHANGED <<clientVars, status, retry_count, queueVars, running,
                 counterVars, delayed, zombies>>

\* A client's get finds the entry past its TTL and deletes it.
GetExpired(t) ==
  /\ record[t] \in {"SUCCESS", "FAILED"}
  /\ record' = [record EXCEPT ![t] = "expired"]
  /\ UNCHANGED <<clientVars, status, retry_count, queueVars, running, pc,
                 current, counterVars, delayed, zombies>>

-----------------------------------------------------------------------------
Dequeue(w) == (\E t \in Tasks : Take(w, t)) \/ DropRevoked(w) \/ WaitOrGiveUp(w)

RunLoop(w) ==
  \/ Dequeue(w) \/ Exit(w) \/ Begin(w)
  \/ Succeed(w) \/ Fail(w) \/ TimeOut(w) \/ StoreResult(w)

Next ==
  \/ \E t \in Tasks :
       Submit(t) \/ Revoke(t) \/ ZombieEnds(t) \/ Requeue(t) \/ GetExpired(t)
  \/ \E w \in Workers : Start(w) \/ Stop(w) \/ RunLoop(w)

Spec == Init /\ [][Next]_vars

\* Threads are scheduled, a body returns or is timed out, a delay elapses, and
\* a worker that is never stopped is started. Nobody has to submit, revoke or
\* stop anything.
Fairness ==
  /\ \A w \in Workers : WF_vars(RunLoop(w))
  /\ \A w \in Workers \ Stoppable : WF_vars(Start(w))
  /\ \A t \in Tasks : WF_vars(Requeue(t))

FairSpec == Spec /\ Fairness
-----------------------------------------------------------------------------
(* Properties *)

TypeOK ==
  /\ unsubmitted \in SUBSET Tasks
  /\ status \in [Tasks -> TaskStatus]
  /\ retry_count \in [Tasks -> Nat]
  /\ heap \in SUBSET Tasks
  /\ revoked \in SUBSET Tasks
  /\ total_enqueued \in Nat
  /\ total_dequeued \in Nat
  /\ running \in [Workers -> BOOLEAN]
  /\ pc \in [Workers -> WorkerPC]
  /\ current \in [Workers -> Tasks \cup {NoTask}]
  /\ processed \in [Workers -> Nat]
  /\ retried \in [Workers -> Nat]
  /\ failed \in [Workers -> Nat]
  /\ delayed \in SUBSET Tasks
  /\ zombies \in [Tasks -> Nat]
  /\ record \in [Tasks -> Records]

Holds(w, t) == pc[w] \in Holding /\ current[w] = t
Held(t)     == \E w \in Workers : Holds(w, t)
Terminal    == {"SUCCESS", "FAILED", "REVOKED"}

\* A task is with its client, in the heap, asleep before a retry, in the hands
\* of exactly one worker, or finished.
NoTwoOwners ==
  /\ \A v, w \in Workers, t \in Tasks : Holds(v, t) /\ Holds(w, t) => v = w
  /\ \A t \in Tasks :
       /\ t \in heap => t \notin unsubmitted \cup delayed /\ ~Held(t)
       /\ t \in delayed => t \notin unsubmitted /\ ~Held(t)
       /\ t \in unsubmitted => ~Held(t)

NothingLost ==
  \A t \in Tasks :
    (t \notin unsubmitted \cup heap \cup delayed /\ ~Held(t))
      => status[t] \in Terminal

\* Ownership of a task is handed on and never shared or dropped: enqueue,
\* dequeue, _run_loop and delayed_requeue leave it with exactly one of them,
\* and a task none of them has is finished.
OneOwner == NoTwoOwners /\ NothingLost

\* No wake-up is lost: while a thread sleeps in Condition.wait, every task in
\* the heap has a notified thread that will look at it.
NoLostWakeup == Waiters # {} => Cardinality(heap) <= Cardinality(Woken)

\* What a client reads from the backend is the verdict on the task: a live
\* record agrees with the status the task still has.
RecordAgrees ==
  \A t \in Tasks : record[t] \in {"SUCCESS", "FAILED"} => status[t] = record[t]

\* What the lock, the condition and the hand-overs between threads are for.
QueueSafe == TypeOK /\ OneOwner /\ NoLostWakeup /\ RecordAgrees

\* The executions of t's function going on at this moment, abandoned included.
Bodies(t) ==
  zombies[t] + Cardinality({w \in Workers : pc[w] = "executing" /\ current[w] = t})

\* A revoked task that no worker has in hand is never taken up by one, however
\* it got there: from the heap, from a client, or from a retry delay.
RevokedStaysOut ==
  [][\A t \in Tasks : t \in revoked /\ ~Held(t) => ~Held(t)']_vars

\* The abstract lifecycle, seen through the fields of the task.
Verdict == [t \in Tasks |-> IF status[t] \in Terminal THEN status[t] ELSE "none"]
Attempting == {t \in Tasks : status[t] = "RUNNING"}
Attempts ==
  [t \in Tasks |-> retry_count[t]
     + IF status[t] \in {"RUNNING", "SUCCESS", "FAILED"} THEN 1 ELSE 0]

Lifecycle == INSTANCE TaskLifecycle
  WITH attempts <- Attempts, attempting <- Attempting, verdict <- Verdict

\* Workers, retries, timeouts and revocations together implement the lifecycle:
\* at most max_retries + 1 attempts, FAILED only after the last, verdicts final.
ImplementsLifecycle == Lifecycle!Spec

\* What becomes of a task, step by step, and of a revoked one.
LifecycleKept == RevokedStaysOut /\ ImplementsLifecycle

\* Every submitted task comes to a verdict its client can see or is dropped as
\* revoked, whatever the retries and the timeouts.
EverySubmissionSettles ==
  \A t \in Tasks :
    t \notin unsubmitted ~> record[t] # "none" \/ status[t] = "REVOKED"

\* Task.timeout is the "max seconds to run before forceful termination": the
\* function of one task is never running twice.
OneBodyPerTask == \A t \in Tasks : Bodies(t) <= 1
=============================================================================
