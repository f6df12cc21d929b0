--------------------------- MODULE TaskQueueProof ---------------------------
(***************************************************************************)
(* Theorems about TaskQueue for every set of tasks and workers, every       *)
(* retry limit and every priority.                                          *)
(***************************************************************************)
EXTENDS MCTaskQueue, FiniteSetTheorems, TLAPS

-----------------------------------------------------------------------------
(* The inductive invariant: where a task is determines what its status says *)

\* A worker has a task in hand exactly between dequeue and the end of the
\* iteration, and the task's status follows the worker's progress.
InHand ==
  \A w \in Workers :
    /\ current[w] \in Tasks <=> pc[w] \in Holding
    /\ pc[w] = "claimed" => status[current[w]] = "PENDING"
    /\ pc[w] = "executing" => status[current[w]] = "RUNNING"
    /\ pc[w] = "storing" => status[current[w]] \in {"SUCCESS", "FAILED"}

\* A task no worker has in hand waits for its turn or for its delay.
AtRest ==
  \A t \in Tasks :
    /\ t \in heap \cup unsubmitted => status[t] = "PENDING"
    /\ t \in delayed => status[t] = "RETRYING"

\* Only as long as a worker executes it is a task RUNNING.
RunByWorker ==
  \A t \in Tasks :
    status[t] = "RUNNING" => \E w \in Workers : pc[w] = "executing" /\ current[w] = t

\* The retry counter respects max_retries and is used up before giving up.
RetryBudget ==
  \A t \in Tasks :
    /\ retry_count[t] <= MaxRetries[t]
    /\ status[t] = "FAILED" => retry_count[t] = MaxRetries[t]

IInv ==
  /\ TypeOK
  /\ InHand
  /\ AtRest
  /\ NoTwoOwners
  /\ NothingLost
  /\ RunByWorker
  /\ RetryBudget
  /\ RecordAgrees

-----------------------------------------------------------------------------
\* Popping a subset of the heap keeps the dequeue counter a natural number.
LEMMA PopCount ==
  ASSUME TypeOK, NEW P \in SUBSET heap
  PROVE  total_dequeued + Cardinality(P) \in Nat
<1>1. IsFiniteSet(P)
  BY TasksAssumption, FS_Subset DEF TypeOK
<1>2. Cardinality(P) \in Nat
  BY <1>1, FS_CardinalityType
<1> QED
  BY <1>2 DEF TypeOK

\* The initial state satisfies the invariant.
LEMMA InitIInv == Init => IInv
BY TasksAssumption
   DEF Init, IInv, TypeOK, InHand, AtRest, NoTwoOwners, NothingLost, Held, Holds,
       RunByWorker, RetryBudget, RecordAgrees, Holding, Terminal, TaskStatus,
       WorkerPC, Records

\* Every step keeps the variables in their types; StoreResult needs to know
\* what the status can be at that point.
LEMMA TypeStep == TypeOK /\ InHand /\ [Next]_vars => TypeOK'
<1> SUFFICES ASSUME TypeOK, InHand, [Next]_vars PROVE TypeOK'
  OBVIOUS
<1> USE TasksAssumption, WorkersAssumption
    DEF TypeOK, TaskStatus, WorkerPC, Holding, Records
<1>1. ASSUME NEW t \in Tasks, Submit(t) PROVE TypeOK'
  BY <1>1 DEF Submit, Enqueue, Notify, counterVars, Waiters
<1>2. ASSUME NEW t \in Tasks, Revoke(t) PROVE TypeOK'
  BY <1>2 DEF Revoke, queueVars, counterVars
<1>3. ASSUME NEW t \in Tasks, ZombieEnds(t) PROVE TypeOK'
  BY <1>3 DEF ZombieEnds, clientVars, queueVars, counterVars
<1>4. ASSUME NEW t \in Tasks, Requeue(t) PROVE TypeOK'
  BY <1>4 DEF Requeue, Enqueue, Notify, Waiters, clientVars, counterVars
<1>5. ASSUME NEW t \in Tasks, GetExpired(t) PROVE TypeOK'
  BY <1>5 DEF GetExpired, clientVars, queueVars, counterVars
<1>6. ASSUME NEW w \in Workers, NEW t \in Tasks, Take(w, t) PROVE TypeOK'
  <2>1. total_dequeued' \in Nat
    BY <1>6, PopCount DEF Take, PopAll
  <2> QED
    BY <1>6, <2>1 DEF Take, PopAll, counterVars
<1>7. ASSUME NEW w \in Workers, DropRevoked(w) PROVE TypeOK'
  <2>1. total_dequeued' \in Nat
    BY <1>7, PopCount DEF DropRevoked, PopAll
  <2> QED
    BY <1>7, <2>1 DEF DropRevoked, PopAll, counterVars
<1>8. ASSUME NEW w \in Workers, WaitOrGiveUp(w) \/ Start(w) \/ Stop(w) \/ Exit(w)
      PROVE  TypeOK'
  BY <1>8 DEF WaitOrGiveUp, Start, Stop, Exit, clientVars, queueVars, counterVars
<1>9. ASSUME NEW w \in Workers, Begin(w) \/ Succeed(w) \/ StoreResult(w)
      PROVE  TypeOK'
  BY <1>9 DEF Begin, Succeed, StoreResult, InHand, clientVars, queueVars, counterVars
<1>10. ASSUME NEW w \in Workers, Fail(w) \/ TimeOut(w) PROVE TypeOK'
  <2>1. zombies' \in [Tasks -> Nat]
    BY <1>10 DEF Fail, TimeOut
  <2>2. UNCHANGED <<unsubmitted, revoked, heap, total_enqueued, total_dequeued,
                    running, processed, record>>
    BY <1>10 DEF Fail, TimeOut, clientVars, queueVars
  <2>3. CASE ScheduleRetry(w)
    BY <1>10, <2>1, <2>2, <2>3 DEF Fail, TimeOut, ScheduleRetry, InHand
  <2>4. CASE FailPermanently(w)
    <3>1. status' \in [Tasks -> TaskStatus]
      BY <2>4 DEF FailPermanently
    <3>2. failed' \in [Workers -> Nat]
      BY <2>4 DEF FailPermanently
    <3>3. pc' \in [Workers -> WorkerPC]
      BY <2>4 DEF FailPermanently
    <3>4. UNCHANGED <<retry_count, retried, delayed, current>>
      BY <2>4 DEF FailPermanently
    <3> QED
      BY <2>1, <2>2, <3>1, <3>2, <3>3, <3>4
  <2> QED
    BY <1>10, <2>3, <2>4 DEF Fail, TimeOut, HandleFailure
<1>11. CASE UNCHANGED vars
  BY <1>11 DEF vars
<1> QED
  BY <1>1, <1>2, <1>3, <1>4, <1>5, <1>6, <1>7, <1>8, <1>9, <1>10, <1>11
     DEF Next, RunLoop, Dequeue

\* The invariant without the types.
Owned ==
  /\ InHand
  /\ AtRest
  /\ NoTwoOwners
  /\ NothingLost
  /\ RunByWorker
  /\ RetryBudget
  /\ RecordAgrees

\* Nothing the invariant speaks of changes when threads only move between the
\* points of the loop where they have no task.
LEMMA IdleMove ==
  ASSUME TypeOK, TypeOK', Owned,
         UNCHANGED <<unsubmitted, status, retry_count, heap, delayed, current, record>>,
         \A w \in Workers :
           pc'[w] = pc[w] \/ (pc[w] \notin Holding /\ pc'[w] \notin Holding)
  PROVE  Owned'
<1>1. \A t \in Tasks, w \in Workers : Holds(w, t)' <=> Holds(w, t)
  BY DEF Holds
<1>2. \A w \in Workers : \A s \in Holding : pc'[w] = s <=> pc[w] = s
  BY DEF Holding
<1>3. InHand'
  BY <1>2 DEF Owned, InHand, Holding
<1>4. AtRest'
  BY DEF Owned, AtRest
<1>5. NoTwoOwners'
  BY <1>1 DEF Owned, NoTwoOwners, Held
<1>6. NothingLost'
  BY <1>1 DEF Owned, NothingLost, Held
<1>7. RunByWorker'
  BY <1>2 DEF Owned, RunByWorker, Holding
<1>8. RetryBudget' /\ RecordAgrees'
  BY DEF Owned, RetryBudget, RecordAgrees
<1> QED
  BY <1>3, <1>4, <1>5, <1>6, <1>7, <1>8 DEF Owned

\* Enqueueing moves a waiter at most from its sleep to the lock.
LEMMA NotifyMove ==
  ASSUME TypeOK, Notify
  PROVE  \A w \in Workers :
           \/ pc'[w] = pc[w]
           \/ pc[w] = "waiting" /\ pc'[w] = "woken"
BY DEF TypeOK, Notify, Waiters

\* Handing a task of a client or of a delay thread to the heap.
LEMMA EnqueueStep ==
  ASSUME TypeOK, TypeOK', Owned, NEW t \in Tasks, Submit(t) \/ Requeue(t)
  PROVE  Owned'
<1>1. \A w \in Workers : pc'[w] = pc[w] \/ (pc[w] = "waiting" /\ pc'[w] = "woken")
  BY NotifyMove DEF Submit, Requeue, Enqueue
<1>2. \A w \in Workers : \A s \in Holding : pc'[w] = s <=> pc[w] = s
  BY <1>1 DEF Holding
<1>3. /\ heap' = heap \cup {t}
      /\ UNCHANGED <<retry_count, current, record>>
  BY DEF Submit, Requeue, Enqueue
<1>4. /\ t \in unsubmitted \cup delayed
      /\ status' = [status EXCEPT ![t] = "PENDING"]
      /\ unsubmitted' \cup delayed' = (unsubmitted \cup delayed) \ {t}
      /\ unsubmitted' \subseteq unsubmitted /\ delayed' \subseteq delayed
  BY DEF Submit, Requeue, TypeOK, Owned, AtRest, NoTwoOwners, clientVars
<1>5. ~Held(t) /\ status[t] \in {"PENDING", "RETRYING"}
  BY <1>4 DEF Owned, NoTwoOwners, AtRest
<1>6. \A u \in Tasks, w \in Workers : Holds(w, u)' <=> Holds(w, u)
  BY <1>2, <1>3 DEF Holds, Holding
<1>7. InHand'
  BY <1>2, <1>3, <1>4, <1>5 DEF TypeOK, Owned, InHand, Holding, Held, Holds
<1>8. AtRest'
  BY <1>3, <1>4 DEF TypeOK, Owned, AtRest
<1>9. NoTwoOwners'
  BY <1>3, <1>4, <1>5, <1>6 DEF Owned, NoTwoOwners, Held
<1>10. NothingLost'
  BY <1>3, <1>4, <1>6 DEF TypeOK, Owned, NothingLost, Held, Terminal
<1>11. RunByWorker'
  BY <1>2, <1>3, <1>4 DEF TypeOK, Owned, RunByWorker, Holding
<1>12. RetryBudget' /\ RecordAgrees'
  BY <1>3, <1>4, <1>5 DEF TypeOK, Owned, RetryBudget, RecordAgrees
<1> QED
  BY <1>7, <1>8, <1>9, <1>10, <1>11, <1>12 DEF Owned

\* dequeue drops some revoked tasks and hands the worker at most one other.
LEMMA DequeueStep ==
  ASSUME TypeOK, TypeOK', Owned, NEW w \in Workers,
         (\E t \in Tasks : Take(w, t)) \/ DropRevoked(w)
  PROVE  Owned'
<1>1. PICK P \in SUBSET heap : PopAll(P)
  BY DEF Take, DropRevoked
<1>2. /\ heap' = heap \ P
      /\ status' = [t \in Tasks |-> IF t \in P \cap revoked THEN "REVOKED" ELSE status[t]]
      /\ UNCHANGED <<unsubmitted, retry_count, delayed, record>>
  BY <1>1 DEF PopAll
<1>3. pc[w] \notin Holding
  BY DEF Take, DropRevoked, AtDequeue, Holding
<1>4. ASSUME NEW t \in Tasks, t \in P
      PROVE  status[t] = "PENDING" /\ t \notin unsubmitted \cup delayed /\ ~Held(t)
  BY <1>4 DEF TypeOK, Owned, AtRest, NoTwoOwners
<1>5. CASE DropRevoked(w)
  <2>1. /\ pc' = [pc EXCEPT ![w] = "loop"]
        /\ UNCHANGED current
        /\ heap' = {} /\ heap \subseteq revoked
        /\ status' = [t \in Tasks |-> IF t \in heap \cap revoked THEN "REVOKED" ELSE status[t]]
    BY <1>5 DEF DropRevoked, PopAll
  <2>2. \A v \in Workers, t \in Tasks : Holds(v, t)' <=> Holds(v, t)
    BY <1>3, <2>1 DEF TypeOK, Holds, Holding
  <2>3. \A t \in Tasks : Held(t)' <=> Held(t)
    BY <2>2 DEF Held
  <2>4. \A t \in Tasks : t \in heap => status'[t] = "REVOKED" /\ ~Held(t)
    BY <2>1 DEF Owned, NoTwoOwners
  <2>5. \A t \in Tasks : t \notin heap => status'[t] = status[t]
    BY <2>1
  <2>6. InHand'
    BY <1>3, <2>1, <2>4, <2>5 DEF TypeOK, Owned, InHand, Holding, Held, Holds
  <2>7. AtRest'
    BY <1>2, <2>1, <2>5 DEF TypeOK, Owned, AtRest, NoTwoOwners
  <2>8. NoTwoOwners'
    BY <1>2, <2>1, <2>2, <2>3 DEF Owned, NoTwoOwners
  <2>9. NothingLost'
    BY <1>2, <2>1, <2>3, <2>4, <2>5 DEF Owned, NothingLost, Terminal
  <2>10. RunByWorker'
    BY <1>3, <2>1, <2>4, <2>5 DEF TypeOK, Owned, RunByWorker, Holding
  <2>11. RetryBudget' /\ RecordAgrees'
    BY <1>2, <2>1, <2>4, <2>5 DEF TypeOK, Owned, RetryBudget, RecordAgrees, AtRest
  <2> QED
    BY <2>6, <2>7, <2>8, <2>9, <2>10, <2>11 DEF Owned
<1>6. ASSUME NEW t \in Tasks, Take(w, t) PROVE Owned'
  <2> DEFINE Q == {u \in heap : u = t \/ (u \in revoked /\ Before(u, t))}
  <2>1. /\ pc' = [pc EXCEPT ![w] = "claimed"]
        /\ current' = [current EXCEPT ![w] = t]
        /\ t \in heap /\ t \notin revoked
        /\ heap' = heap \ Q
        /\ status' = [u \in Tasks |-> IF u \in Q \cap revoked THEN "REVOKED" ELSE status[u]]
    BY <1>6 DEF Take, PopAll
  <2>2. /\ t \in Q
        /\ \A u \in Q : u \in heap /\ (u = t \/ u \in revoked)
    BY <2>1
  <2> HIDE DEF Q
  <2>3. \A v \in Workers, u \in Tasks :
          Holds(v, u)' <=> IF v = w THEN u = t ELSE Holds(v, u)
    BY <2>1 DEF TypeOK, Holds, Holding
  <2>4. \A u \in Tasks : Held(u)' <=> u = t \/ Held(u)
    BY <1>3, <2>3 DEF Held, Holds
  <2>5. /\ status'[t] = "PENDING"
        /\ \A u \in Q : u # t => status'[u] = "REVOKED"
        /\ \A u \in Tasks : u \notin Q => status'[u] = status[u]
    BY <2>1, <2>2 DEF TypeOK, Owned, AtRest
  <2>6. \A u \in Tasks : u \in Q => ~Held(u)
    BY <2>2 DEF Owned, NoTwoOwners
  <2>7. InHand'
    BY <2>1, <2>2, <2>5, <2>6, TasksAssumption DEF TypeOK, Owned, InHand, Holding, Held, Holds
  <2>8. AtRest'
    BY <1>2, <2>1, <2>2, <2>5 DEF TypeOK, Owned, AtRest, NoTwoOwners
  <2>9. NoTwoOwners'
    <3>1. \A u, v \in Workers, x \in Tasks : Holds(u, x)' /\ Holds(v, x)' => u = v
      BY <2>1, <2>3 DEF Owned, NoTwoOwners, Held
    <3>2. t \notin heap' \cup delayed' \cup unsubmitted'
      BY <1>2, <2>1, <2>2 DEF Owned, NoTwoOwners
    <3> QED
      BY <1>2, <2>1, <2>4, <3>1, <3>2 DEF Owned, NoTwoOwners
  <2>10. NothingLost'
    BY <1>2, <2>1, <2>4, <2>5 DEF Owned, NothingLost, Terminal
  <2>11. RunByWorker'
    BY <1>3, <2>1, <2>2, <2>5 DEF TypeOK, Owned, RunByWorker, Holding
  <2>12. RetryBudget' /\ RecordAgrees'
    BY <1>2, <2>1, <2>2, <2>5 DEF TypeOK, Owned, RetryBudget, RecordAgrees, AtRest
  <2> QED
    BY <2>7, <2>8, <2>9, <2>10, <2>11, <2>12 DEF Owned
<1> QED
  BY <1>5, <1>6

\* A worker going on with the task it has in hand changes that task's status
\* and nothing about any other task.
LEMMA ProgressStep ==
  ASSUME TypeOK, TypeOK', Owned, NEW w \in Workers, Begin(w) \/ Succeed(w)
  PROVE  Owned'
<1> DEFINE t == current[w]
<1>1. /\ pc[w] \in {"claimed", "executing"} /\ t \in Tasks
      /\ UNCHANGED <<unsubmitted, heap, delayed, retry_count, current, record>>
  BY DEF Begin, Succeed, Owned, InHand, Holding, clientVars, queueVars
<1>2. \/ /\ pc[w] = "claimed"
         /\ pc' = [pc EXCEPT ![w] = "executing"]
         /\ status' = [status EXCEPT ![t] = "RUNNING"]
      \/ /\ pc[w] = "executing"
         /\ pc' = [pc EXCEPT ![w] = "storing"]
         /\ status' = [status EXCEPT ![t] = "SUCCESS"]
  BY DEF Begin, Succeed
<1>3. status[t] \in {"PENDING", "RUNNING"}
  BY <1>1 DEF Owned, InHand
<1>4. t \notin heap \cup unsubmitted \cup delayed
  BY <1>1 DEF Owned, NoTwoOwners, Held, Holds, Holding
<1>5. \A v \in Workers, u \in Tasks : Holds(v, u)' <=> Holds(v, u)
  BY <1>1, <1>2 DEF TypeOK, Holds, Holding
<1>6. \A u \in Tasks : Held(u)' <=> Held(u)
  BY <1>5 DEF Held
<1>7. \A v \in Workers : v # w /\ pc[v] \in Holding => current[v] # t
  BY <1>1 DEF Owned, NoTwoOwners, Holds, Holding
<1> HIDE DEF t
<1>8. InHand'
  BY <1>1, <1>2, <1>7 DEF TypeOK, Owned, InHand, Holding, t
<1>9. AtRest'
  BY <1>1, <1>2, <1>4 DEF TypeOK, Owned, AtRest
<1>10. NoTwoOwners'
  BY <1>1, <1>5, <1>6 DEF Owned, NoTwoOwners
<1>11. NothingLost'
  <2>1. Held(t)
    BY <1>1 DEF Held, Holds, Holding, t
  <2> QED
    BY <1>1, <1>2, <1>6, <2>1 DEF TypeOK, Owned, NothingLost
<1>12. RunByWorker'
  BY <1>1, <1>2, <1>7 DEF TypeOK, Owned, RunByWorker, Holding, t
<1>13. RetryBudget' /\ RecordAgrees'
  BY <1>1, <1>2, <1>3 DEF TypeOK, Owned, RetryBudget, RecordAgrees
<1> QED
  BY <1>8, <1>9, <1>10, <1>11, <1>12, <1>13 DEF Owned

\* The except branch: a failed task goes to sleep or is given up.
LEMMA FailureStep ==
  ASSUME TypeOK, TypeOK', Owned, NEW w \in Workers, Fail(w) \/ TimeOut(w)
  PROVE  Owned'
<1> DEFINE t == current[w]
<1>1. /\ pc[w] = "executing" /\ t \in Tasks /\ status[t] = "RUNNING"
      /\ UNCHANGED <<unsubmitted, heap, record>>
  BY DEF Fail, TimeOut, Owned, InHand, Holding, clientVars, queueVars
<1>2. t \notin heap \cup unsubmitted \cup delayed
  BY <1>1 DEF Owned, NoTwoOwners, Held, Holds, Holding
<1>3. \A v \in Workers : v # w /\ pc[v] \in Holding => current[v] # t
  BY <1>1 DEF Owned, NoTwoOwners, Holds, Holding
<1>4. CASE ScheduleRetry(w)
  <2>1. /\ retry_count[t] < MaxRetries[t]
        /\ retry_count' = [retry_count EXCEPT ![t] = @ + 1]
        /\ status' = [status EXCEPT ![t] = "RETRYING"]
        /\ delayed' = delayed \cup {t}
        /\ pc' = [pc EXCEPT ![w] = "loop"]
        /\ current' = [current EXCEPT ![w] = NoTask]
    BY <1>4 DEF ScheduleRetry, CanRetry
  <2>2. \A v \in Workers, u \in Tasks : Holds(v, u)' <=> v # w /\ Holds(v, u)
    BY <1>1, <2>1, TasksAssumption DEF TypeOK, Holds, Holding
  <2>3. \A u \in Tasks : Held(u)' <=> u # t /\ Held(u)
    BY <1>1, <1>3, <2>2 DEF Held, Holds
  <2> HIDE DEF t
  <2>4. InHand'
    BY <1>1, <1>3, <2>1, TasksAssumption DEF TypeOK, Owned, InHand, Holding, t
  <2>5. AtRest'
    BY <1>1, <1>2, <2>1 DEF TypeOK, Owned, AtRest
  <2>6. NoTwoOwners'
    BY <1>1, <1>2, <2>1, <2>2, <2>3 DEF Owned, NoTwoOwners
  <2>7. NothingLost'
    BY <1>1, <2>1, <2>3 DEF TypeOK, Owned, NothingLost
  <2>8. RunByWorker'
    BY <1>1, <1>3, <2>1 DEF TypeOK, Owned, RunByWorker, Holding, t
  <2>9. RetryBudget'
    <3>1. /\ retry_count \in [Tasks -> Nat] /\ MaxRetries \in [Tasks -> Nat]
          /\ status \in [Tasks -> TaskStatus]
      BY TasksAssumption DEF TypeOK
    <3> QED
      BY <1>1, <2>1, <3>1 DEF Owned, RetryBudget
  <2>10. RecordAgrees'
    BY <1>1, <2>1 DEF TypeOK, Owned, RecordAgrees
  <2> QED
    BY <2>4, <2>5, <2>6, <2>7, <2>8, <2>9, <2>10 DEF Owned
<1>5. CASE FailPermanently(w)
  <2>1. /\ ~(retry_count[t] < MaxRetries[t])
        /\ status' = [status EXCEPT ![t] = "FAILED"]
        /\ pc' = [pc EXCEPT ![w] = "storing"]
        /\ UNCHANGED <<retry_count, delayed, current>>
    BY <1>5 DEF FailPermanently, CanRetry
  <2>2. \A v \in Workers, u \in Tasks : Holds(v, u)' <=> Holds(v, u)
    BY <1>1, <2>1 DEF TypeOK, Holds, Holding
  <2>3. \A u \in Tasks : Held(u)' <=> Held(u)
    BY <2>2 DEF Held
  <2> HIDE DEF t
  <2>4. InHand'
    BY <1>1, <1>3, <2>1 DEF TypeOK, Owned, InHand, Holding, t
  <2>5. AtRest'
    BY <1>1, <1>2, <2>1 DEF TypeOK, Owned, AtRest
  <2>6. NoTwoOwners'
    BY <1>1, <2>1, <2>2, <2>3 DEF Owned, NoTwoOwners
  <2>7. NothingLost'
    BY <1>1, <2>1, <2>3 DEF TypeOK, Owned, NothingLost, Terminal
  <2>8. RunByWorker'
    BY <1>1, <1>3, <2>1 DEF TypeOK, Owned, RunByWorker, Holding, t
  <2>9. RetryBudget'
    <3>1. /\ retry_count \in [Tasks -> Nat] /\ MaxRetries \in [Tasks -> Nat]
          /\ status \in [Tasks -> TaskStatus]
      BY TasksAssumption DEF TypeOK
    <3> QED
      BY <1>1, <2>1, <3>1 DEF Owned, RetryBudget
  <2>10. RecordAgrees'
    BY <1>1, <2>1 DEF TypeOK, Owned, RecordAgrees
  <2> QED
    BY <2>4, <2>5, <2>6, <2>7, <2>8, <2>9, <2>10 DEF Owned
<1> QED
  BY <1>4, <1>5 DEF Fail, TimeOut, HandleFailure

\* Storing the verdict lets go of the task.
LEMMA StoreStep ==
  ASSUME TypeOK, TypeOK', Owned, NEW w \in Workers, StoreResult(w)
  PROVE  Owned'
<1> DEFINE t == current[w]
<1>1. /\ pc[w] = "storing" /\ t \in Tasks /\ status[t] \in {"SUCCESS", "FAILED"}
      /\ record' = [record EXCEPT ![t] = status[t]]
      /\ pc' = [pc EXCEPT ![w] = "loop"]
      /\ current' = [current EXCEPT ![w] = NoTask]
      /\ UNCHANGED <<unsubmitted, heap, delayed, retry_count, status>>
  BY DEF StoreResult, Owned, InHand, Holding, clientVars, queueVars
<1>2. \A v \in Workers : v # w /\ pc[v] \in Holding => current[v] # t
  BY <1>1 DEF Owned, NoTwoOwners, Holds, Holding
<1>3. \A v \in Workers, u \in Tasks : Holds(v, u)' <=> v # w /\ Holds(v, u)
  BY <1>1, TasksAssumption DEF TypeOK, Holds, Holding
<1>4. \A u \in Tasks : Held(u)' <=> u # t /\ Held(u)
  BY <1>1, <1>2, <1>3 DEF Held, Holds
<1> HIDE DEF t
<1>5. InHand'
  BY <1>1, TasksAssumption DEF TypeOK, Owned, InHand, Holding, t
<1>6. AtRest'
  BY <1>1 DEF Owned, AtRest
<1>7. NoTwoOwners'
  BY <1>1, <1>3, <1>4 DEF Owned, NoTwoOwners
<1>8. NothingLost'
  BY <1>1, <1>4 DEF Owned, NothingLost, Terminal
<1>9. RunByWorker'
  BY <1>1 DEF TypeOK, Owned, RunByWorker
<1>10. RetryBudget' /\ RecordAgrees'
  BY <1>1 DEF TypeOK, Owned, RetryBudget, RecordAgrees
<1> QED
  BY <1>5, <1>6, <1>7, <1>8, <1>9, <1>10 DEF Owned

\* Every step preserves the invariant.
LEMMA NextIInv == IInv /\ [Next]_vars => IInv'
<1> SUFFICES ASSUME IInv, [Next]_vars PROVE IInv'
  OBVIOUS
<1>1. TypeOK /\ TypeOK' /\ Owned
  BY TypeStep DEF IInv, Owned
<1>2. ASSUME NEW t \in Tasks, Submit(t) \/ Requeue(t) PROVE Owned'
  BY <1>1, <1>2, EnqueueStep
<1>3. ASSUME NEW t \in Tasks, Revoke(t) \/ ZombieEnds(t) PROVE Owned'
  BY <1>1, <1>3, IdleMove DEF Revoke, ZombieEnds, clientVars, queueVars
<1>4. ASSUME NEW t \in Tasks, GetExpired(t) PROVE Owned'
  BY <1>1, <1>4 DEF GetExpired, clientVars, queueVars, TypeOK, Owned, InHand,
     AtRest, NoTwoOwners, NothingLost, Held, Holds, RunByWorker, RetryBudget, RecordAgrees
<1>5. ASSUME NEW w \in Workers, Start(w) \/ Stop(w) \/ Exit(w) \/ WaitOrGiveUp(w)
      PROVE  Owned'
  <2>1. UNCHANGED <<unsubmitted, status, retry_count, heap, delayed, current, record>>
    BY <1>5 DEF Start, Stop, Exit, WaitOrGiveUp, clientVars, queueVars
  <2>2. \A v \in Workers :
          pc'[v] = pc[v] \/ (pc[v] \notin Holding /\ pc'[v] \notin Holding)
    BY <1>1, <1>5 DEF Start, Stop, Exit, WaitOrGiveUp, TypeOK, Holding
  <2> QED
    BY <1>1, <2>1, <2>2, IdleMove
<1>6. ASSUME NEW w \in Workers, (\E t \in Tasks : Take(w, t)) \/ DropRevoked(w)
      PROVE  Owned'
  BY <1>1, <1>6, DequeueStep
<1>7. ASSUME NEW w \in Workers, Begin(w) \/ Succeed(w) PROVE Owned'
  BY <1>1, <1>7, ProgressStep
<1>8. ASSUME NEW w \in Workers, Fail(w) \/ TimeOut(w) PROVE Owned'
  BY <1>1, <1>8, FailureStep
<1>9. ASSUME NEW w \in Workers, StoreResult(w) PROVE Owned'
  BY <1>1, <1>9, StoreStep
<1>10. SUFFICES Owned'
  BY <1>1 DEF IInv, Owned
<1>11. CASE UNCHANGED vars
  <2>1. /\ UNCHANGED <<unsubmitted, status, retry_count, heap, delayed, current, record>>
        /\ pc' = pc
    BY <1>11 DEF vars
  <2> QED
    BY <1>1, <2>1, IdleMove
<1>12. CASE Next
  <2>1. CASE \E t \in Tasks :
          Submit(t) \/ Revoke(t) \/ ZombieEnds(t) \/ Requeue(t) \/ GetExpired(t)
    BY <2>1, <1>2, <1>3, <1>4
  <2>2. CASE \E w \in Workers : Start(w) \/ Stop(w) \/ RunLoop(w)
    BY <2>2, <1>5, <1>6, <1>7, <1>8, <1>9 DEF RunLoop, Dequeue
  <2> QED
    BY <1>12, <2>1, <2>2 DEF Next
<1> QED
  BY <1>11, <1>12

\* The invariant holds in every reachable state.
THEOREM Invariance == Spec => []IInv
<1>1. Init => IInv
  BY InitIInv
<1>2. IInv /\ [Next]_vars => IInv'
  BY NextIInv
<1> QED
  BY <1>1, <1>2, PTL DEF Spec

\* Every variable keeps its type, for any number of tasks and workers.
THEOREM TypeCorrect == Spec => []TypeOK
BY Invariance, PTL DEF IInv

\* A task always has exactly one owner or is finished: no interleaving of
\* clients, workers, retries and timeouts duplicates or loses it.
THEOREM Ownership == Spec => []OneOwner
<1>1. IInv => OneOwner
  BY DEF IInv, OneOwner
<1> QED
  BY <1>1, Invariance, PTL

\* A live backend record is the verdict on the task.
THEOREM ResultsAgree == Spec => []RecordAgrees
BY Invariance, PTL DEF IInv

\* A revoked task no worker has in hand is never taken up again.
THEOREM RevocationHolds == Spec => RevokedStaysOut
<1>1. IInv /\ [Next]_vars =>
        [\A t \in Tasks : t \in revoked /\ ~Held(t) => ~Held(t)']_vars
  <2> SUFFICES ASSUME IInv, IInv', Next, NEW t \in Tasks, t \in revoked, ~Held(t)
               PROVE  ~Held(t)'
    BY NextIInv
  <2>1. \A w \in Workers : Holds(w, t)' => Holds(w, t)
    <3> SUFFICES ASSUME NEW w \in Workers, ~Holds(w, t) PROVE ~Holds(w, t)'
      OBVIOUS
    <3>1. ASSUME NEW u \in Tasks, Submit(u) \/ Requeue(u) PROVE ~Holds(w, t)'
      BY <3>1, NotifyMove DEF Submit, Requeue, Enqueue, Holds, Holding, IInv
    <3>2. ASSUME NEW u \in Tasks, Revoke(u) \/ ZombieEnds(u) \/ GetExpired(u)
          PROVE ~Holds(w, t)'
      BY <3>2 DEF Revoke, ZombieEnds, GetExpired, Holds
    <3>3. ASSUME NEW v \in Workers, NEW u \in Tasks, Take(v, u) PROVE ~Holds(w, t)'
      BY <3>3 DEF Take, Holds, Holding, IInv, TypeOK
    <3>4. ASSUME NEW v \in Workers,
                 DropRevoked(v) \/ WaitOrGiveUp(v) \/ Start(v) \/ Stop(v) \/ Exit(v)
          PROVE  ~Holds(w, t)'
      BY <3>4 DEF DropRevoked, WaitOrGiveUp, Start, Stop, Exit, Holds, Holding, IInv, TypeOK
    <3>5. ASSUME NEW v \in Workers, Begin(v) \/ Succeed(v) PROVE ~Holds(w, t)'
      BY <3>5 DEF Begin, Succeed, Holds, Holding, IInv, TypeOK
    <3>6. ASSUME NEW v \in Workers, Fail(v) \/ TimeOut(v) PROVE ~Holds(w, t)'
      BY <3>6 DEF Fail, TimeOut, HandleFailure, ScheduleRetry, FailPermanently, Holds,
                  Holding, IInv, TypeOK
    <3>7. ASSUME NEW v \in Workers, StoreResult(v) PROVE ~Holds(w, t)'
      BY <3>7 DEF StoreResult, Holds, Holding, IInv, TypeOK
    <3> QED
      BY <3>1, <3>2, <3>3, <3>4, <3>5, <3>6, <3>7 DEF Next, RunLoop, Dequeue
  <2> QED
    BY <2>1 DEF Held
<1> QED
  BY <1>1, Invariance, PTL DEF RevokedStaysOut, Spec

-----------------------------------------------------------------------------
(* Wake-ups *)

LEMMA FiniteParts ==
  ASSUME TypeOK
  PROVE  /\ IsFiniteSet(heap) /\ Cardinality(heap) \in Nat
         /\ IsFiniteSet(Woken) /\ Cardinality(Woken) \in Nat
<1>1. IsFiniteSet(heap)
  BY TasksAssumption, FS_Subset DEF TypeOK
<1>2. IsFiniteSet(Woken)
  BY WorkersAssumption, FS_Subset DEF Woken
<1> QED
  BY <1>1, <1>2, FS_CardinalityType

\* An enqueue adds one task and, if anyone sleeps, wakes one more thread.
LEMMA EnqueueWakes ==
  ASSUME TypeOK, NoLostWakeup, NEW t \in Tasks, Enqueue(t)
  PROVE  NoLostWakeup'
<1>1. Cardinality(heap') <= Cardinality(heap) + 1 /\ Cardinality(heap') \in Nat
  <2>1. heap' = heap \cup {t}
    BY DEF Enqueue
  <2>2. /\ IsFiniteSet(heap')
        /\ Cardinality(heap') = Cardinality(heap) \/ Cardinality(heap') = Cardinality(heap) + 1
    BY <2>1, FiniteParts, FS_AddElement
  <2> QED
    BY <2>2, FiniteParts, FS_CardinalityType
<1>2. CASE Waiters = {} /\ UNCHANGED pc
  BY <1>2 DEF NoLostWakeup, Waiters
<1>3. ASSUME NEW w \in Waiters, pc' = [pc EXCEPT ![w] = "woken"]
      PROVE  NoLostWakeup'
  <2>1. Woken' = Woken \cup {w} /\ w \notin Woken
    BY <1>3 DEF TypeOK, Woken, Waiters
  <2>2. Cardinality(Woken') = Cardinality(Woken) + 1
    BY <2>1, FiniteParts, FS_AddElement
  <2>3. Cardinality(heap) <= Cardinality(Woken)
    BY <1>3 DEF NoLostWakeup
  <2> QED
    BY <1>1, <2>2, <2>3, FiniteParts DEF NoLostWakeup
<1> QED
  BY <1>2, <1>3 DEF Enqueue, Notify

\* A thread that takes a task removes at least that task and at most itself.
LEMMA TakeKeepsWakeups ==
  ASSUME TypeOK, NoLostWakeup, NEW w \in Workers, NEW t \in Tasks, Take(w, t)
  PROVE  NoLostWakeup'
<1>1. /\ t \in heap /\ heap' \subseteq heap \ {t}
      /\ pc' = [pc EXCEPT ![w] = "claimed"]
  BY DEF Take, PopAll
<1>2. Cardinality(heap') <= Cardinality(heap) - 1 /\ Cardinality(heap') \in Nat
  <2>1. IsFiniteSet(heap \ {t}) /\ Cardinality(heap \ {t}) = Cardinality(heap) - 1
    BY <1>1, FiniteParts, FS_RemoveElement
  <2> QED
    <3>1. IsFiniteSet(heap') /\ Cardinality(heap') <= Cardinality(heap \ {t})
      BY <1>1, <2>1, FS_Subset
    <3> QED
      BY <2>1, <3>1, FS_CardinalityType
<1>3. Waiters' \subseteq Waiters /\ Woken' = Woken \ {w}
  BY <1>1 DEF TypeOK, Waiters, Woken
<1>4. Cardinality(Woken) - 1 <= Cardinality(Woken')
  <2>1. w \in Woken => Cardinality(Woken') = Cardinality(Woken) - 1
    BY <1>3, FiniteParts, FS_RemoveElement
  <2>2. w \notin Woken => Woken' = Woken
    BY <1>3
  <2> QED
    BY <2>1, <2>2, FiniteParts
<1>5. Cardinality(Woken') \in Nat
  BY <1>3, FiniteParts, FS_Subset, FS_CardinalityType
<1> QED
  BY <1>2, <1>3, <1>4, <1>5, FiniteParts DEF NoLostWakeup

LEMMA NextWakeups == TypeOK /\ NoLostWakeup /\ [Next]_vars => NoLostWakeup'
<1> SUFFICES ASSUME TypeOK, NoLostWakeup, [Next]_vars PROVE NoLostWakeup'
  OBVIOUS
<1>1. ASSUME heap' = heap, Waiters' = Waiters, Woken' = Woken PROVE NoLostWakeup'
  BY <1>1 DEF NoLostWakeup
<1>2. ASSUME heap' = {} PROVE NoLostWakeup'
  <2>1. Cardinality(heap') = 0
    BY <1>2, FS_EmptySet
  <2>2. IsFiniteSet(Woken')
    BY WorkersAssumption, FS_Subset DEF Woken
  <2>3. Cardinality(Woken') \in Nat
    BY <2>2, FS_CardinalityType
  <2> QED
    BY <2>1, <2>3 DEF NoLostWakeup
<1>3. ASSUME NEW t \in Tasks, Submit(t) \/ Requeue(t) PROVE NoLostWakeup'
  BY <1>3, EnqueueWakes DEF Submit, Requeue
<1>4. ASSUME NEW t \in Tasks, Revoke(t) \/ ZombieEnds(t) \/ GetExpired(t)
      PROVE  NoLostWakeup'
  BY <1>1, <1>4 DEF Revoke, ZombieEnds, GetExpired, queueVars, Waiters, Woken
<1>5. ASSUME NEW w \in Workers, NEW t \in Tasks, Take(w, t) PROVE NoLostWakeup'
  BY <1>5, TakeKeepsWakeups
<1>6. ASSUME NEW w \in Workers, DropRevoked(w) \/ WaitOrGiveUp(w) PROVE NoLostWakeup'
  BY <1>2, <1>6 DEF DropRevoked, PopAll, WaitOrGiveUp, queueVars
<1>7. ASSUME NEW w \in Workers, pc[w] \notin {"waiting", "woken"}, heap' = heap,
             NEW p \in {"stopped", "loop", "executing", "storing"},
             pc' = [pc EXCEPT ![w] = p]
      PROVE  NoLostWakeup'
  BY <1>1, <1>7 DEF TypeOK, Waiters, Woken
<1>8. ASSUME NEW w \in Workers, Start(w) \/ Exit(w) \/ Begin(w) \/ Succeed(w)
                                \/ StoreResult(w) \/ Fail(w) \/ TimeOut(w)
      PROVE  NoLostWakeup'
  BY <1>7, <1>8 DEF Start, Exit, Begin, Succeed, StoreResult, Fail, TimeOut,
     HandleFailure, ScheduleRetry, FailPermanently, queueVars
<1>9. ASSUME NEW w \in Workers, Stop(w) PROVE NoLostWakeup'
  BY <1>1, <1>9 DEF Stop, queueVars, Waiters, Woken
<1>10. CASE UNCHANGED vars
  BY <1>1, <1>10 DEF vars, Waiters, Woken
<1> QED
  BY <1>3, <1>4, <1>5, <1>6, <1>8, <1>9, <1>10 DEF Next, RunLoop, Dequeue

\* While a worker sleeps in Condition.wait, each task in the heap has its own
\* notified thread: notify() per enqueue is enough.
THEOREM WakeupsSuffice == Spec => []NoLostWakeup
<1>1. Init => NoLostWakeup
  BY DEF Init, NoLostWakeup, Waiters
<1> QED
  BY <1>1, NextWakeups, TypeCorrect, PTL DEF Spec

-----------------------------------------------------------------------------
(* Refinement *)

\* Steps that leave status and retry_count alone are not seen by a client.
LEMMA StutterStep ==
  ASSUME UNCHANGED <<status, retry_count>>
  PROVE  UNCHANGED Lifecycle!lifecycleVars
BY DEF Lifecycle!lifecycleVars, Attempts, Attempting, Verdict

\* Requeueing turns RETRYING into PENDING: between two attempts as before.
LEMMA RequeueStutters ==
  ASSUME IInv, NEW t \in Tasks, Requeue(t)
  PROVE  UNCHANGED Lifecycle!lifecycleVars
<1>1. /\ status[t] = "RETRYING" /\ UNCHANGED retry_count
      /\ status' = [status EXCEPT ![t] = "PENDING"]
  BY DEF Requeue, IInv, AtRest
<1>2. \A u \in Tasks : u # t => status'[u] = status[u]
  BY <1>1 DEF IInv, TypeOK
<1>3. status'[t] = "PENDING"
  BY <1>1 DEF IInv, TypeOK
<1>4. Verdict' = Verdict /\ Attempting' = Attempting /\ Attempts' = Attempts
  BY <1>1, <1>2, <1>3 DEF Verdict, Attempting, Attempts, Terminal
<1> QED
  BY <1>4 DEF Lifecycle!lifecycleVars

\* What a dequeue skips is cancelled.
LEMMA PopCancels ==
  ASSUME IInv, NEW P \in SUBSET heap, PopAll(P)
  PROVE  Lifecycle!Cancel(P \cap revoked)
<1>1. \A t \in P : t \in Tasks /\ status[t] = "PENDING"
  BY DEF IInv, TypeOK, AtRest
<1>2. /\ status' = [t \in Tasks |-> IF t \in P \cap revoked THEN "REVOKED" ELSE status[t]]
      /\ UNCHANGED retry_count
  BY DEF PopAll
<1>3. \A t \in P \cap revoked : t \notin Attempting /\ Verdict[t] = "none"
  BY <1>1 DEF Attempting, Verdict, Terminal
<1>4. Verdict' = [t \in Tasks |-> IF t \in P \cap revoked THEN "REVOKED" ELSE Verdict[t]]
  BY <1>2 DEF Verdict, Terminal
<1>5. Attempting' = Attempting /\ Attempts' = Attempts
  BY <1>1, <1>2 DEF Attempting, Attempts
<1> QED
  BY <1>3, <1>4, <1>5 DEF Lifecycle!Cancel, Lifecycle!Idle

\* A worker's step with task t in hand is a step of t's lifecycle.
LEMMA WorkerRefines ==
  ASSUME IInv, NEW w \in Workers,
         Begin(w) \/ Succeed(w) \/ Fail(w) \/ TimeOut(w)
  PROVE  \E t \in Tasks : \/ Lifecycle!Attempt(t) \/ Lifecycle!Succeed(t)
                          \/ Lifecycle!PutBack(t) \/ Lifecycle!GiveUp(t)
<1> DEFINE t == current[w]
<1>1. t \in Tasks /\ retry_count[t] \in Nat /\ MaxRetries[t] \in Nat
  BY TasksAssumption DEF Begin, Succeed, Fail, TimeOut, IInv, TypeOK, InHand, Holding
<1>2. status \in [Tasks -> TaskStatus] /\ retry_count \in [Tasks -> Nat]
  BY DEF IInv, TypeOK
<1>3. retry_count[t] <= MaxRetries[t]
  BY <1>1 DEF IInv, RetryBudget
<1>4. CASE Begin(w)
  <2>1. /\ status[t] = "PENDING" /\ UNCHANGED retry_count
        /\ status' = [status EXCEPT ![t] = "RUNNING"]
    BY <1>4 DEF Begin, IInv, InHand
  <2> HIDE DEF t
  <2>2. /\ t \notin Attempting /\ Verdict[t] = "none"
        /\ Attempts[t] = retry_count[t]
        /\ Attempts' = [Attempts EXCEPT ![t] = @ + 1]
        /\ Attempting' = Attempting \cup {t}
        /\ Verdict' = Verdict
    <3>1. \A u \in Tasks : status'[u] = IF u = t THEN "RUNNING" ELSE status[u]
      BY <1>1, <1>2, <2>1
    <3>2. Attempts' = [Attempts EXCEPT ![t] = @ + 1]
      <4>1. Attempts[t] = retry_count[t] /\ Attempts'[t] = retry_count[t] + 1
        BY <1>1, <2>1, <3>1 DEF Attempts
      <4>2. \A u \in Tasks : u # t => Attempts'[u] = Attempts[u]
        BY <2>1, <3>1 DEF Attempts
      <4>3. Attempts = [u \in Tasks |-> Attempts[u]] /\ Attempts' = [u \in Tasks |-> Attempts'[u]]
        BY DEF Attempts
      <4> QED
        BY <4>1, <4>2, <4>3
    <3>3. Attempting' = Attempting \cup {t} /\ t \notin Attempting
      BY <1>1, <2>1, <3>1 DEF Attempting
    <3>4. Verdict[t] = "none" /\ Verdict' = Verdict
      <4>1. status'[t] \notin Terminal /\ status[t] \notin Terminal
        BY <1>1, <2>1, <3>1 DEF Terminal
      <4>2. \A u \in Tasks : u # t => status'[u] = status[u]
        BY <3>1
      <4> QED
        BY <1>1, <4>1, <4>2 DEF Verdict
    <3>5. Attempts[t] = retry_count[t]
      BY <1>1, <2>1 DEF Attempts
    <3> QED
      BY <3>2, <3>3, <3>4, <3>5
  <2> QED
    BY <1>1, <1>3, <2>2 DEF Lifecycle!Attempt, Lifecycle!Idle
<1>5. CASE Succeed(w)
  <2>1. /\ status[t] = "RUNNING" /\ UNCHANGED retry_count
        /\ status' = [status EXCEPT ![t] = "SUCCESS"]
    BY <1>5 DEF Succeed, IInv, InHand
  <2> HIDE DEF t
  <2>2. /\ t \in Attempting
        /\ Attempts' = Attempts
        /\ Attempting' = Attempting \ {t}
        /\ Verdict' = [Verdict EXCEPT ![t] = "SUCCESS"]
    BY <1>1, <1>2, <2>1 DEF Attempting, Verdict, Attempts, Terminal
  <2> QED
    BY <1>1, <2>2 DEF Lifecycle!Succeed, Lifecycle!Finish
<1>6. CASE Fail(w) \/ TimeOut(w)
  <2>1. status[t] = "RUNNING"
    BY <1>6 DEF Fail, TimeOut, IInv, InHand
  <2>2. CASE ScheduleRetry(w)
    <3>1. /\ retry_count[t] < MaxRetries[t]
          /\ retry_count' = [retry_count EXCEPT ![t] = @ + 1]
          /\ status' = [status EXCEPT ![t] = "RETRYING"]
      BY <2>2 DEF ScheduleRetry, CanRetry
    <3> HIDE DEF t
    <3>2. /\ t \in Attempting
          /\ Attempts[t] = retry_count[t] + 1
          /\ Attempts' = Attempts
          /\ Attempting' = Attempting \ {t}
          /\ Verdict' = [Verdict EXCEPT ![t] = "none"]
      BY <1>1, <1>2, <2>1, <3>1 DEF Attempting, Verdict, Attempts, Terminal
    <3>3. Attempts[t] <= MaxRetries[t]
      BY <1>1, <3>1, <3>2
    <3>4. Lifecycle!PutBack(t)
      BY <3>2, <3>3 DEF Lifecycle!PutBack, Lifecycle!Finish
    <3> QED
      BY <1>1, <3>4
  <2>3. CASE FailPermanently(w)
    <3>1. /\ ~(retry_count[t] < MaxRetries[t]) /\ UNCHANGED retry_count
          /\ status' = [status EXCEPT ![t] = "FAILED"]
      BY <2>3 DEF FailPermanently, CanRetry
    <3> HIDE DEF t
    <3>2. /\ t \in Attempting
          /\ Attempts[t] = retry_count[t] + 1
          /\ Attempts' = Attempts
          /\ Attempting' = Attempting \ {t}
          /\ Verdict' = [Verdict EXCEPT ![t] = "FAILED"]
      BY <1>1, <1>2, <2>1, <3>1 DEF Attempting, Verdict, Attempts, Terminal
    <3>3. Attempts[t] = MaxRetries[t] + 1
      BY <1>1, <1>3, <3>1, <3>2
    <3>4. Lifecycle!GiveUp(t)
      BY <3>2, <3>3 DEF Lifecycle!GiveUp, Lifecycle!Finish
    <3> QED
      BY <1>1, <3>4
  <2> QED
    BY <1>6, <2>2, <2>3 DEF Fail, TimeOut, HandleFailure
<1> QED
  BY <1>4, <1>5, <1>6

\* Queue, workers, delays, timeouts and revocation together implement the
\* lifecycle of TaskLifecycle for every task.
THEOREM Refinement == Spec => ImplementsLifecycle
<1>1. Init => Lifecycle!Init
  BY DEF Init, Lifecycle!Init, Attempts, Attempting, Verdict, Terminal
<1>2. IInv /\ [Next]_vars => [Lifecycle!Next]_(Lifecycle!lifecycleVars)
  <2> SUFFICES ASSUME IInv, [Next]_vars
               PROVE  Lifecycle!Next \/ UNCHANGED Lifecycle!lifecycleVars
    OBVIOUS
  <2>1. ASSUME NEW t \in Tasks,
               Submit(t) \/ Revoke(t) \/ ZombieEnds(t) \/ Requeue(t) \/ GetExpired(t)
        PROVE  UNCHANGED Lifecycle!lifecycleVars
    BY <2>1, StutterStep, RequeueStutters DEF Submit, Revoke, ZombieEnds, GetExpired
  <2>2. ASSUME NEW P \in SUBSET heap, PopAll(P) PROVE Lifecycle!Next
    <3>1. P \cap revoked \in SUBSET Tasks
      BY DEF IInv, TypeOK
    <3> QED
      BY <2>2, <3>1, PopCancels DEF Lifecycle!Next
  <2>3. ASSUME NEW w \in Workers, Start(w) \/ Stop(w) \/ Exit(w) \/ WaitOrGiveUp(w)
                                  \/ StoreResult(w)
        PROVE  UNCHANGED Lifecycle!lifecycleVars
    BY <2>3, StutterStep DEF Start, Stop, Exit, WaitOrGiveUp, StoreResult
  <2>4. ASSUME NEW w \in Workers, (\E t \in Tasks : Take(w, t)) \/ DropRevoked(w)
        PROVE  Lifecycle!Next
    BY <2>2, <2>4 DEF Take, DropRevoked
  <2>5. ASSUME NEW w \in Workers, Begin(w) \/ Succeed(w) \/ Fail(w) \/ TimeOut(w)
        PROVE  Lifecycle!Next
    BY <2>5, WorkerRefines DEF Lifecycle!Next
  <2>6. CASE UNCHANGED vars
    BY <2>6, StutterStep DEF vars
  <2> QED
    BY <2>1, <2>3, <2>4, <2>5, <2>6 DEF Next, RunLoop, Dequeue
<1> QED
  BY <1>1, <1>2, Invariance, PTL DEF Spec, ImplementsLifecycle, Lifecycle!Spec

\* The safety of the queue as one invariant: types, ownership, wake-ups, records.
THEOREM Safety == Spec => []QueueSafe
BY TypeCorrect, Ownership, WakeupsSuffice, ResultsAgree, PTL DEF QueueSafe

\* Every task goes through its lifecycle, and a revoked one leaves it.
THEOREM LifecycleHolds == Spec => LifecycleKept
BY RevocationHolds, Refinement, PTL DEF LifecycleKept

-----------------------------------------------------------------------------
(* The accounting of the counters *)

\* One more unit of one counter is one more in the sum.
LEMMA OneUnitMore ==
  ASSUME NEW S, NEW f \in [S -> Nat], NEW x \in S, IsFiniteSet(Units(f)),
         NEW g, g = [f EXCEPT ![x] = @ + 1]
  PROVE  /\ IsFiniteSet(Units(g)) /\ SumOver(f) \in Nat
         /\ SumOver(g) = SumOver(f) + 1
<1> DEFINE unit == <<x, f[x] + 1>>
<1>1. \A p : p \in Units(f) <=> \E y \in S : \E k \in 1..f[y] : p = <<y, k>>
  BY DEF Units
<1>2. g \in [S -> Nat] /\ g[x] = f[x] + 1 /\ \A y \in S : y # x => g[y] = f[y]
  OBVIOUS
<1>3. \A p : p \in Units(g) <=> \E y \in S : \E k \in 1..g[y] : p = <<y, k>>
  BY <1>2 DEF Units
<1>4. 1..f[x] + 1 = (1..f[x]) \cup {f[x] + 1} /\ f[x] + 1 \notin 1..f[x]
  OBVIOUS
<1>5. unit \notin Units(f)
  BY <1>1, <1>4
<1>6. ASSUME NEW p, p \in Units(g) PROVE p \in Units(f) \cup {unit}
  <2>1. PICK y \in S : \E k \in 1..g[y] : p = <<y, k>>
    BY <1>3, <1>6
  <2>2. PICK k \in 1..g[y] : p = <<y, k>>
    BY <2>1
  <2>3. CASE y = x
    BY <1>1, <1>2, <1>4, <2>2, <2>3
  <2>4. CASE y # x
    BY <1>1, <1>2, <2>2, <2>4
  <2> QED BY <2>3, <2>4
<1>7. ASSUME NEW p, p \in Units(f) PROVE p \in Units(g)
  <2>1. PICK y \in S : \E k \in 1..f[y] : p = <<y, k>>
    BY <1>1, <1>7
  <2>2. PICK k \in 1..f[y] : p = <<y, k>>
    BY <2>1
  <2>3. 1..f[y] \subseteq 1..g[y]
    BY <1>2, <1>4
  <2> QED BY <1>3, <2>2, <2>3
<1>8. unit \in Units(g)
  <2>1. f[x] + 1 \in 1..g[x]
    BY <1>2, <1>4
  <2> QED BY <1>3, <2>1
<1> HIDE DEF unit
<1>9. Units(g) = Units(f) \cup {unit}
  BY <1>6, <1>7, <1>8
<1>10. /\ IsFiniteSet(Units(f) \cup {unit}) /\ Cardinality(Units(f)) \in Nat
       /\ Cardinality(Units(f) \cup {unit}) = Cardinality(Units(f)) + 1
  BY <1>5, FS_AddElement, FS_CardinalityType
<1> QED BY <1>9, <1>10 DEF SumOver

UnitsFinite ==
  /\ IsFiniteSet(Units(retry_count)) /\ IsFiniteSet(Units(processed))
  /\ IsFiniteSet(Units(failed)) /\ IsFiniteSet(Units(retried))

AccInv == UnitsFinite /\ Accounting

\* The queue's totals, for a step that leaves the tasks where they are.
HeapCounted == total_enqueued - total_dequeued = Cardinality(heap)
TasksCounted ==
  total_enqueued + Cardinality(unsubmitted) + Cardinality(delayed)
    = Cardinality(Tasks) + SumOver(retry_count)

LEMMA TasksFinite ==
  ASSUME NEW S \in SUBSET Tasks
  PROVE  IsFiniteSet(S) /\ Cardinality(S) \in Nat
BY TasksAssumption, FS_Subset, FS_CardinalityType

LEMMA OneTaskMore ==
  ASSUME NEW S \in SUBSET Tasks, NEW t \in Tasks
  PROVE  /\ Cardinality(S) \in Nat
         /\ t \notin S => Cardinality(S \cup {t}) = Cardinality(S) + 1
         /\ t \in S => Cardinality(S \ {t}) = Cardinality(S) - 1
BY TasksFinite, FS_AddElement, FS_RemoveElement

LEMMA SameCounts ==
  ASSUME NEW s, \A t \in Tasks : status'[t] = s <=> status[t] = s
  PROVE  Count(s)' = Count(s)
BY DEF Count

\* Enqueueing: the task leaves its client or its delay and is counted.
LEMMA EnqueueCounts ==
  ASSUME IInv, AccInv, NEW t \in Tasks, Submit(t) \/ Requeue(t)
  PROVE  AccInv'
<1>1. /\ heap' = heap \cup {t} /\ total_enqueued' = total_enqueued + 1
      /\ UNCHANGED <<total_dequeued, retry_count, processed, failed, retried>>
  BY DEF Submit, Requeue, Enqueue, counterVars
<1>2. TypeOK /\ NoTwoOwners /\ AtRest
  BY DEF IInv
<1>3. t \notin heap
  BY <1>2 DEF NoTwoOwners, Submit, Requeue
<1>4. Cardinality(heap') = Cardinality(heap) + 1 /\ Cardinality(heap) \in Nat
  BY <1>1, <1>2, <1>3, OneTaskMore DEF TypeOK
<1>5. total_enqueued \in Nat /\ total_dequeued \in Nat
      /\ unsubmitted \in SUBSET Tasks /\ delayed \in SUBSET Tasks
  BY <1>2 DEF TypeOK
<1>6. HeapCounted'
  BY <1>1, <1>4, <1>5 DEF AccInv, Accounting, HeapCounted
<1>7. Cardinality(unsubmitted') + Cardinality(delayed')
        = Cardinality(unsubmitted) + Cardinality(delayed) - 1
      /\ Cardinality(unsubmitted) \in Nat /\ Cardinality(delayed) \in Nat
      /\ Cardinality(unsubmitted') \in Nat /\ Cardinality(delayed') \in Nat
  <2>1. CASE Submit(t)
    <3>1. t \in unsubmitted /\ unsubmitted' = unsubmitted \ {t} /\ delayed' = delayed
      BY <2>1 DEF Submit
    <3> QED BY <1>5, <3>1, OneTaskMore, TasksFinite
  <2>2. CASE Requeue(t)
    <3>1. t \in delayed /\ delayed' = delayed \ {t} /\ unsubmitted' = unsubmitted
      BY <2>2 DEF Requeue, clientVars
    <3> QED BY <1>5, <3>1, OneTaskMore, TasksFinite
  <2> QED BY <2>1, <2>2
<1>8. TasksCounted'
  <2>1. SumOver(retry_count') = SumOver(retry_count) /\ TasksCounted
    BY <1>1 DEF AccInv, Accounting, TasksCounted
  <2> QED BY <1>1, <1>5, <1>7, <2>1 DEF TasksCounted
<1>9. Count("SUCCESS")' = Count("SUCCESS") /\ Count("FAILED")' = Count("FAILED")
  <2>1. \A u \in Tasks : status'[u] = status[u] \/ (u = t /\ status[u] \in {"PENDING", "RETRYING"}
                                                    /\ status'[u] = "PENDING")
    BY <1>2 DEF TypeOK, AtRest, Submit, Requeue
  <2> QED BY <2>1, SameCounts
<1> QED BY <1>1, <1>6, <1>8, <1>9 DEF AccInv, Accounting, UnitsFinite, HeapCounted, TasksCounted

\* Popping counts what leaves the heap and drops only what had no verdict.
LEMMA PopCounts ==
  ASSUME IInv, AccInv, NEW P \in SUBSET heap, PopAll(P)
  PROVE  AccInv'
<1>1. /\ heap' = heap \ P /\ total_dequeued' = total_dequeued + Cardinality(P)
      /\ status' = [t \in Tasks |-> IF t \in P \cap revoked THEN "REVOKED" ELSE status[t]]
      /\ UNCHANGED <<unsubmitted, retry_count, total_enqueued, processed, failed, retried, delayed>>
  BY DEF PopAll, counterVars
<1>2. TypeOK /\ AtRest
  BY DEF IInv
<1>3. /\ heap \in SUBSET Tasks /\ P \in SUBSET Tasks
      /\ total_enqueued \in Nat /\ total_dequeued \in Nat
  BY <1>2 DEF TypeOK
<1>4. /\ Cardinality(heap') = Cardinality(heap) - Cardinality(P)
      /\ Cardinality(heap) \in Nat /\ Cardinality(P) \in Nat
  <2>1. heap \cap P = P
    OBVIOUS
  <2>2. IsFiniteSet(heap) /\ Cardinality(heap) \in Nat /\ Cardinality(P) \in Nat
    BY <1>3, TasksFinite
  <2>3. Cardinality(heap \ P) = Cardinality(heap) - Cardinality(P)
    BY <2>1, <2>2, FS_Difference
  <2> QED BY <1>1, <2>2, <2>3
<1>5. HeapCounted'
  BY <1>1, <1>3, <1>4 DEF AccInv, Accounting, HeapCounted
<1>6. Count("SUCCESS")' = Count("SUCCESS") /\ Count("FAILED")' = Count("FAILED")
  <2>1. \A u \in Tasks : status'[u] = status[u] \/ (status[u] = "PENDING" /\ status'[u] = "REVOKED")
    BY <1>1, <1>2, <1>3 DEF AtRest
  <2> QED BY <2>1, SameCounts
<1> QED BY <1>1, <1>5, <1>6 DEF AccInv, Accounting, UnitsFinite, HeapCounted

\* A verdict adds one to the worker's counter and one task to those that have it.
LEMMA VerdictCounts ==
  ASSUME IInv, NEW w \in Workers, NEW s, NEW counter \in [Workers -> Nat],
         pc[w] = "executing", status' = [status EXCEPT ![current[w]] = s],
         s \in {"SUCCESS", "FAILED"}, IsFiniteSet(Units(counter)),
         SumOver(counter) = Count(s), NEW after, after = [counter EXCEPT ![w] = @ + 1]
  PROVE  /\ IsFiniteSet(Units(after)) /\ SumOver(after) = Count(s)'
         /\ \A r \in {"SUCCESS", "FAILED"} \ {s} : Count(r)' = Count(r)
<1> DEFINE t == current[w]
           had == {u \in Tasks : status[u] = s}
<1>1. t \in Tasks /\ status[t] = "RUNNING" /\ status \in [Tasks -> TaskStatus]
  BY DEF IInv, InHand, Holding, TypeOK
<1>2. {u \in Tasks : status'[u] = s} = had \cup {t} /\ t \notin had /\ had \in SUBSET Tasks
  BY <1>1
<1>3. Count(s)' = Count(s) + 1
  <2>1. Cardinality(had \cup {t}) = Cardinality(had) + 1
    BY <1>1, <1>2, OneTaskMore
  <2> QED BY <1>2, <2>1 DEF Count
<1>4. IsFiniteSet(Units(after)) /\ SumOver(after) = SumOver(counter) + 1
  BY OneUnitMore
<1>5. ASSUME NEW r \in {"SUCCESS", "FAILED"} \ {s} PROVE Count(r)' = Count(r)
  <2>1. \A u \in Tasks : status'[u] = r <=> status[u] = r
    BY <1>1
  <2> QED BY <2>1, SameCounts
<1> QED BY <1>3, <1>4, <1>5

LEMMA SucceedCounts ==
  ASSUME IInv, AccInv, NEW w \in Workers, Succeed(w)
  PROVE  AccInv'
<1>1. /\ pc[w] = "executing" /\ status' = [status EXCEPT ![current[w]] = "SUCCESS"]
      /\ processed' = [processed EXCEPT ![w] = @ + 1]
      /\ UNCHANGED <<unsubmitted, heap, total_enqueued, total_dequeued, delayed, retry_count,
                     retried, failed>>
  BY DEF Succeed, clientVars, queueVars
<1>2. processed \in [Workers -> Nat] /\ IsFiniteSet(Units(processed))
      /\ SumOver(processed) = Count("SUCCESS")
  BY DEF IInv, TypeOK, AccInv, Accounting, UnitsFinite
<1>3. /\ IsFiniteSet(Units(processed')) /\ SumOver(processed') = Count("SUCCESS")'
      /\ Count("FAILED")' = Count("FAILED")
  BY <1>1, <1>2, VerdictCounts
<1> QED BY <1>1, <1>3 DEF AccInv, Accounting, UnitsFinite

LEMMA FailureCounts ==
  ASSUME IInv, AccInv, NEW w \in Workers, Fail(w) \/ TimeOut(w)
  PROVE  AccInv'
<1> DEFINE t == current[w]
<1>1. /\ pc[w] = "executing" /\ t \in Tasks /\ status[t] = "RUNNING" /\ HandleFailure(w)
      /\ UNCHANGED <<unsubmitted, heap, total_enqueued, total_dequeued, processed>>
  BY DEF Fail, TimeOut, IInv, InHand, Holding, clientVars, queueVars
<1>2. TypeOK /\ NoTwoOwners
  BY DEF IInv
<1>3. CASE ScheduleRetry(w)
  <2>1. /\ retry_count' = [retry_count EXCEPT ![t] = @ + 1]
        /\ status' = [status EXCEPT ![t] = "RETRYING"]
        /\ retried' = [retried EXCEPT ![w] = @ + 1]
        /\ delayed' = delayed \cup {t} /\ failed' = failed
    BY <1>3 DEF ScheduleRetry
  <2>2. t \notin delayed
    BY <1>1, <1>2 DEF NoTwoOwners, Held, Holds, Holding
  <2> HIDE DEF t
  <2>3. /\ Cardinality(delayed') = Cardinality(delayed) + 1 /\ Cardinality(delayed) \in Nat
        /\ Cardinality(unsubmitted) \in Nat
    BY <1>1, <1>2, <2>1, <2>2, OneTaskMore DEF TypeOK
  <2>4. /\ IsFiniteSet(Units(retry_count')) /\ SumOver(retry_count) \in Nat
        /\ SumOver(retry_count') = SumOver(retry_count) + 1
    <3>1. retry_count \in [Tasks -> Nat] /\ IsFiniteSet(Units(retry_count))
      BY <1>2 DEF TypeOK, AccInv, UnitsFinite
    <3> QED BY <1>1, <2>1, <3>1, OneUnitMore
  <2>5. /\ IsFiniteSet(Units(retried')) /\ SumOver(retried) \in Nat
        /\ SumOver(retried') = SumOver(retried) + 1
    <3>1. retried \in [Workers -> Nat] /\ IsFiniteSet(Units(retried))
      BY <1>2 DEF TypeOK, AccInv, UnitsFinite
    <3> QED BY <2>1, <3>1, OneUnitMore
  <2>6. TasksCounted'
    <3>1. TasksCounted /\ total_enqueued \in Nat /\ Cardinality(Tasks) \in Nat
      BY <1>2, TasksFinite DEF AccInv, Accounting, TasksCounted, TypeOK
    <3> QED BY <1>1, <2>3, <2>4, <3>1 DEF TasksCounted
  <2>7. Count("SUCCESS")' = Count("SUCCESS") /\ Count("FAILED")' = Count("FAILED")
    <3>1. \A u \in Tasks : status'[u] = status[u]
                             \/ (status[u] = "RUNNING" /\ status'[u] = "RETRYING")
      BY <1>1, <1>2, <2>1 DEF TypeOK
    <3> QED BY <3>1, SameCounts
  <2>8. SumOver(retried') = SumOver(retry_count')
    BY <2>4, <2>5 DEF AccInv, Accounting
  <2> QED BY <1>1, <2>1, <2>4, <2>5, <2>6, <2>7, <2>8
          DEF AccInv, Accounting, UnitsFinite, TasksCounted
<1>4. CASE FailPermanently(w)
  <2>1. /\ status' = [status EXCEPT ![t] = "FAILED"]
        /\ failed' = [failed EXCEPT ![w] = @ + 1]
        /\ UNCHANGED <<retry_count, retried, delayed>>
    BY <1>4 DEF FailPermanently
  <2>2. failed \in [Workers -> Nat] /\ IsFiniteSet(Units(failed))
        /\ SumOver(failed) = Count("FAILED")
    BY DEF IInv, TypeOK, AccInv, Accounting, UnitsFinite
  <2>3. /\ IsFiniteSet(Units(failed')) /\ SumOver(failed') = Count("FAILED")'
        /\ Count("SUCCESS")' = Count("SUCCESS")
    BY <1>1, <2>1, <2>2, VerdictCounts
  <2> QED BY <1>1, <2>1, <2>3 DEF AccInv, Accounting, UnitsFinite
<1> QED BY <1>1, <1>3, <1>4 DEF HandleFailure

\* All other steps move no task and count nothing.
LEMMA QuietCounts ==
  ASSUME AccInv, UNCHANGED <<unsubmitted, heap, total_enqueued, total_dequeued, delayed,
                             retry_count, processed, failed, retried>>,
         \A t \in Tasks : status'[t] = status[t]
                            \/ (status[t] = "PENDING" /\ status'[t] = "RUNNING")
  PROVE  AccInv'
<1>1. Count("SUCCESS")' = Count("SUCCESS") /\ Count("FAILED")' = Count("FAILED")
  BY SameCounts
<1> QED BY <1>1 DEF AccInv, Accounting, UnitsFinite

LEMMA AccStep == ASSUME IInv, AccInv, [Next]_vars PROVE AccInv'
<1>1. ASSUME NEW t \in Tasks, Submit(t) \/ Requeue(t) PROVE AccInv'
  BY <1>1, EnqueueCounts
<1>2. ASSUME NEW t \in Tasks, Revoke(t) \/ ZombieEnds(t) \/ GetExpired(t) PROVE AccInv'
  BY <1>2, QuietCounts DEF Revoke, ZombieEnds, GetExpired, clientVars, queueVars, counterVars
<1>3. ASSUME NEW w \in Workers,
             Start(w) \/ Stop(w) \/ Exit(w) \/ WaitOrGiveUp(w) \/ StoreResult(w)
      PROVE  AccInv'
  BY <1>3, QuietCounts
     DEF Start, Stop, Exit, WaitOrGiveUp, StoreResult, clientVars, queueVars, counterVars
<1>4. ASSUME NEW w \in Workers, (\E t \in Tasks : Take(w, t)) \/ DropRevoked(w) PROVE AccInv'
  <2>1. PICK P \in SUBSET heap : PopAll(P)
    BY <1>4 DEF Take, DropRevoked
  <2> QED BY <2>1, PopCounts
<1>5. ASSUME NEW w \in Workers, Begin(w) PROVE AccInv'
  <2>1. /\ status' = [status EXCEPT ![current[w]] = "RUNNING"]
        /\ UNCHANGED <<unsubmitted, heap, total_enqueued, total_dequeued, delayed,
                       retry_count, processed, failed, retried>>
    BY <1>5 DEF Begin, clientVars, queueVars, counterVars
  <2>2. status[current[w]] = "PENDING" /\ status \in [Tasks -> TaskStatus]
    BY <1>5 DEF Begin, IInv, InHand, TypeOK
  <2> QED BY <2>1, <2>2, QuietCounts
<1>6. ASSUME NEW w \in Workers, Succeed(w) PROVE AccInv'
  BY <1>6, SucceedCounts
<1>7. ASSUME NEW w \in Workers, Fail(w) \/ TimeOut(w) PROVE AccInv'
  BY <1>7, FailureCounts
<1>8. CASE UNCHANGED vars
  BY <1>8, QuietCounts DEF vars
<1> QED BY <1>1, <1>2, <1>3, <1>4, <1>5, <1>6, <1>7, <1>8 DEF Next, RunLoop, Dequeue

LEMMA AccInitInv == ASSUME Init PROVE AccInv
<1>1. /\ Units(retry_count) = {} /\ Units(processed) = {}
      /\ Units(failed) = {} /\ Units(retried) = {}
  BY DEF Init, Units
<1>2. Cardinality({}) = 0 /\ IsFiniteSet({})
  BY FS_EmptySet
<1>3. Count("SUCCESS") = 0 /\ Count("FAILED") = 0
  <2>1. {t \in Tasks : status[t] = "SUCCESS"} = {} /\ {t \in Tasks : status[t] = "FAILED"} = {}
    BY DEF Init
  <2> QED BY <1>2, <2>1 DEF Count
<1>4. Cardinality(Tasks) \in Nat
  BY TasksFinite
<1> QED BY <1>1, <1>2, <1>3, <1>4 DEF Init, AccInv, Accounting, UnitsFinite, SumOver

\* stats(), the totals of the queue and the verdicts of the tasks agree, for any
\* number of tasks and workers.
THEOREM Accounted == Spec => []Accounting
<1>1. Init => AccInv
  BY AccInitInv
<1>2. IInv /\ AccInv /\ [Next]_vars => AccInv'
  BY AccStep
<1>3. AccInv => Accounting
  BY DEF AccInv
<1> QED BY <1>1, <1>2, <1>3, Invariance, PTL DEF Spec

=============================================================================
