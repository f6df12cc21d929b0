------------------------------ MODULE MCWorkflows ------------------------------
(***************************************************************************)
(* Instances of what is done once, in order or not at all, for TLC: the     *)
(* delivery guarantees, the outbox, the row patterns and the HTTP methods   *)
(* of idempotency, and the patterns and worker pools of async_workers. They *)
(* share nothing, so a behaviour is one of them: `system` says which, and   *)
(* the others stay as they began.                                           *)
(***************************************************************************)
EXTENDS Delivery, RowPatterns, HttpMethods, Saga, Batching, Pools, TLC

CONSTANTS c1, c2, i1, i2, i3, m1, m2, n1, n2, o1, o2, p1, p2

VARIABLE system

onceVars  == <<deliveryVars, outboxVars, rowVars, httpVars>>
asyncVars == <<sagaVars, batchVars, poolVars, jobVars>>
mcVars    == <<system, onceVars, asyncVars>>

MCProducers  == {p1, p2}
MCConsumers  == {c1, c2}
MCMessageIds == {m1, m2}
MCRetries    == (p1 :> 1) @@ (p2 :> 0)
MCOrders     == {o1, o2}
MCNames      == {n1, n2}
MCItems      == {i1, i2, i3}

Init ==
  /\ system \in {"delivery", "outbox", "rows", "http", "saga", "batch", "pool", "jobs"}
  /\ DeliveryInit /\ OutboxInit /\ RowInit /\ HttpInit
  /\ SagaInit /\ BatchInit /\ PoolInit /\ JobsInit
  /\ users[1].name = n1
  /\ system # "saga" => kind = "saga"
  /\ system # "pool" => pattern = "map"
  /\ system # "jobs" => how = "pool"

InOnce(A)     == A /\ UNCHANGED <<system, asyncVars>>
InDelivery(A) == system = "delivery" /\ InOnce(A) /\ UNCHANGED <<outboxVars, rowVars, httpVars>>
InOutbox(A)   == system = "outbox" /\ InOnce(A) /\ UNCHANGED <<deliveryVars, rowVars, httpVars>>
InRows(A)     == system = "rows" /\ InOnce(A) /\ UNCHANGED <<deliveryVars, outboxVars, httpVars>>
InHttp(A)     == system = "http" /\ InOnce(A) /\ UNCHANGED <<deliveryVars, outboxVars, rowVars>>

InAsync(A) == A /\ UNCHANGED <<system, onceVars>>
InSaga(A)  == system = "saga" /\ InAsync(A) /\ UNCHANGED <<batchVars, poolVars, jobVars>>
InBatch(A) == system = "batch" /\ InAsync(A) /\ UNCHANGED <<sagaVars, poolVars, jobVars>>
InPool(A)  == system = "pool" /\ InAsync(A) /\ UNCHANGED <<sagaVars, batchVars, jobVars>>
InJobs(A)  == system = "jobs" /\ InAsync(A) /\ UNCHANGED <<sagaVars, batchVars, poolVars>>

Next ==
  \/ InDelivery(DeliveryNext) \/ InOutbox(OutboxNext) \/ InRows(RowNext) \/ InHttp(HttpNext)
  \/ InSaga(SagaNext) \/ InBatch(BatchNext) \/ InPool(PoolNext) \/ InJobs(JobsNext)

Spec == Init /\ [][Next]_mcVars

\* The relay job is run again and again; threads that have begun to flush are
\* scheduled, the timer's loop goes round, and time passes.
FairSpec ==
  /\ Spec
  /\ \A r \in Relays : WF_mcVars(InOutbox(RelayOutbox(r)))
  /\ \A f \in Threads : WF_mcVars(InBatch(Flush(f)))
  /\ WF_mcVars(InBatch(TimerLoop))
  /\ WF_mcVars(InBatch(MaxWaitPasses))

\* The result of a job is the one its function gave, and whoever asks is told so
\* for good: OneResultEach of the pools, AnswersFinal of the background jobs
\* and of wait_all.
ResultsFinal == OneResultEach /\ AnswersFinal
=============================================================================
