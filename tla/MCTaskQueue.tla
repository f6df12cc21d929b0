----------------------------- MODULE MCTaskQueue -----------------------------
(***************************************************************************)
(* Instances of TaskQueue for TLC, and the accounting between the counters  *)
(* of the queue, of the workers and of the tasks.                           *)
(***************************************************************************)
EXTENDS TaskQueue, TLC

CONSTANTS t1, t2, w1, w2

MCTasks     == {t1, t2}
MCWorkers   == {w1, w2}
\* t1 may be abandoned on a timeout and retried once; t2 is more urgent.
MCRetries   == (t1 :> 1) @@ (t2 :> 0)
MCTimeout   == (t1 :> TRUE) @@ (t2 :> FALSE)
MCPriority  == (t1 :> 2) @@ (t2 :> 1)
MCCreated   == (t1 :> 1) @@ (t2 :> 2)

\* The sum of a counter over its threads or tasks, as the number of units it
\* has counted.
Units(f)   == UNION {{x} \X (1..f[x]) : x \in DOMAIN f}
SumOver(f) == Cardinality(Units(f))
Count(s)   == Cardinality({t \in Tasks : status[t] = s})

\* stats() and the queue's totals tell the truth together: what was enqueued
\* is what was submitted and requeued, what was not dequeued is in the heap,
\* and the workers' counters add up to the verdicts and retries of the tasks.
Accounting ==
  /\ total_enqueued - total_dequeued = Cardinality(heap)
  /\ total_enqueued + Cardinality(unsubmitted) + Cardinality(delayed)
       = Cardinality(Tasks) + SumOver(retry_count)
  /\ SumOver(processed) = Count("SUCCESS")
  /\ SumOver(failed) = Count("FAILED")
  /\ SumOver(retried) = SumOver(retry_count)
=============================================================================
