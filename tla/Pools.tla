---------------------------------- MODULE Pools ----------------------------------
(***************************************************************************)
(* What async_workers runs in parallel.  One list of inputs in three ways:  *)
(* FanOutFanIn.execute (threads in batches, each joined before the next),   *)
(* ProcessPoolWorker.map (an executor, results taken as they complete) and  *)
(* AsyncWorker.run_batch (a semaphore and gather).  And single jobs, with   *)
(* somebody who waits for them: BackgroundJobService and ThreadPoolWorker.  *)
(***************************************************************************)
EXTENDS Naturals, Sequences, FiniteSets

CONSTANTS NumJobs, max_workers, BgJobs, Unknown

ASSUME PoolAssumption == NumJobs \in Nat \ {0} /\ max_workers \in Nat \ {0}

ASSUME JobsAssumption ==
  Unknown \notin {"returned", "raised", "COMPLETE", "FAILED", "TIMEOUT"}

VARIABLES
  pattern,      \* which of the three it is
  job,          \* each input: waiting, running, or how its function ended
  batch_start,  \* execute: the first input of the batch under way
  collected,    \* map: the inputs whose future has been taken
  completed, failed,   \* the pool's counters
  results,      \* what the call returns, as the inputs the results are of
  returned

poolVars == <<pattern, job, batch_start, collected, completed, failed, results, returned>>

Jobs == 1..NumJobs
Ended == {"value", "none", "error"}

PoolInit ==
  /\ pattern \in {"fan-out", "map", "gather"}
  /\ job = [j \in Jobs |-> "waiting"]
  /\ batch_start = 1
  /\ collected = {} /\ completed = 0 /\ failed = 0
  /\ results = <<>> /\ returned = FALSE

Running == {j \in Jobs : job[j] = "running"}

StartThread(j) ==
  /\ pattern = "fan-out" /\ job[j] = "waiting"
  /\ batch_start <= j /\ j < batch_start + max_workers
  /\ \A i \in batch_start..(j - 1) : job[i] # "waiting"
  /\ job' = [job EXCEPT ![j] = "running"]
  /\ UNCHANGED <<pattern, batch_start, collected, completed, failed, results, returned>>

\* The executor, or the semaphore, takes the next in line when a place is free.
TakeUp(j) ==
  /\ pattern # "fan-out" /\ job[j] = "waiting"
  /\ Cardinality(Running) < max_workers
  /\ \A i \in 1..(j - 1) : job[i] # "waiting"
  /\ job' = [job EXCEPT ![j] = "running"]
  /\ UNCHANGED <<pattern, batch_start, collected, completed, failed, results, returned>>

\* The function returns a value, or None, or raises; in _run_with_semaphore the
\* counter is part of the same step of the event loop.
JobEnds(j, how) ==
  /\ job[j] = "running"
  /\ job' = [job EXCEPT ![j] = how]
  /\ completed' = IF pattern = "gather" /\ how # "error" THEN completed + 1 ELSE completed
  /\ failed' = IF pattern = "gather" /\ how = "error" THEN failed + 1 ELSE failed
  /\ UNCHANGED <<pattern, batch_start, collected, results, returned>>

\* Mutant: the next batch is started without joining this one.
JoinNobody ==
  /\ pattern = "fan-out" /\ batch_start <= NumJobs
  /\ \A j \in Jobs : j < batch_start + max_workers => job[j] # "waiting"
  /\ batch_start' = batch_start + max_workers
  /\ UNCHANGED <<pattern, job, collected, completed, failed, results, returned>>

JoinBatch ==
  /\ pattern = "fan-out" /\ batch_start <= NumJobs
  /\ \A j \in Jobs : j < batch_start + max_workers => job[j] \in Ended
  /\ batch_start' = batch_start + max_workers
  /\ UNCHANGED <<pattern, job, collected, completed, failed, results, returned>>

\* [r for r in results if r is not None]: the inputs of V in the order of the list,
\* written as a recursive function so that what it returns can be proved.
InOrder(V) ==
  LET sift[j \in 0..NumJobs] ==
        IF j = 0 THEN <<>> ELSE IF j \in V THEN Append(sift[j - 1], j) ELSE sift[j - 1]
  IN  sift[NumJobs]

FanIn ==
  /\ pattern = "fan-out" /\ batch_start > NumJobs /\ ~returned
  /\ results' = InOrder({j \in Jobs : job[j] = "value"})
  /\ returned' = TRUE
  /\ UNCHANGED <<pattern, job, batch_start, collected, completed, failed>>

\* as_completed hands out the futures that are done, in any order.
CollectCompleted(j) ==
  /\ pattern = "map" /\ job[j] \in Ended /\ j \notin collected
  /\ collected' = collected \cup {j}
  /\ results' = Append(results, j)
  /\ IF job[j] = "error"
     THEN failed' = failed + 1 /\ UNCHANGED completed
     ELSE completed' = completed + 1 /\ UNCHANGED failed
  /\ returned' = (collected' = Jobs)
  /\ UNCHANGED <<pattern, job, batch_start>>

Gather ==
  /\ pattern = "gather" /\ ~returned
  /\ \A j \in Jobs : job[j] \in Ended
  /\ results' = [j \in Jobs |-> j]
  /\ returned' = TRUE
  /\ UNCHANGED <<pattern, job, batch_start, collected, completed, failed>>

End(j)         == \E how \in Ended : JobEnds(j, how)
FanOutFanIn    == (\E j \in Jobs : StartThread(j) \/ End(j)) \/ JoinBatch \/ FanIn
MapInProcesses == \E j \in Jobs : TakeUp(j) \/ End(j) \/ CollectCompleted(j)
RunBatch       == (\E j \in Jobs : TakeUp(j) \/ End(j)) \/ Gather

PoolNext == FanOutFanIn \/ MapInProcesses \/ RunBatch

PoolSpec == PoolInit /\ [][PoolNext]_poolVars
-----------------------------------------------------------------------------
(* Single jobs in the background *)

VARIABLES
  how,         \* "service" or "pool"
  job_status,  \* the status of each job: _jobs, or Task.status
  ran,         \* how the function of each job ended, or Unknown
  thread,      \* where the thread of each job stands
  futures,     \* ThreadPoolWorker._futures
  counted,     \* the jobs in the counters completed and failed
  waiting_for, \* the futures each call of wait_all waits for
  asker,       \* where the client that polls a job, or submits one and waits, stands
  told,        \* what the poll of each job returned
  before       \* history: the tasks submitted by anybody before each wait_all

jobVars == <<how, job_status, ran, thread, futures, counted, waiting_for, asker, told, before>>

JobsInit ==
  /\ how \in {"service", "pool"}
  /\ job_status = [j \in BgJobs |-> "PENDING"]
  /\ ran = [j \in BgJobs |-> Unknown]
  /\ thread = [j \in BgJobs |-> "none"]
  /\ futures = {} /\ counted = {}
  /\ waiting_for = [j \in BgJobs |-> {}] /\ before = [j \in BgJobs |-> {}]
  /\ asker = [j \in BgJobs |-> "submitting"]
  /\ told = [j \in BgJobs |-> Unknown]

ThreadAt(j, label) == thread' = [thread EXCEPT ![j] = label]
AskerAt(j, label)  == asker' = [asker EXCEPT ![j] = label]
StatusIs(j, s)     == job_status' = [job_status EXCEPT ![j] = s]

-----------------------------------------------------------------------------
(* BackgroundJobService, whose clients poll until a deadline *)

SubmitJob(j) ==
  /\ how = "service" /\ asker[j] = "submitting"
  /\ StatusIs(j, "PENDING") /\ ThreadAt(j, "starting") /\ AskerAt(j, "polling")
  /\ UNCHANGED <<how, ran, futures, counted, waiting_for, told, before>>

RunStarts(j) ==
  /\ how = "service" /\ thread[j] = "starting"
  /\ StatusIs(j, "RUNNING") /\ ThreadAt(j, "running")
  /\ UNCHANGED <<how, ran, futures, counted, waiting_for, asker, told, before>>

FunctionEnds(j) ==
  /\ thread[j] = "running"
  /\ \E end \in {"returned", "raised"} : ran' = [ran EXCEPT ![j] = end]
  /\ ThreadAt(j, "reporting")
  /\ UNCHANGED <<how, job_status, futures, counted, waiting_for, asker, told, before>>

RunReports(j) ==
  /\ how = "service" /\ thread[j] = "reporting"
  /\ StatusIs(j, IF ran[j] = "returned" THEN "COMPLETE" ELSE "FAILED")
  /\ ThreadAt(j, "ended")
  /\ UNCHANGED <<how, ran, futures, counted, waiting_for, asker, told, before>>

GetStatus(j) ==
  /\ how = "service" /\ asker[j] = "polling"
  /\ IF job_status[j] \in {"COMPLETE", "FAILED"}
     THEN told' = [told EXCEPT ![j] = job_status[j]] /\ AskerAt(j, "answered")
     ELSE UNCHANGED <<told, asker>>
  /\ UNCHANGED <<how, job_status, ran, thread, futures, counted, waiting_for, before>>

DeadlinePasses(j) ==
  /\ how = "service" /\ asker[j] = "polling"
  /\ told' = [told EXCEPT ![j] = "TIMEOUT"]
  /\ AskerAt(j, "answered")
  /\ UNCHANGED <<how, job_status, ran, thread, futures, counted, waiting_for, before>>

-----------------------------------------------------------------------------
(* ThreadPoolWorker, whose wait_all waits for the futures it finds registered *)

SubmitTask(j) ==
  /\ how = "pool" /\ asker[j] = "submitting"
  /\ StatusIs(j, "RUNNING") /\ ThreadAt(j, "running") /\ AskerAt(j, "registering")
  /\ UNCHANGED <<how, ran, futures, counted, waiting_for, told, before>>

RegisterFuture(j) ==
  /\ how = "pool" /\ asker[j] = "registering"
  /\ futures' = futures \cup {j}
  /\ AskerAt(j, "submitted")
  /\ UNCHANGED <<how, job_status, ran, thread, counted, waiting_for, told, before>>

TaskReports(j) ==
  /\ how = "pool" /\ thread[j] = "reporting"
  /\ StatusIs(j, IF ran[j] = "returned" THEN "SUCCESS" ELSE "FAILED")
  /\ ThreadAt(j, "counting")
  /\ UNCHANGED <<how, ran, futures, counted, waiting_for, asker, told, before>>

\* The counter is raised before run_task returns and its future is done.
CountTask(j) ==
  /\ how = "pool" /\ thread[j] = "counting"
  /\ counted' = counted \cup {j}
  /\ ThreadAt(j, "ended")
  /\ UNCHANGED <<how, job_status, ran, futures, waiting_for, asker, told, before>>

Submitted == {j \in BgJobs : asker[j] \notin {"submitting", "registering"}}

WaitFor(j, awaited) ==
  /\ how = "pool" /\ asker[j] \in {"submitted", "gave_up"}
  /\ waiting_for' = [waiting_for EXCEPT ![j] = awaited]
  /\ before' = [before EXCEPT ![j] = Submitted]
  /\ AskerAt(j, "waiting")
  /\ UNCHANGED <<how, job_status, ran, thread, futures, counted, told>>

\* Mutant: it waits for the future of the caller's own task.
WaitForOwn(j) == WaitFor(j, {j})

\* list(self._futures.values()): whatever is registered by now.
WaitAllBegins(j) == WaitFor(j, futures)

WaitEnds(j, label) ==
  /\ how = "pool" /\ asker[j] = "waiting"
  /\ AskerAt(j, label)
  /\ UNCHANGED <<how, job_status, ran, thread, futures, counted, waiting_for, told, before>>

\* Mutant: return_when=FIRST_COMPLETED.
WaitAllReturnsFirst(j) ==
  WaitEnds(j, "answered") /\ \E k \in waiting_for[j] : thread[k] = "ended"

WaitAllReturns(j) ==
  WaitEnds(j, "answered") /\ \A k \in waiting_for[j] : thread[k] = "ended"

\* With a timeout it returns all the same, and says nothing.
WaitAllTimesOut(j) == WaitEnds(j, "gave_up")

Serve(j) == \/ SubmitJob(j) \/ RunStarts(j) \/ FunctionEnds(j) \/ RunReports(j)
            \/ GetStatus(j) \/ DeadlinePasses(j)
Pool(j)  == \/ SubmitTask(j) \/ RegisterFuture(j) \/ FunctionEnds(j) \/ TaskReports(j)
            \/ CountTask(j) \/ WaitAllBegins(j) \/ WaitAllReturns(j) \/ WaitAllTimesOut(j)

JobsNext == \E j \in BgJobs : Serve(j) \/ Pool(j)

JobsSpec == JobsInit /\ [][JobsNext]_jobVars
-----------------------------------------------------------------------------
\* No more run at once than max_workers; fan-in sees every sub-task that gave a
\* value, in input order, whatever failed; map and gather return one result for
\* each input and have counted each once.
OneResultEach ==
  /\ Cardinality(Running) <= max_workers
  /\ returned =>
       /\ \A j \in Jobs : job[j] \in Ended
       /\ pattern = "fan-out" =>
            /\ {results[k] : k \in DOMAIN results} = {j \in Jobs : job[j] = "value"}
            /\ \A k, l \in DOMAIN results : k < l => results[k] < results[l]
       /\ pattern # "fan-out" =>
            /\ Len(results) = NumJobs
            /\ {results[k] : k \in DOMAIN results} = Jobs
            /\ failed = Cardinality({j \in Jobs : job[j] = "error"})
            /\ completed + failed = NumJobs

\* A client that was told a job's outcome was told how its function ended and
\* the record still says so; when a wait_all returns that was given no timeout, or
\* not too short a one, every task that anybody had submitted before it was called is
\* finished, with its outcome and counted, however many wait or submit meanwhile.
AnswersFinal ==
  \A j \in BgJobs :
    /\ told[j] = "COMPLETE" => ran[j] = "returned" /\ job_status[j] = "COMPLETE"
    /\ told[j] = "FAILED"   => ran[j] = "raised" /\ job_status[j] = "FAILED"
    /\ (how = "pool" /\ asker[j] = "answered") => \A k \in before[j] :
         /\ k \in counted
         /\ job_status[k] = (IF ran[k] = "returned" THEN "SUCCESS" ELSE "FAILED")

\* ProcessPoolWorker.map: "Results in the same order as input".
MapKeepsOrder == (pattern = "map" /\ returned) => results = [j \in Jobs |-> j]
=============================================================================
