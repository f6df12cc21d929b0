-------------------------------- MODULE WorkQueue --------------------------------
(***************************************************************************)
(* CompetingConsumersQueue of message_queue/patterns.py: workers take       *)
(* messages from one queue under its condition and handle them outside of   *)
(* it. They wait with a timeout of 0.1 s and look again, so that a waiting  *)
(* worker needs no notification to find a message.                          *)
(***************************************************************************)
EXTENDS Naturals, SequencesExt, FiniteSets

CONSTANTS WorkItems, PoolWorkers, NoItem

ASSUME WorkAssumption == NoItem \notin WorkItems /\ IsFiniteSet(PoolWorkers)

VARIABLES
  wq,            \* _queue
  entered,       \* history: the messages in the order they were enqueued
  begun,         \* history: the messages in the order they were taken
  wq_running,    \* _running
  worker_at,     \* where each worker stands in _worker_loop
  in_hand,       \* its local variable msg
  worked,        \* messages whose handler returned
  errors,        \* messages whose handler raised
  total_processed,   \* _stats["total_processed"], raised without the lock
  read_total

workVars == <<wq, entered, begun, wq_running, worker_at, in_hand, worked, errors,
              total_processed, read_total>>

WorkInit ==
  /\ wq = <<>> /\ entered = <<>> /\ begun = <<>>
  /\ wq_running = TRUE
  /\ worker_at = [w \in PoolWorkers |-> "loop"]
  /\ in_hand = [w \in PoolWorkers |-> NoItem]
  /\ worked = {} /\ errors = {}
  /\ total_processed = 0
  /\ read_total = [w \in PoolWorkers |-> 0]

WorkerAt(w, label) == worker_at' = [worker_at EXCEPT ![w] = label]

EnqueueWork(m) ==
  /\ m \notin ToSet(entered)
  /\ wq' = Append(wq, m) /\ entered' = Append(entered, m)
  /\ UNCHANGED <<begun, wq_running, worker_at, in_hand, worked, errors, total_processed, read_total>>

WorkerTests(w) ==
  /\ worker_at[w] = "loop"
  /\ WorkerAt(w, IF wq_running THEN "waiting" ELSE "exited")
  /\ UNCHANGED <<wq, entered, begun, wq_running, in_hand, worked, errors, total_processed, read_total>>

\* Mutant: the message is looked at in the queue and not taken out.
WorkerPeeks(w) ==
  /\ worker_at[w] = "waiting" /\ wq # <<>>
  /\ in_hand' = [in_hand EXCEPT ![w] = Head(wq)]
  /\ begun' = Append(begun, Head(wq))
  /\ WorkerAt(w, "handling")
  /\ UNCHANGED <<wq, entered, wq_running, worked, errors, total_processed, read_total>>

WorkerTakes(w) ==
  /\ worker_at[w] = "waiting" /\ wq # <<>>
  /\ in_hand' = [in_hand EXCEPT ![w] = Head(wq)]
  /\ begun' = Append(begun, Head(wq))
  /\ wq' = Tail(wq)
  /\ WorkerAt(w, "handling")
  /\ UNCHANGED <<entered, wq_running, worked, errors, total_processed, read_total>>

WorkerGivesUp(w) ==
  /\ worker_at[w] = "waiting" /\ wq = <<>> /\ ~wq_running
  /\ WorkerAt(w, "loop")
  /\ UNCHANGED <<wq, entered, begun, wq_running, in_hand, worked, errors, total_processed, read_total>>

HandlerReturns(w) ==
  /\ worker_at[w] = "handling"
  /\ worked' = worked \cup {in_hand[w]}
  /\ WorkerAt(w, "counting")
  /\ UNCHANGED <<wq, entered, begun, wq_running, in_hand, errors, total_processed, read_total>>

HandlerRaises(w) ==
  /\ worker_at[w] = "handling"
  /\ errors' = errors \cup {in_hand[w]}
  /\ in_hand' = [in_hand EXCEPT ![w] = NoItem]
  /\ WorkerAt(w, "loop")
  /\ UNCHANGED <<wq, entered, begun, wq_running, worked, total_processed, read_total>>

ReadStats(w) ==
  /\ worker_at[w] = "counting"
  /\ read_total' = [read_total EXCEPT ![w] = total_processed]
  /\ WorkerAt(w, "adding")
  /\ UNCHANGED <<wq, entered, begun, wq_running, in_hand, worked, errors, total_processed>>

WriteStats(w) ==
  /\ worker_at[w] = "adding"
  /\ total_processed' = read_total[w] + 1
  /\ in_hand' = [in_hand EXCEPT ![w] = NoItem]
  /\ WorkerAt(w, "loop")
  /\ UNCHANGED <<wq, entered, begun, wq_running, worked, errors, read_total>>

StopWorkers ==
  /\ wq_running /\ wq_running' = FALSE
  /\ UNCHANGED <<wq, entered, begun, worker_at, in_hand, worked, errors, total_processed, read_total>>

WorkerLoop(w) ==
  \/ WorkerTests(w) \/ WorkerTakes(w) \/ WorkerGivesUp(w)
  \/ HandlerReturns(w) \/ HandlerRaises(w) \/ ReadStats(w) \/ WriteStats(w)

WorkNext ==
  \/ \E m \in WorkItems : EnqueueWork(m)
  \/ \E w \in PoolWorkers : WorkerLoop(w)
  \/ StopWorkers

WorkSpec == WorkInit /\ [][WorkNext]_workVars
-----------------------------------------------------------------------------
Handling == {w \in PoolWorkers : worker_at[w] = "handling"}

\* "Each message goes to exactly ONE worker", in the order of the queue: what was
\* taken and what is left make up what was enqueued, every message taken is with
\* one worker or its handler has ended once, and the unlocked total never
\* counts more than was worked.
OneWorkerEach ==
  /\ begun \o wq = entered
  /\ Len(begun) = Cardinality(worked) + Cardinality(errors) + Cardinality(Handling)
  /\ worked \cap errors = {}
  /\ \A v, w \in Handling : in_hand[v] = in_hand[w] => v = w
  /\ total_processed <= Cardinality(worked)

\* A message is taken up for as long as nobody stops the workers.
Unworked(m)     == wq_running /\ m \in ToSet(entered) \ (worked \cup errors)
EveryItemWorked == \A m \in WorkItems : Unworked(m) ~> ~Unworked(m)
=============================================================================
