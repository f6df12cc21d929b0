-------------------------------- MODULE Batching --------------------------------
(***************************************************************************)
(* BatchProcessor of async_workers/patterns.py: threads that add one item   *)
(* each, the timer thread and the thread that calls stop(). Every one of    *)
(* them may flush; the batch is exchanged under the lock, processed and     *)
(* counted without it. The processor may raise.                             *)
(***************************************************************************)
EXTENDS Naturals, Sequences, FiniteSets

CONSTANTS
  Items,       \* an item is named by the thread that adds it
  Timer, Stopper,
  max_size

ASSUME BatchingAssumption ==
  /\ Timer # Stopper /\ {Timer, Stopper} \cap Items = {}
  /\ max_size \in Nat \ {0}

VARIABLES
  batch,       \* _batch
  arrivals,    \* history: the items in the order they were added
  at,          \* where each thread stands
  taken,       \* the batch each thread has taken in _flush
  processed,   \* the batches the processor has handled
  dropped,     \* the batches it raised on
  total,       \* _total_processed
  seen_total,  \* what each thread read of it for its +=
  aged,        \* max_wait has passed since _last_flush
  running      \* _running

batchVars == <<batch, arrivals, at, taken, processed, dropped, total,
               seen_total, aged, running>>

Threads == Items \cup {Timer, Stopper}

BatchInit ==
  /\ batch = <<>> /\ arrivals = <<>>
  /\ at = [f \in Threads |-> IF f = Timer THEN "looping" ELSE "new"]
  /\ taken = [f \in Threads |-> <<>>]
  /\ processed = {} /\ dropped = {}
  /\ total = 0
  /\ seen_total = [f \in Threads |-> 0]
  /\ aged = FALSE
  /\ running = TRUE

At(f, label) == at' = [at EXCEPT ![f] = label]

\* Where _flush returns to.
FlushEnds(f) == At(f, IF f = Timer THEN "looping" ELSE "done")

AddItem(i) ==
  /\ at[i] = "new"
  /\ batch' = Append(batch, i)
  /\ arrivals' = Append(arrivals, i)
  /\ At(i, IF Len(batch') >= max_size THEN "flushing" ELSE "done")
  /\ UNCHANGED <<taken, processed, dropped, total, seen_total, aged, running>>

\* Mutant: the batch is handed over and not cleared.
TakeCopy(f) ==
  /\ at[f] = "flushing"
  /\ IF batch = <<>>
     THEN FlushEnds(f) /\ UNCHANGED <<taken, aged>>
     ELSE taken' = [taken EXCEPT ![f] = batch] /\ aged' = FALSE /\ At(f, "processing")
  /\ UNCHANGED <<batch, arrivals, processed, dropped, total, seen_total, running>>

TakeBatch(f) ==
  /\ at[f] = "flushing"
  /\ IF batch = <<>>
     THEN FlushEnds(f) /\ UNCHANGED <<batch, taken, aged>>
     ELSE /\ taken' = [taken EXCEPT ![f] = batch]
          /\ batch' = <<>>
          /\ aged' = FALSE
          /\ At(f, "processing")
  /\ UNCHANGED <<arrivals, processed, dropped, total, seen_total, running>>

ProcessBatch(f) ==
  /\ at[f] = "processing"
  /\ processed' = processed \cup {taken[f]}
  /\ At(f, "counting")
  /\ UNCHANGED <<batch, arrivals, taken, dropped, total, seen_total, aged, running>>

\* The exception passes through _flush and ends add, stop or the timer thread.
ProcessorRaises(f) ==
  /\ at[f] = "processing"
  /\ dropped' = dropped \cup {taken[f]}
  /\ taken' = [taken EXCEPT ![f] = <<>>]
  /\ At(f, "raised")
  /\ UNCHANGED <<batch, arrivals, processed, total, seen_total, aged, running>>

ReadTotal(f) ==
  /\ at[f] = "counting"
  /\ seen_total' = [seen_total EXCEPT ![f] = total]
  /\ At(f, "adding_up")
  /\ UNCHANGED <<batch, arrivals, taken, processed, dropped, total, aged, running>>

WriteTotal(f) ==
  /\ at[f] = "adding_up"
  /\ total' = seen_total[f] + Len(taken[f])
  /\ taken' = [taken EXCEPT ![f] = <<>>]
  /\ FlushEnds(f)
  /\ UNCHANGED <<batch, arrivals, processed, dropped, seen_total, aged, running>>

Flush(f) == \/ TakeBatch(f) \/ ProcessBatch(f) \/ ProcessorRaises(f)
            \/ ReadTotal(f) \/ WriteTotal(f)

TimerSleeps ==
  /\ at[Timer] = "looping"
  /\ At(Timer, IF running THEN "sleeping" ELSE "exited")
  /\ UNCHANGED <<batch, arrivals, taken, processed, dropped, total, seen_total, aged, running>>

\* Mutant: the timer only flushes a full batch.
TimerChecksSize ==
  /\ at[Timer] = "sleeping"
  /\ At(Timer, IF Len(batch) >= max_size /\ aged THEN "flushing" ELSE "looping")
  /\ UNCHANGED <<batch, arrivals, taken, processed, dropped, total, seen_total, aged, running>>

TimerChecks ==
  /\ at[Timer] = "sleeping"
  /\ At(Timer, IF batch # <<>> /\ aged THEN "flushing" ELSE "looping")
  /\ UNCHANGED <<batch, arrivals, taken, processed, dropped, total, seen_total, aged, running>>

TimerLoop == TimerSleeps \/ TimerChecks

MaxWaitPasses ==
  /\ ~aged /\ aged' = TRUE
  /\ UNCHANGED <<batch, arrivals, at, taken, processed, dropped, total, seen_total, running>>

StopProcessor ==
  /\ at[Stopper] = "new"
  /\ running' = FALSE
  /\ At(Stopper, "flushing")
  /\ UNCHANGED <<batch, arrivals, taken, processed, dropped, total, seen_total, aged>>

BatchNext ==
  \/ \E i \in Items : AddItem(i)
  \/ \E f \in Threads : Flush(f)
  \/ TimerLoop \/ MaxWaitPasses \/ StopProcessor

BatchSpec == BatchInit /\ [][BatchNext]_batchVars
-----------------------------------------------------------------------------
InHand(f) == at[f] = "processing"

\* The batches there are or have been, and the items in them.
Batches == processed \cup dropped \cup {taken[f] : f \in {g \in Threads : InHand(g)}}
           \cup ({batch} \ {<<>>})
Positions(S) == UNION {{b} \X DOMAIN b : b \in S}
TotalLength(S) == Cardinality(Positions(S))

\* However add, the timer and stop race: every item added is in one batch, a
\* batch is a run of consecutive arrivals, and the statistics, whose += may
\* lose a batch, never claim more than was processed.
ItemsOnceInOrder ==
  /\ \A b \in Batches : \E k \in 0..Len(arrivals) :
       /\ k + Len(b) <= Len(arrivals)
       /\ b = SubSeq(arrivals, k + 1, k + Len(b))
  /\ TotalLength(Batches) = Len(arrivals)
  /\ total <= TotalLength(processed)

Holds(S, i) == \E b \in S : \E k \in DOMAIN b : b[k] = i

\* "Prevents items from waiting forever in a small batch": as long as nobody
\* stops the processor and the timer has not died of an exception, an item that
\* was added is handed to the processor.
NobodyWaitsForever ==
  \A i \in Items :
    at[i] # "new" ~> \/ Holds(processed \cup dropped, i)
                     \/ ~running \/ at[Timer] = "raised"
=============================================================================
