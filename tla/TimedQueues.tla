------------------------------- MODULE TimedQueues -------------------------------
(***************************************************************************)
(* PriorityQueue and DelayQueue of message_queue/patterns.py. Both keep a   *)
(* heap under a lock and number the entries, so that entries of one         *)
(* priority, or due at one time, leave in the order they came. DelayQueue   *)
(* reads the clock before it takes the lock, to enqueue and to poll.        *)
(***************************************************************************)
EXTENDS Naturals, Sequences, FiniteSets

CONSTANTS
  Priorities, Delays,
  Pollsters,      \* threads that poll, and that enqueue, the delay queue
  MaxEntries,     \* bound: entries in one behaviour
  MaxTime         \* bound: the clock

ASSUME TimedAssumption ==
  /\ Priorities \subseteq Nat /\ Delays \subseteq Nat
  /\ MaxEntries \in Nat /\ MaxTime \in Nat

VARIABLES
  which,       \* "priority" or "delay"
  heap,        \* entries <<key, sequence>>, with the time they were pushed
  sequence,    \* _sequence
  left,        \* history: the entries in the order they were handed out
  clock,
  stamp,       \* what each thread read of the clock, or None
  doing        \* where each thread stands

timedVars == <<which, heap, sequence, left, clock, stamp, doing>>

TimedInit ==
  /\ which \in {"priority", "delay"}
  /\ heap = {} /\ sequence = 0 /\ left = <<>> /\ clock = 0
  /\ stamp = [p \in Pollsters |-> 0]
  /\ doing = [p \in Pollsters |-> "idle"]

\* The order of tuples: by key, then by sequence number.
Before2(e, f) == e.key < f.key \/ (e.key = f.key /\ e.seq < f.seq)

Least(S) == CHOOSE e \in S : \A f \in S \ {e} : Before2(e, f)

Push(key) ==
  /\ sequence < MaxEntries
  /\ heap' = heap \cup {[key |-> key, seq |-> sequence, pushed |-> Len(left)]}
  /\ sequence' = sequence + 1

EnqueuePriority(priority) ==
  /\ which = "priority"
  /\ Push(priority)
  /\ UNCHANGED <<which, left, clock, stamp, doing>>

\* Mutant: the latest of the most urgent entries is popped.
DequeueLatest ==
  LET top == {e \in heap : \A f \in heap : e.key <= f.key}
      e == CHOOSE e \in top : \A f \in top : f.seq <= e.seq
  IN /\ which = "priority" /\ heap # {}
     /\ heap' = heap \ {e} /\ left' = Append(left, e)
     /\ UNCHANGED <<which, sequence, clock, stamp, doing>>

DequeuePriority ==
  /\ which = "priority" /\ heap # {}
  /\ heap' = heap \ {Least(heap)}
  /\ left' = Append(left, Least(heap))
  /\ UNCHANGED <<which, sequence, clock, stamp, doing>>

ReadClock(p, next) ==
  /\ which = "delay" /\ doing[p] = "idle"
  /\ stamp' = [stamp EXCEPT ![p] = clock]
  /\ doing' = [doing EXCEPT ![p] = next]
  /\ UNCHANGED <<which, heap, sequence, left, clock>>

EnqueueDelayed(p) ==
  /\ doing[p] = "enqueueing"
  /\ \E d \in Delays : Push(stamp[p] + d)
  /\ doing' = [doing EXCEPT ![p] = "idle"]
  /\ UNCHANGED <<which, left, clock, stamp>>

PollDue(p) ==
  LET due == {e \in heap : e.key <= stamp[p]} IN
  /\ doing[p] = "polling"
  /\ heap' = heap \ due
  /\ \E ready \in [1..Cardinality(due) -> due] :
       /\ \A i, j \in DOMAIN ready : i < j => Before2(ready[i], ready[j])
       /\ left' = left \o ready
  /\ doing' = [doing EXCEPT ![p] = "idle"]
  /\ UNCHANGED <<which, sequence, clock, stamp>>

Passes ==
  /\ which = "delay" /\ clock < MaxTime /\ clock' = clock + 1
  /\ UNCHANGED <<which, heap, sequence, left, stamp, doing>>

PriorityOps == (\E p \in Priorities : EnqueuePriority(p)) \/ DequeuePriority
DelayOps ==
  \E p \in Pollsters :
    \/ ReadClock(p, "enqueueing") \/ ReadClock(p, "polling")
    \/ EnqueueDelayed(p) \/ PollDue(p)

TimedNext == PriorityOps \/ DelayOps \/ Passes

TimedSpec == TimedInit /\ [][TimedNext]_timedVars
-----------------------------------------------------------------------------
\* However calls interleave, every entry is in the heap or was handed out once;
\* nothing leaves the delay queue before its time; and an entry that was there
\* when another one left goes after it only if it is less urgent, later due, or
\* as urgent and younger.
UrgentFirstNeverEarly ==
  /\ Cardinality(heap) + Len(left) = sequence
  /\ \A i, j \in DOMAIN left : i # j => left[i].seq # left[j].seq
  /\ which = "delay" => \A i \in DOMAIN left : left[i].key <= clock
  /\ \A i, j \in DOMAIN left :
       (i < j /\ left[j].pushed < i) => Before2(left[i], left[j])
=============================================================================
