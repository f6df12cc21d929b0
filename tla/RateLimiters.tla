------------------------------ MODULE RateLimiters ------------------------------
(***************************************************************************)
(* The four rate limiters of rate_limiting/ for one client, which several   *)
(* threads call: token bucket, leaky bucket, fixed window, sliding window   *)
(* log. allow_request of the two buckets is under a lock; their get_status  *)
(* refills or drains the same bucket without it, and the windows have no    *)
(* lock at all. Every access to shared state is a step. Time is in whole    *)
(* ticks, tokens are whole; the client is known to its limiter.             *)
(***************************************************************************)
EXTENDS Integers, SequencesExt, FiniteSetsExt

CONSTANTS
  bucket_capacity, rate,   \* of the buckets; rate is refill_rate, leak_rate
  limit, window_size,      \* of the windows
  Weights,                 \* tokens_required, request_weight
  Callers,                 \* the threads
  MaxClock                 \* bound

ASSUME RateAssumption ==
  /\ bucket_capacity \in Nat \ {0} /\ rate \in Nat \ {0}
  /\ limit \in Nat \ {0} /\ window_size \in Nat \ {0}
  /\ Weights \subseteq Nat \ {0}
  /\ IsFiniteSet(Callers)

VARIABLES
  limiter,    \* "token", "leaky", "fixed" or "sliding"
  level,      \* tokens, water level, or the count of the window
  stamp,      \* last refill or leak, or the window's start; -1 before any
  log,        \* the deque of the sliding window
  clock,
  calls,      \* what each thread is at, with its local variables
  crowded,    \* two calls have been in progress at once, and one still is
  admitted    \* history: since the last time calls met, when each token, or
              \* request, was admitted, by the time its call had read

sharedVars == <<level, stamp, log>>
rateVars   == <<limiter, sharedVars, clock, calls, crowded, admitted>>

Bucket == limiter \in {"token", "leaky"}
Idle   == [op |-> "none", at |-> "idle", now |-> 0, level |-> 0, stamp |-> 0, weight |-> 0]
Busy   == {c \in Callers : calls[c].at # "idle"}

RateInit ==
  /\ limiter \in {"token", "leaky", "fixed", "sliding"}
  /\ level = IF limiter = "token" THEN bucket_capacity ELSE 0
  /\ stamp = IF Bucket THEN 0 ELSE -1
  /\ log = <<>> /\ clock = 0
  /\ calls = [c \in Callers |-> Idle]
  /\ crowded = FALSE /\ admitted = <<>>

\* A call reads the time first; now on, it is in the others' way.
Begin(c, op, w) ==
  /\ calls[c].at = "idle"
  /\ calls' = [calls EXCEPT ![c] =
       [op |-> op, at |-> "begun", now |-> clock, level |-> 0, stamp |-> 0, weight |-> w]]
  /\ crowded' = (Busy # {})
  /\ admitted' = IF Busy = {} THEN admitted ELSE <<>>
  /\ UNCHANGED <<limiter, sharedVars, clock>>

\* A call goes on, or returns and has let n tokens pass.
GoesOn(c, r) == calls' = [calls EXCEPT ![c] = r] /\ UNCHANGED <<limiter, clock, crowded, admitted>>
Returns(c, n) ==
  /\ calls' = [calls EXCEPT ![c] = Idle]
  /\ crowded' = (crowded /\ Busy # {c})
  /\ admitted' = IF crowded THEN admitted ELSE admitted \o [i \in 1..n |-> calls[c].now]
  /\ UNCHANGED <<limiter, clock>>

-----------------------------------------------------------------------------
(* The buckets *)

\* The lock keeps requests apart.
BucketRequest(c) ==
  /\ Bucket /\ \A d \in Busy : calls[d].op # "request"
  /\ \E w \in Weights : Begin(c, "request", w)

BucketStatus(c) == Bucket /\ Begin(c, "status", 0)

\* Mutant: the refill is not capped.
RefilledWithoutCap(elapsed) ==
  IF limiter = "token" THEN level + elapsed * rate ELSE Max({0, level - elapsed * rate})

\* _refill and _leak: the level after so much time.
Refilled(elapsed) ==
  IF limiter = "token" THEN Min({bucket_capacity, level + elapsed * rate})
                       ELSE Max({0, level - elapsed * rate})

ReadBucket(c) ==
  /\ Bucket /\ calls[c].at = "begun"
  /\ GoesOn(c, [calls[c] EXCEPT !.at = "read", !.level = Refilled(calls[c].now - stamp)])
  /\ UNCHANGED sharedVars

WriteLevel(c) ==
  /\ Bucket /\ calls[c].at = "read"
  /\ level' = calls[c].level
  /\ GoesOn(c, [calls[c] EXCEPT !.at = "levelled"])
  /\ UNCHANGED <<stamp, log>>

\* get_status has no more to do.
WriteStamp(c) ==
  /\ calls[c].at = "levelled"
  /\ stamp' = calls[c].now
  /\ \/ calls[c].op = "status" /\ Returns(c, 0)
     \/ calls[c].op = "request" /\ GoesOn(c, [calls[c] EXCEPT !.at = "deciding"])
  /\ UNCHANGED <<level, log>>

Fits(l, w) == IF limiter = "token" THEN l >= w ELSE l + w <= bucket_capacity

Decide(c) ==
  /\ calls[c].at = "deciding"
  /\ \/ Fits(level, calls[c].weight) /\ GoesOn(c, [calls[c] EXCEPT !.at = "loading"])
     \/ ~Fits(level, calls[c].weight) /\ Returns(c, 0)
  /\ UNCHANGED sharedVars

\* -= and += on the bucket, and on the count of a window: a load and a store.
LoadLevel(c) ==
  /\ calls[c].at = "loading"
  /\ GoesOn(c, [calls[c] EXCEPT !.at = "storing", !.level = level])
  /\ UNCHANGED sharedVars

StoreLevel(c) ==
  /\ calls[c].at \in {"storing", "replaced"}
  /\ level' = IF calls[c].at = "replaced" THEN level
              ELSE IF limiter = "token" THEN calls[c].level - calls[c].weight
              ELSE calls[c].level + calls[c].weight
  /\ Returns(c, calls[c].weight)
  /\ UNCHANGED <<stamp, log>>

BucketCall(c) ==
  \/ BucketRequest(c) \/ BucketStatus(c) \/ ReadBucket(c) \/ WriteLevel(c)
  \/ WriteStamp(c) \/ Decide(c)
-----------------------------------------------------------------------------
(* The windows *)

WindowRequest(c) == ~Bucket /\ Begin(c, "request", 1)

ReadWindow(c) ==
  /\ limiter = "fixed" /\ calls[c].at = "begun"
  /\ GoesOn(c, [calls[c] EXCEPT !.at = "read", !.level = level, !.stamp = stamp])
  /\ UNCHANGED sharedVars

Fresh(r) == r.stamp = -1 \/ r.now - r.stamp >= window_size

\* A new list takes the place of the one that another thread may be about to
\* store its count in.
ResetWindow(c) ==
  /\ limiter = "fixed" /\ calls[c].at = "read" /\ Fresh(calls[c])
  /\ level' = 0 /\ stamp' = calls[c].now
  /\ calls' = [d \in Callers |->
       IF d = c THEN [calls[c] EXCEPT !.at = "loading"]
       ELSE IF calls[d].at = "storing" THEN [calls[d] EXCEPT !.at = "replaced"] ELSE calls[d]]
  /\ UNCHANGED <<limiter, log, clock, crowded, admitted>>

\* Mutant: one more than the limit passes.
CheckCountAtLimit(c) ==
  /\ limiter = "fixed" /\ calls[c].at = "read" /\ ~Fresh(calls[c])
  /\ \/ calls[c].level <= limit /\ GoesOn(c, [calls[c] EXCEPT !.at = "loading"])
     \/ calls[c].level > limit /\ Returns(c, 0)
  /\ UNCHANGED sharedVars

CheckCount(c) ==
  /\ limiter = "fixed" /\ calls[c].at = "read" /\ ~Fresh(calls[c])
  /\ \/ calls[c].level < limit /\ GoesOn(c, [calls[c] EXCEPT !.at = "loading"])
     \/ calls[c].level >= limit /\ Returns(c, 0)
  /\ UNCHANGED sharedVars

\* while log and log[0] <= window_start: log.popleft(). The deque may be emptied
\* between two of these: IndexError, and the call is over.
TestLog(c) ==
  /\ limiter = "sliding" /\ calls[c].at = "begun"
  /\ GoesOn(c, [calls[c] EXCEPT !.at = IF log = <<>> THEN "counting" ELSE "testing"])
  /\ UNCHANGED sharedVars

TestHead(c) ==
  /\ calls[c].at = "testing"
  /\ \/ log = <<>> /\ Returns(c, 0)
     \/ /\ log # <<>>
        /\ GoesOn(c, [calls[c] EXCEPT !.at =
             IF Head(log) <= calls[c].now - window_size THEN "popping" ELSE "counting"])
  /\ UNCHANGED sharedVars

PopLeft(c) ==
  /\ calls[c].at = "popping"
  /\ \/ log = <<>> /\ Returns(c, 0) /\ UNCHANGED log
     \/ log # <<>> /\ log' = Tail(log) /\ GoesOn(c, [calls[c] EXCEPT !.at = "begun"])
  /\ UNCHANGED <<level, stamp>>

\* Mutant: one more than the limit passes.
CountLogAtLimit(c) ==
  /\ calls[c].at = "counting"
  /\ \/ Len(log) <= limit /\ GoesOn(c, [calls[c] EXCEPT !.at = "appending"])
     \/ Len(log) > limit /\ Returns(c, 0)
  /\ UNCHANGED sharedVars

CountLog(c) ==
  /\ calls[c].at = "counting"
  /\ \/ Len(log) < limit /\ GoesOn(c, [calls[c] EXCEPT !.at = "appending"])
     \/ Len(log) >= limit /\ Returns(c, 0)
  /\ UNCHANGED sharedVars

AppendNow(c) ==
  /\ calls[c].at = "appending"
  /\ log' = Append(log, calls[c].now)
  /\ Returns(c, 1)
  /\ UNCHANGED <<level, stamp>>

WindowCall(c) ==
  \/ WindowRequest(c) \/ ReadWindow(c) \/ ResetWindow(c) \/ CheckCount(c)
  \/ TestLog(c) \/ TestHead(c) \/ PopLeft(c) \/ CountLog(c) \/ AppendNow(c)

ClockTicks ==
  /\ clock < MaxClock /\ clock' = clock + 1
  /\ UNCHANGED <<limiter, sharedVars, calls, crowded, admitted>>

RateNext ==
  \/ \E c \in Callers : BucketCall(c) \/ WindowCall(c) \/ LoadLevel(c) \/ StoreLevel(c)
  \/ ClockTicks

RateSpec == RateInit /\ [][RateNext]_rateVars
-----------------------------------------------------------------------------
\* What may pass in a stretch of time: a bucketful and the rate's share; the
\* limit in any window of the log; twice the limit in any window's length of the
\* fixed window, whose documentation warns of the burst at a boundary.
Within(span) ==
  CASE Bucket -> bucket_capacity + rate * span
    [] limiter = "sliding" -> IF span < window_size THEN limit ELSE Len(admitted)
    [] limiter = "fixed"   -> IF span < window_size THEN 2 * limit ELSE Len(admitted)

RateKept ==
  \A i, j \in DOMAIN admitted :
    i <= j => j - i + 1 <= Within(admitted[j] - admitted[i])

\* Calls that have met leave nothing behind that lets later ones pass: no stretch
\* between two such meetings lets more through than its limiter promises, whatever
\* levels, stamps and logs the races left. (Requests of a bucket do not meet: the lock
\* keeps them apart.) And the races themselves leave no more than the capacity in a
\* token bucket, no less than nothing in a leaky one, and no more in the log than the
\* limit and one for each other thread.
RateHeld ==
  /\ RateKept
  /\ limiter = "token" => level <= bucket_capacity
  /\ limiter # "token" => level >= 0
  /\ limiter = "sliding" => Len(log) < limit + Cardinality(Callers)

\* "lock : Thread lock to ensure atomic token operations": the level a request has
\* read is the one it takes its tokens from.
TokenOperationsAtomic ==
  \A c \in Callers : Bucket /\ calls[c].at = "storing" => calls[c].level = level

\* "Max requests allowed in any rolling window".
LimitInAnyWindow ==
  limiter = "sliding" =>
    \A t \in 0..clock :
      Cardinality({i \in DOMAIN log : log[i] \in t..(t + window_size - 1)}) <= limit
=============================================================================
