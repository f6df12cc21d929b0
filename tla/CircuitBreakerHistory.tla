------------------------ MODULE CircuitBreakerHistory ------------------------
(***************************************************************************)
(* The circuit breaker with a history of the results its callers recorded:  *)
(* how many failures in a row, in whatever state, and how many successes in *)
(* a row since the breaker last turned HALF_OPEN. The history only observes *)
(* the breaker; both counts stop at the threshold they are compared with.   *)
(***************************************************************************)
EXTENDS CircuitBreaker

VARIABLES
  bad_run,    \* failures recorded since the last success
  good_run    \* successes recorded since the last failure or half-opening

historyVars == <<state, consecutive_failures, half_open_successes, cooled, pc,
                 outcome, backend, bad_run, good_run>>

CountUpTo(n, bound) == IF n < bound THEN n + 1 ELSE n

HInit == Init /\ bad_run = 0 /\ good_run = 0

\* What the step records, read off the caller that returns from call().
Recorded(r) ==
  \E c \in Callers : pc[c] = "answered" /\ pc'[c] = "idle" /\ outcome[c] = r

Observe ==
  \/ /\ Recorded("success")
     /\ bad_run' = 0
     /\ good_run' = CountUpTo(good_run, success_threshold)
  \/ /\ Recorded("failure")
     /\ bad_run' = CountUpTo(bad_run, failure_threshold)
     /\ good_run' = 0
  \/ /\ ~Recorded("success") /\ ~Recorded("failure")
     /\ bad_run' = bad_run
     /\ good_run' = IF state = "OPEN" /\ state' = "HALF_OPEN"
                    THEN 0 ELSE good_run

HNext == Next /\ Observe

HSpec == HInit /\ [][HNext]_historyVars

HFairSpec == HSpec /\ Fairness
-----------------------------------------------------------------------------
\* The breaker reacts at once: it is never still CLOSED when the last
\* failure_threshold results were failures, nor still HALF_OPEN when the last
\* success_threshold results since the half-opening were successes.
ReactsAtOnce ==
  /\ state = "CLOSED" => bad_run < failure_threshold
  /\ state = "HALF_OPEN" => good_run < success_threshold

\* The counters in their ranges, and no transition late.
BreakerSafe == TypeOK /\ ReactsAtOnce

\* The breaker never reacts too early, whatever late results other calls
\* record: CLOSED gives way only to OPEN and only after failure_threshold
\* failures in a row, and HALF_OPEN closes only after success_threshold
\* successes in a row and opens again only on a failure.
TransitionsEarned ==
  [][/\ state = "CLOSED" /\ state' # "CLOSED" =>
          state' = "OPEN" /\ bad_run' = failure_threshold
     /\ state = "HALF_OPEN" /\ state' = "CLOSED" =>
          good_run' = success_threshold
     /\ state = "HALF_OPEN" /\ state' = "OPEN" => bad_run' > 0
     /\ state = "OPEN" /\ state' # "OPEN" => state' = "HALF_OPEN"]_historyVars
=============================================================================
