------------------------- MODULE CircuitBreakerProof -------------------------
(***************************************************************************)
(* The safety of the circuit breaker, for any callers and any thresholds.   *)
(* The inductive invariant ties the two counters of the code to the history *)
(* of recorded results: consecutive_failures is the current run of failures *)
(* as long as the circuit is CLOSED, half_open_successes the current run of *)
(* successes as long as it is HALF_OPEN. In other states the counters are   *)
(* stale, and the steps that enter CLOSED and HALF_OPEN must make them      *)
(* exact again.                                                             *)
(***************************************************************************)
EXTENDS CircuitBreakerHistory, TLAPS

HistoryTypeOK ==
  /\ bad_run \in 0..failure_threshold
  /\ good_run \in 0..success_threshold

CountersExact ==
  /\ state = "CLOSED" => consecutive_failures = bad_run
  /\ state = "HALF_OPEN" => half_open_successes = good_run

IInv == TypeOK /\ HistoryTypeOK /\ CountersExact /\ ReactsAtOnce

\* A call that returns from record_success is observed as a success and as
\* nothing else.
LEMMA SuccessObserved ==
  ASSUME TypeOK, NEW c \in Callers, RecordSuccess(c), Observe
  PROVE  /\ bad_run' = 0
         /\ good_run' = CountUpTo(good_run, success_threshold)
<1>1. Recorded("success")
  BY DEF TypeOK, RecordSuccess, Return, Recorded
<1>2. ~Recorded("failure")
  BY DEF TypeOK, RecordSuccess, Return, Recorded
<1> QED BY <1>1, <1>2 DEF Observe

\* A call that returns from record_failure is observed as a failure and as
\* nothing else.
LEMMA FailureObserved ==
  ASSUME TypeOK, NEW c \in Callers, RecordFailure(c), Observe
  PROVE  /\ bad_run' = CountUpTo(bad_run, failure_threshold)
         /\ good_run' = 0
<1>1. Recorded("failure")
  BY DEF TypeOK, RecordFailure, Return, Recorded
<1>2. ~Recorded("success")
  BY DEF TypeOK, RecordFailure, Return, Recorded
<1> QED BY <1>1, <1>2 DEF Observe

\* Every other step records nothing.
LEMMA NothingObserved ==
  ASSUME TypeOK, Observe,
         \A c \in Callers : pc[c] = "answered" => pc'[c] = "answered"
  PROVE  /\ bad_run' = bad_run
         /\ good_run' = IF state = "OPEN" /\ state' = "HALF_OPEN"
                        THEN 0 ELSE good_run
<1>1. ~Recorded("success") /\ ~Recorded("failure")
  BY DEF Recorded
<1> QED BY <1>1 DEF Observe

LEMMA InitInvariant == HInit => IInv
<1> SUFFICES ASSUME HInit PROVE IInv
  OBVIOUS
<1>1. state \in CircuitState /\ cooled \in BOOLEAN /\ backend \in Health
  BY DEF HInit, Init, CircuitState
<1>2. /\ pc \in [Callers -> {"idle", "calling", "answered"}]
      /\ outcome \in [Callers -> {"none", "success", "failure"}]
      /\ \A c \in Callers : outcome[c] # "none" <=> pc[c] = "answered"
  BY DEF HInit, Init
<1>3. /\ consecutive_failures \in 0..failure_threshold
      /\ half_open_successes \in 0..success_threshold
      /\ HistoryTypeOK /\ CountersExact /\ ReactsAtOnce
  BY ThresholdsAssumption
     DEF HInit, Init, HistoryTypeOK, CountersExact, ReactsAtOnce
<1> QED BY <1>1, <1>2, <1>3 DEF IInv, TypeOK

\* can_attempt: the count of successes starts afresh together with the run.
LEMMA AdmitPreserves ==
  ASSUME IInv, NEW c \in Callers, Admit(c), Observe
  PROVE  IInv'
<1>1. /\ bad_run' = bad_run
      /\ good_run' = IF state = "OPEN" /\ state' = "HALF_OPEN"
                     THEN 0 ELSE good_run
  <2>1. \A d \in Callers : pc[d] = "answered" => pc'[d] = "answered"
    BY DEF IInv, TypeOK, Admit
  <2> QED BY <2>1, NothingObserved DEF IInv
<1>2. TypeOK'
  BY ThresholdsAssumption
     DEF IInv, TypeOK, Admit, StayPut, TransitionTo, CircuitState
<1>3. HistoryTypeOK'
  BY <1>1, ThresholdsAssumption DEF IInv, HistoryTypeOK
<1>4. (CountersExact /\ ReactsAtOnce)'
  BY <1>1, ThresholdsAssumption
     DEF IInv, CountersExact, ReactsAtOnce, Admit, StayPut, TransitionTo
<1> QED BY <1>2, <1>3, <1>4 DEF IInv

\* record_success: the step that closes the circuit also clears the failures.
LEMMA SuccessPreserves ==
  ASSUME IInv, NEW c \in Callers, RecordSuccess(c), Observe
  PROVE  IInv'
<1>1. /\ bad_run' = 0
      /\ good_run' = CountUpTo(good_run, success_threshold)
  BY SuccessObserved DEF IInv
<1>2. /\ state \in {"CLOSED", "OPEN", "HALF_OPEN"}
      /\ success_threshold \in Nat \ {0} /\ failure_threshold \in Nat \ {0}
      /\ half_open_successes \in Nat /\ good_run \in Nat
      /\ half_open_successes <= success_threshold
      /\ good_run <= success_threshold
      /\ state = "HALF_OPEN" => /\ half_open_successes < success_threshold
                                /\ half_open_successes = good_run
  BY ThresholdsAssumption
     DEF IInv, TypeOK, HistoryTypeOK, CountersExact, ReactsAtOnce, CircuitState
<1>3. /\ pc' \in [Callers -> {"idle", "calling", "answered"}]
      /\ outcome' \in [Callers -> {"none", "success", "failure"}]
      /\ backend' \in Health
      /\ \A d \in Callers : outcome'[d] # "none" <=> pc'[d] = "answered"
  BY DEF IInv, TypeOK, RecordSuccess, Return
<1>4. /\ consecutive_failures' = 0 /\ consecutive_failures' \in 0..failure_threshold
      /\ HistoryTypeOK'
  BY <1>1, <1>2 DEF HistoryTypeOK, CountUpTo, RecordSuccess
<1>5. CASE state # "HALF_OPEN"
  <2>1. state' = state /\ cooled' = cooled
        /\ half_open_successes' = half_open_successes
    BY <1>5 DEF RecordSuccess, StayPut
  <2> QED BY <1>1, <1>2, <1>3, <1>4, <1>5, <2>1
             DEF IInv, TypeOK, CountersExact, ReactsAtOnce
<1>6. CASE state = "HALF_OPEN" /\ half_open_successes + 1 >= success_threshold
  <2>1. /\ state' = "CLOSED" /\ cooled' = cooled
        /\ half_open_successes' = half_open_successes + 1
    BY <1>6 DEF RecordSuccess, TransitionTo
  <2>2. half_open_successes' \in 0..success_threshold
    BY <1>2, <1>6, <2>1
  <2> QED BY <1>1, <1>2, <1>3, <1>4, <2>1, <2>2
             DEF IInv, TypeOK, CountersExact, ReactsAtOnce, CircuitState
<1>7. CASE state = "HALF_OPEN" /\ ~(half_open_successes + 1 >= success_threshold)
  <2>1. /\ state' = "HALF_OPEN" /\ cooled' = cooled
        /\ half_open_successes' = half_open_successes + 1
    BY <1>7 DEF RecordSuccess, StayPut
  <2>2. /\ half_open_successes' \in 0..success_threshold
        /\ good_run' = half_open_successes' /\ good_run' < success_threshold
    BY <1>1, <1>2, <1>7, <2>1 DEF CountUpTo
  <2> QED BY <1>1, <1>2, <1>3, <1>4, <2>1, <2>2
             DEF IInv, TypeOK, CountersExact, ReactsAtOnce, CircuitState
<1> QED BY <1>5, <1>6, <1>7

\* record_failure: while CLOSED the counter and the run grow together.
LEMMA FailurePreserves ==
  ASSUME IInv, NEW c \in Callers, RecordFailure(c), Observe
  PROVE  IInv'
<1>1. /\ bad_run' = CountUpTo(bad_run, failure_threshold)
      /\ good_run' = 0
  BY FailureObserved DEF IInv
<1>2. /\ state \in {"CLOSED", "OPEN", "HALF_OPEN"}
      /\ success_threshold \in Nat \ {0} /\ failure_threshold \in Nat \ {0}
      /\ consecutive_failures \in Nat /\ bad_run \in Nat
      /\ consecutive_failures <= failure_threshold
      /\ bad_run <= failure_threshold
      /\ state = "CLOSED" => /\ consecutive_failures < failure_threshold
                             /\ consecutive_failures = bad_run
  BY ThresholdsAssumption
     DEF IInv, TypeOK, HistoryTypeOK, CountersExact, ReactsAtOnce, CircuitState
<1>3. /\ pc' \in [Callers -> {"idle", "calling", "answered"}]
      /\ outcome' \in [Callers -> {"none", "success", "failure"}]
      /\ backend' \in Health
      /\ \A d \in Callers : outcome'[d] # "none" <=> pc'[d] = "answered"
  BY DEF IInv, TypeOK, RecordFailure, Return
<1>4. HistoryTypeOK' /\ half_open_successes' = half_open_successes
  BY <1>1, <1>2 DEF HistoryTypeOK, CountUpTo, RecordFailure
<1>5. CASE state = "OPEN"
  <2>1. /\ state' = state /\ cooled' = cooled
        /\ consecutive_failures' = consecutive_failures
    BY <1>5 DEF RecordFailure, StayPut
  <2> QED BY <1>3, <1>4, <1>5, <2>1
             DEF IInv, TypeOK, CountersExact, ReactsAtOnce
<1>6. CASE state = "HALF_OPEN"
  <2>1. /\ state' = "OPEN" /\ cooled' = FALSE
        /\ consecutive_failures' = consecutive_failures
    BY <1>6 DEF RecordFailure, TransitionTo
  <2> QED BY <1>3, <1>4, <2>1
             DEF IInv, TypeOK, CountersExact, ReactsAtOnce, CircuitState
<1>7. CASE state = "CLOSED" /\ consecutive_failures + 1 >= failure_threshold
  <2>1. /\ state' = "OPEN" /\ cooled' = FALSE
        /\ consecutive_failures' = consecutive_failures + 1
    BY <1>7 DEF RecordFailure, TransitionTo
  <2>2. consecutive_failures' \in 0..failure_threshold
    BY <1>2, <1>7, <2>1
  <2> QED BY <1>3, <1>4, <2>1, <2>2
             DEF IInv, TypeOK, CountersExact, ReactsAtOnce, CircuitState
<1>8. CASE state = "CLOSED" /\ ~(consecutive_failures + 1 >= failure_threshold)
  <2>1. /\ state' = "CLOSED" /\ cooled' = cooled
        /\ consecutive_failures' = consecutive_failures + 1
    BY <1>8 DEF RecordFailure, StayPut
  <2>2. /\ consecutive_failures' \in 0..failure_threshold
        /\ bad_run' = consecutive_failures' /\ bad_run' < failure_threshold
    BY <1>1, <1>2, <1>8, <2>1 DEF CountUpTo
  <2> QED BY <1>3, <1>4, <2>1, <2>2
             DEF IInv, TypeOK, CountersExact, ReactsAtOnce, CircuitState
<1> QED BY <1>2, <1>5, <1>6, <1>7, <1>8

LEMMA StepInvariant == IInv /\ [HNext]_historyVars => IInv'
<1> SUFFICES ASSUME IInv, [HNext]_historyVars PROVE IInv'
  OBVIOUS
<1>1. CASE UNCHANGED historyVars
  BY <1>1 DEF historyVars, IInv, TypeOK, HistoryTypeOK, CountersExact,
              ReactsAtOnce
<1>2. CASE CoolDown /\ Observe
  <2>1. bad_run' = bad_run /\ good_run' = good_run
    BY <1>2, NothingObserved DEF IInv, CoolDown
  <2> QED BY <1>2, <2>1 DEF CoolDown, IInv, TypeOK, HistoryTypeOK,
                            CountersExact, ReactsAtOnce
<1>3. CASE BackendChanges /\ Observe
  <2>1. bad_run' = bad_run /\ good_run' = good_run
    BY <1>3, NothingObserved DEF IInv, BackendChanges, breakerVars
  <2> QED BY <1>3, <2>1 DEF BackendChanges, breakerVars, IInv, TypeOK,
                            HistoryTypeOK, CountersExact, ReactsAtOnce
<1>4. ASSUME NEW c \in Callers, Call(c), Observe PROVE IInv'
  <2>1. CASE Admit(c)
    BY <1>4, <2>1, AdmitPreserves
  <2>2. CASE Answer(c)
    <3>1. \A d \in Callers : pc[d] = "answered" => pc'[d] = "answered"
      BY <2>2 DEF IInv, TypeOK, Answer
    <3>2. bad_run' = bad_run /\ good_run' = good_run
      BY <1>4, <2>2, <3>1, NothingObserved DEF IInv, Answer, breakerVars
    <3>3. TypeOK'
      BY <2>2 DEF IInv, TypeOK, Answer, breakerVars
    <3> QED BY <2>2, <3>2, <3>3 DEF Answer, breakerVars, IInv, HistoryTypeOK,
                                    CountersExact, ReactsAtOnce
  <2>3. CASE RecordSuccess(c)
    BY <1>4, <2>3, SuccessPreserves
  <2>4. CASE RecordFailure(c)
    BY <1>4, <2>4, FailurePreserves
  <2> QED BY <1>4, <2>1, <2>2, <2>3, <2>4 DEF Call
<1> QED BY <1>1, <1>2, <1>3, <1>4 DEF HNext, Next

\* The counters of the breaker are exact in the states that compare them.
THEOREM Invariance == HSpec => []IInv
BY InitInvariant, StepInvariant, PTL DEF HSpec

\* Type correctness: with concurrent callers and late results, the counters
\* never leave the range of their thresholds.
THEOREM TypeCorrect == HSpec => []TypeOK
<1>1. IInv => TypeOK
  BY DEF IInv
<1> QED BY Invariance, <1>1, PTL

\* The breaker changes state as soon as a threshold is met.
THEOREM Eager == HSpec => []ReactsAtOnce
<1>1. IInv => ReactsAtOnce
  BY DEF IInv
<1> QED BY Invariance, <1>1, PTL

\* The breaker changes state only when a threshold is met: no interleaving of
\* late results trips or closes it early.
THEOREM Earned == HSpec => TransitionsEarned
<1> DEFINE A ==
      /\ state = "CLOSED" /\ state' # "CLOSED" =>
           state' = "OPEN" /\ bad_run' = failure_threshold
      /\ state = "HALF_OPEN" /\ state' = "CLOSED" =>
           good_run' = success_threshold
      /\ state = "HALF_OPEN" /\ state' = "OPEN" => bad_run' > 0
      /\ state = "OPEN" /\ state' # "OPEN" => state' = "HALF_OPEN"
<1>1. IInv /\ [HNext]_historyVars => [A]_historyVars
  <2> SUFFICES ASSUME IInv, HNext PROVE A
    OBVIOUS
  <2>1. CASE CoolDown \/ BackendChanges
    BY <2>1 DEF CoolDown, BackendChanges, breakerVars
  <2>2. ASSUME NEW c \in Callers, Admit(c) \/ Answer(c) PROVE A
    <3>1. CASE Answer(c)
      BY <3>1 DEF Answer, breakerVars
    <3>2. CASE Admit(c) /\ state \in {"CLOSED", "HALF_OPEN"}
      BY <3>2 DEF Admit, StayPut
    <3>3. CASE Admit(c) /\ state = "OPEN"
      BY <3>3 DEF Admit, TransitionTo
    <3> QED BY <2>2, <3>1, <3>2, <3>3 DEF Admit
  <2>3. ASSUME NEW c \in Callers, RecordSuccess(c) PROVE A
    <3>1. /\ bad_run' = 0
          /\ good_run' = CountUpTo(good_run, success_threshold)
      BY <2>3, SuccessObserved DEF IInv, HNext
    <3>2. /\ success_threshold \in Nat \ {0}
          /\ half_open_successes \in Nat /\ good_run \in Nat
          /\ state = "HALF_OPEN" => /\ good_run < success_threshold
                                    /\ half_open_successes = good_run
      BY ThresholdsAssumption
         DEF IInv, TypeOK, HistoryTypeOK, CountersExact, ReactsAtOnce
    <3>3. CASE state # "HALF_OPEN"
      BY <2>3, <3>3 DEF RecordSuccess, StayPut
    <3>4. CASE state = "HALF_OPEN" /\ half_open_successes + 1 >= success_threshold
      <4>1. state' = "CLOSED"
        BY <2>3, <3>4 DEF RecordSuccess, TransitionTo
      <4>2. good_run' = success_threshold
        BY <3>1, <3>2, <3>4 DEF CountUpTo
      <4> QED BY <3>4, <4>1, <4>2
    <3>5. CASE state = "HALF_OPEN" /\ ~(half_open_successes + 1 >= success_threshold)
      BY <2>3, <3>5 DEF RecordSuccess, StayPut
    <3> QED BY <3>3, <3>4, <3>5
  <2>4. ASSUME NEW c \in Callers, RecordFailure(c) PROVE A
    <3>1. /\ bad_run' = CountUpTo(bad_run, failure_threshold)
          /\ good_run' = 0
      BY <2>4, FailureObserved DEF IInv, HNext
    <3>2. /\ state \in {"CLOSED", "OPEN", "HALF_OPEN"}
          /\ failure_threshold \in Nat \ {0}
          /\ consecutive_failures \in Nat /\ bad_run \in Nat
          /\ state = "CLOSED" => /\ bad_run < failure_threshold
                                 /\ consecutive_failures = bad_run
      BY ThresholdsAssumption
         DEF IInv, TypeOK, HistoryTypeOK, CountersExact, ReactsAtOnce,
             CircuitState
    <3>3. CASE state = "OPEN"
      BY <2>4, <3>3 DEF RecordFailure, StayPut
    <3>4. CASE state = "HALF_OPEN"
      <4>1. state' = "OPEN"
        BY <2>4, <3>4 DEF RecordFailure, TransitionTo
      <4>2. bad_run' > 0
        BY <3>1, <3>2 DEF CountUpTo
      <4> QED BY <3>4, <4>1, <4>2
    <3>5. CASE state = "CLOSED" /\ consecutive_failures + 1 >= failure_threshold
      <4>1. state' = "OPEN"
        BY <2>4, <3>5 DEF RecordFailure, TransitionTo
      <4>2. bad_run' = failure_threshold
        BY <3>1, <3>2, <3>5 DEF CountUpTo
      <4> QED BY <3>5, <4>1, <4>2
    <3>6. CASE state = "CLOSED" /\ ~(consecutive_failures + 1 >= failure_threshold)
      BY <2>4, <3>6 DEF RecordFailure, StayPut
    <3> QED BY <3>2, <3>3, <3>4, <3>5, <3>6
  <2> QED BY <2>1, <2>2, <2>3, <2>4 DEF HNext, Next, Call
<1> QED BY Invariance, <1>1, PTL DEF HSpec, TransitionsEarned

\* The counters stay in range and no transition comes late.
THEOREM Safety == HSpec => []BreakerSafe
BY TypeCorrect, Eager, PTL DEF BreakerSafe
=============================================================================
