---------------------------- MODULE CircuitBreaker ----------------------------
(***************************************************************************)
(* The circuit breaker of api_gateway/circuit_breaker.py, shared by the     *)
(* threads that call one backend through it.                                *)
(*                                                                          *)
(* can_attempt, record_success and record_failure each run under the lock   *)
(* and are one step; between them a call is at the backend with the lock    *)
(* free, so the result of a call is recorded in whatever state the breaker  *)
(* has reached by then. A call that is rejected changes statistics only,    *)
(* which are left out.                                                      *)
(***************************************************************************)
EXTENDS Naturals, FiniteSets

CONSTANTS
  Callers,            \* the threads calling the backend
  Hanging,            \* those whose call the backend may never answer
  failure_threshold,
  success_threshold

ASSUME ThresholdsAssumption ==
  /\ failure_threshold \in Nat \ {0}
  /\ success_threshold \in Nat \ {0}

ASSUME CallersAssumption == Hanging \subseteq Callers

VARIABLES
  state,                 \* CircuitBreaker.state
  consecutive_failures,  \* CircuitBreaker.consecutive_failures
  half_open_successes,   \* CircuitBreaker.half_open_successes
  cooled,                \* recovery_timeout has elapsed since opened_at
  pc,                    \* where each caller stands in call()
  outcome,               \* the result a caller is about to record
  backend                \* the health of the guarded service

breakerVars == <<state, consecutive_failures, half_open_successes, cooled>>
vars == <<state, consecutive_failures, half_open_successes, cooled, pc,
          outcome, backend>>

CircuitState == {"CLOSED", "OPEN", "HALF_OPEN"}
Health       == {"up", "flaky", "down"}

Init ==
  /\ state = "CLOSED"
  /\ consecutive_failures = 0
  /\ half_open_successes = 0
  /\ cooled = FALSE
  /\ pc = [c \in Callers |-> "idle"]
  /\ outcome = [c \in Callers |-> "none"]
  /\ backend \in Health

\* _transition_to, opened_at being set anew on each opening.
TransitionTo(new_state) ==
  /\ state' = new_state
  /\ cooled' = IF new_state = "OPEN" THEN FALSE ELSE cooled

StayPut == UNCHANGED <<state, cooled>>

\* recovery_timeout elapses.
CoolDown ==
  /\ state = "OPEN"
  /\ ~cooled
  /\ cooled' = TRUE
  /\ UNCHANGED <<state, consecutive_failures, half_open_successes, pc, outcome,
                 backend>>

\* Mutant: the successes of an earlier recovery are not forgotten.
AdmitKeepingCount(c) ==
  /\ pc[c] = "idle"
  /\ \/ state \in {"CLOSED", "HALF_OPEN"} /\ UNCHANGED <<state, cooled, half_open_successes>>
     \/ /\ state = "OPEN" /\ cooled
        /\ TransitionTo("HALF_OPEN")
        /\ UNCHANGED half_open_successes
  /\ pc' = [pc EXCEPT ![c] = "calling"]
  /\ UNCHANGED <<consecutive_failures, outcome, backend>>

\* Mutant: a second probe waits until the first has reported.
AdmitOneProbe(c) ==
  /\ pc[c] = "idle"
  /\ \/ state = "CLOSED" /\ UNCHANGED <<state, cooled, half_open_successes>>
     \/ /\ state = "OPEN" /\ cooled
        /\ TransitionTo("HALF_OPEN")
        /\ half_open_successes' = 0
  /\ pc' = [pc EXCEPT ![c] = "calling"]
  /\ UNCHANGED <<consecutive_failures, outcome, backend>>

\* can_attempt lets c through to the backend.
Admit(c) ==
  /\ pc[c] = "idle"
  /\ \/ /\ state \in {"CLOSED", "HALF_OPEN"}
        /\ StayPut /\ UNCHANGED half_open_successes
     \/ /\ state = "OPEN" /\ cooled
        /\ TransitionTo("HALF_OPEN")
        /\ half_open_successes' = 0
  /\ pc' = [pc EXCEPT ![c] = "calling"]
  /\ UNCHANGED <<consecutive_failures, outcome, backend>>

\* func returns or raises; a 5xx response and an exception are both "failure".
Answer(c) ==
  /\ pc[c] = "calling"
  /\ pc' = [pc EXCEPT ![c] = "answered"]
  /\ \E r \in {"success", "failure"} :
       /\ backend = "up" => r = "success"
       /\ backend = "down" => r = "failure"
       /\ outcome' = [outcome EXCEPT ![c] = r]
  /\ UNCHANGED <<breakerVars, backend>>

Return(c) ==
  /\ pc' = [pc EXCEPT ![c] = "idle"]
  /\ outcome' = [outcome EXCEPT ![c] = "none"]
  /\ UNCHANGED backend

RecordSuccess(c) ==
  /\ pc[c] = "answered" /\ outcome[c] = "success"
  /\ consecutive_failures' = 0
  /\ IF state = "HALF_OPEN"
     THEN /\ half_open_successes' = half_open_successes + 1
          /\ IF half_open_successes' >= success_threshold
             THEN TransitionTo("CLOSED") ELSE StayPut
     ELSE StayPut /\ UNCHANGED half_open_successes
  /\ Return(c)

\* Mutant: the threshold is one failure too high.
FailureOffByOne(c) ==
  /\ pc[c] = "answered" /\ outcome[c] = "failure"
  /\ \/ /\ state = "HALF_OPEN"
        /\ TransitionTo("OPEN")
        /\ UNCHANGED consecutive_failures
     \/ /\ state = "CLOSED"
        /\ consecutive_failures' = consecutive_failures + 1
        /\ IF consecutive_failures' > failure_threshold
           THEN TransitionTo("OPEN") ELSE StayPut
     \/ state = "OPEN" /\ StayPut /\ UNCHANGED consecutive_failures
  /\ UNCHANGED half_open_successes
  /\ Return(c)

RecordFailure(c) ==
  /\ pc[c] = "answered" /\ outcome[c] = "failure"
  /\ \/ /\ state = "HALF_OPEN"
        /\ TransitionTo("OPEN")
        /\ UNCHANGED consecutive_failures
     \/ /\ state = "CLOSED"
        /\ consecutive_failures' = consecutive_failures + 1
        /\ IF consecutive_failures' >= failure_threshold
           THEN TransitionTo("OPEN") ELSE StayPut
     \/ state = "OPEN" /\ StayPut /\ UNCHANGED consecutive_failures
  /\ UNCHANGED half_open_successes
  /\ Return(c)

\* The guarded service changes its health; no code of the gateway does this.
BackendChanges ==
  /\ \E h \in Health \ {backend} : backend' = h
  /\ UNCHANGED <<breakerVars, pc, outcome>>

Call(c) == Admit(c) \/ Answer(c) \/ RecordSuccess(c) \/ RecordFailure(c)

Next == CoolDown \/ BackendChanges \/ \E c \in Callers : Call(c)

Spec == Init /\ [][Next]_vars

\* Requests keep coming, time passes, and a backend answers every call but
\* those of Hanging.
Fairness ==
  /\ WF_vars(CoolDown)
  /\ \A c \in Callers :
       WF_vars(Admit(c)) /\ WF_vars(RecordSuccess(c) \/ RecordFailure(c))
  /\ \A c \in Callers \ Hanging : WF_vars(Answer(c))

FairSpec == Spec /\ Fairness
-----------------------------------------------------------------------------
(* Properties *)

TypeOK ==
  /\ state \in CircuitState
  /\ consecutive_failures \in 0..failure_threshold
  /\ half_open_successes \in 0..success_threshold
  /\ cooled \in BOOLEAN
  /\ pc \in [Callers -> {"idle", "calling", "answered"}]
  /\ outcome \in [Callers -> {"none", "success", "failure"}]
  /\ backend \in Health
  /\ \A c \in Callers : outcome[c] # "none" <=> pc[c] = "answered"

\* Once the backend is healthy for good, the circuit closes for good: late
\* failures of calls admitted earlier, and probes that never return, can delay
\* the recovery and cannot prevent it.
Recovers == <>[](backend = "up") => <>[](state = "CLOSED")

\* Once the backend is down for good, the circuit stops being CLOSED for good:
\* late successes of earlier calls cannot keep closing it.
Isolates == <>[](backend = "down") => <>[](state # "CLOSED")

\* The breaker comes to agree with a backend that has made up its mind.
Converges == Recovers /\ Isolates

\* "Allow ONE probe": after the call that found the circuit OPEN and cooled
\* down, nobody else is let through before the probe has reported.
OneProbe ==
  [][state = "HALF_OPEN" /\ half_open_successes = 0 =>
       \A c \in Callers : pc[c] = "idle" => pc'[c] = "idle"]_vars
=============================================================================
