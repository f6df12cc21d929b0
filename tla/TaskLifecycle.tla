---------------------------- MODULE TaskLifecycle ----------------------------
(***************************************************************************)
(* What async_workers/task_queue.py promises about one task, whoever runs   *)
(* it: it is attempted at most max_retries + 1 times, one attempt at a      *)
(* time; it succeeds in an attempt, fails only in the last one, or is       *)
(* cancelled between two attempts; and a verdict is final.                  *)
(***************************************************************************)
EXTENDS Naturals

CONSTANTS
  Tasks,
  MaxRetries    \* Task.max_retries

VARIABLES
  attempts,     \* how often the task has been started
  attempting,   \* the tasks being executed
  verdict       \* "none" until the task is finished

lifecycleVars == <<attempts, attempting, verdict>>

Idle(t) == t \notin attempting /\ verdict[t] = "none"

Init ==
  /\ attempts = [t \in Tasks |-> 0]
  /\ attempting = {}
  /\ verdict = [t \in Tasks |-> "none"]

Attempt(t) ==
  /\ Idle(t)
  /\ attempts[t] <= MaxRetries[t]
  /\ attempts' = [attempts EXCEPT ![t] = @ + 1]
  /\ attempting' = attempting \cup {t}
  /\ UNCHANGED verdict

Finish(t, v) ==
  /\ t \in attempting
  /\ attempting' = attempting \ {t}
  /\ verdict' = [verdict EXCEPT ![t] = v]
  /\ UNCHANGED attempts

Succeed(t) == Finish(t, "SUCCESS")

\* Another attempt will follow.
PutBack(t) == attempts[t] <= MaxRetries[t] /\ Finish(t, "none")

GiveUp(t) == attempts[t] = MaxRetries[t] + 1 /\ Finish(t, "FAILED")

\* Several tasks may be found cancelled at once.
Cancel(S) ==
  /\ \A t \in S : Idle(t)
  /\ verdict' = [t \in Tasks |-> IF t \in S THEN "REVOKED" ELSE verdict[t]]
  /\ UNCHANGED <<attempts, attempting>>

Next ==
  \/ \E t \in Tasks : Attempt(t) \/ Succeed(t) \/ PutBack(t) \/ GiveUp(t)
  \/ \E S \in SUBSET Tasks : Cancel(S)

Spec == Init /\ [][Next]_lifecycleVars
=============================================================================
