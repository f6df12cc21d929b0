---------------------------------- MODULE Saga ----------------------------------
(***************************************************************************)
(* SagaOrchestrator.execute and TaskPipeline.run of async_workers/          *)
(* patterns.py. Both run their steps one after the other; when one fails,   *)
(* the pipeline aborts, and the saga compensates the completed steps, last  *)
(* first. A compensation that fails is reported and passed over.            *)
(***************************************************************************)
EXTENDS Naturals

CONSTANT NumSteps   \* len(_steps), or of _stages

ASSUME SagaAssumption == NumSteps \in Nat \ {0}

VARIABLES
  kind,       \* "saga" or "pipeline"
  saga,       \* where execute, or run, stands
  position,   \* the step it is at, forwards or, in compensation, backwards
  effect      \* what has become of each step

sagaVars == <<kind, saga, position, effect>>

Steps == 1..NumSteps

SagaInit ==
  /\ kind \in {"saga", "pipeline"}
  /\ saga = "running"
  /\ position = 1
  /\ effect = [s \in Steps |-> "none"]

StepCompletes ==
  /\ saga = "running"
  /\ effect' = [effect EXCEPT ![position] = "done"]
  /\ position' = position + 1
  /\ saga' = IF position = NumSteps THEN "completed" ELSE "running"
  /\ UNCHANGED kind

StageFails ==
  /\ kind = "pipeline" /\ saga = "running"
  /\ saga' = "raised"
  /\ UNCHANGED <<kind, position, effect>>

StepFails ==
  /\ kind = "saga" /\ saga = "running"
  /\ position' = position - 1
  /\ saga' = IF position = 1 THEN "raised" ELSE "compensating"
  /\ UNCHANGED <<kind, effect>>

\* What one compensation leaves behind, after which the loop goes on.
Tried(result) ==
  /\ saga = "compensating"
  /\ effect' = [effect EXCEPT ![position] = result]
  /\ position' = position - 1
  /\ saga' = IF position = 1 THEN "raised" ELSE "compensating"
  /\ UNCHANGED kind

Compensate == Tried("undone")

\* Mutant: the first compensation that fails ends them.
StopCompensating ==
  /\ saga = "compensating"
  /\ effect' = [effect EXCEPT ![position] = "stuck"]
  /\ saga' = "raised"
  /\ UNCHANGED <<kind, position>>

CompensationFails == Tried("stuck")

ExecuteSaga == StepCompletes \/ StepFails \/ Compensate \/ CompensationFails
RunPipeline == StepCompletes \/ StageFails

SagaNext == ExecuteSaga \/ RunPipeline

SagaSpec == SagaInit /\ [][SagaNext]_sagaVars
-----------------------------------------------------------------------------
\* "Run compensating transactions for COMPLETED steps in reverse order": a saga
\* that raised has tried to undo every step it completed and left the others
\* alone, and no step is tried before those that were completed after it.
SagaUndone ==
  /\ saga = "completed" => \A s \in Steps : effect[s] = "done"
  /\ (saga = "raised" /\ kind = "saga") =>
       \E failed \in Steps : \A s \in Steps :
         IF s < failed THEN effect[s] \in {"undone", "stuck"} ELSE effect[s] = "none"
  /\ \A s, t \in Steps :
       (s < t /\ effect[s] \in {"undone", "stuck"}) => effect[t] # "done"
=============================================================================
