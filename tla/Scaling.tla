-------------------------------- MODULE Scaling --------------------------------
(***************************************************************************)
(* health_autoscaling/: the AutoScalingGroup, whose policy reads the load   *)
(* the nodes were given by the last distribution of traffic; and the        *)
(* Orchestrator that sweeps a balancer's nodes with liveness probes while   *)
(* the balancer asks for readiness before it routes.                        *)
(***************************************************************************)
EXTENDS Integers, FiniteSetsExt

CONSTANTS
  target_cpu, min_size, max_size,
  Loads,        \* total_rps; a node has all its CPU at 100
  Instances,    \* the places of the balancer's list
  MaxFaults     \* bound: deadlocks and database failures

ASSUME ScalingAssumption ==
  /\ target_cpu \in Nat /\ target_cpu > 20
  /\ min_size \in Nat \ {0} /\ max_size \in Nat /\ min_size <= max_size
  /\ Loads \subseteq Nat /\ MaxFaults \in Nat

VARIABLES
  size,         \* len(nodes)
  sharing, at,  \* nodes that carry traffic, nodes there were when it was shared out
  load,         \* the traffic shared out
  fresh,        \* no evaluation since it was shared out
  last,         \* history: 1 scaled out, -1 scaled in, 0 neither, at this load
  stale,        \* history: an evaluation used metrics another had acted on
  flapped_asg   \* history: scaled one way and then the other at one load

asgVars == <<size, sharing, at, load, fresh, last, stale, flapped_asg>>

VARIABLES
  state,        \* ServerInstance.state; "booted": boot_completed_at has passed
  sweep,        \* the instances the sweep has still to probe
  faults, routed

healthVars == <<state, sweep, faults, routed>>

ScalingInit ==
  /\ size = 1 /\ sharing = 1 /\ at = 1 /\ load = 0
  /\ fresh = FALSE /\ last = 0 /\ stale = FALSE /\ flapped_asg = FALSE
  /\ state = [i \in Instances |-> "booting"]
  /\ sweep = {} /\ faults = 0 /\ routed = "ready"

-----------------------------------------------------------------------------
(* AutoScalingGroup *)

CeilDiv(a, b) == (a + b - 1) \div b

DistributeTraffic ==
  \E total_rps \in Loads :
    /\ load' = total_rps
    /\ sharing' = size /\ at' = size
    /\ fresh' = TRUE
    /\ last' = IF total_rps = load THEN last ELSE 0
    /\ UNCHANGED <<size, stale, flapped_asg, healthVars>>

\* The average CPU is sharing * load / (at * size); here it is compared with cpu.
AverageAbove(cpu) == sharing * load > cpu * at * size
AverageBelow(cpu) == sharing * load < cpu * at * size

\* Mutant: the nodes wanted are rounded down.
DesiredFloor == (sharing * load) \div (at * target_cpu)

Desired == CeilDiv(sharing * load, at * target_cpu)

ScaledSize ==
  IF AverageAbove(target_cpu) /\ size < max_size
  THEN Max({size, Min({Desired, max_size})})
  ELSE IF AverageBelow(target_cpu - 20) /\ size > min_size
       THEN Min({size, Max({Desired, min_size})})
       ELSE size

EvaluateScaling ==
  LET way == IF ScaledSize > size THEN 1 ELSE IF ScaledSize < size THEN -1 ELSE 0 IN
  /\ size' = ScaledSize
  /\ sharing' = Min({sharing, ScaledSize})   \* the newest nodes are popped first
  /\ fresh' = FALSE
  /\ stale' = (stale \/ ~fresh)
  /\ last' = IF way = 0 THEN last ELSE way
  /\ flapped_asg' = (flapped_asg \/ way * last = -1)
  /\ UNCHANGED <<at, load, healthVars>>

AutoScalingGroup == DistributeTraffic \/ EvaluateScaling

-----------------------------------------------------------------------------
(* Probes *)

Noticed(i) == IF state[i] = "booted" THEN "running" ELSE state[i]

Becomes(i, s) == state' = [state EXCEPT ![i] = s]

BootCompletes(i) ==
  /\ state[i] = "booting" /\ Becomes(i, "booted")
  /\ UNCHANGED <<sweep, faults, routed, asgVars>>

FaultHits(i) ==
  /\ state[i] = "running" /\ faults < MaxFaults
  /\ \E s \in {"database_down", "deadlocked"} : Becomes(i, s)
  /\ faults' = faults + 1
  /\ UNCHANGED <<sweep, routed, asgVars>>

DatabaseReturns(i) ==
  /\ state[i] = "database_down" /\ Becomes(i, "running")
  /\ UNCHANGED <<sweep, faults, routed, asgVars>>

\* check_readiness of every node, then one of those that are ready.
RouteRequest ==
  /\ state' = [i \in Instances |-> Noticed(i)]
  /\ routed' = IF \E i \in Instances : state'[i] = "running" THEN "ready" ELSE "502"
  /\ UNCHANGED <<sweep, faults, asgVars>>

RunHealthChecks ==
  /\ sweep = {} /\ sweep' = Instances
  /\ UNCHANGED <<state, faults, routed, asgVars>>

\* Mutant: only a node whose database is down is restarted, as if the probes were
\* exchanged.
ProbeReadiness(i) ==
  /\ i \in sweep /\ sweep' = sweep \ {i}
  /\ Becomes(i, IF Noticed(i) = "database_down" THEN "booting" ELSE Noticed(i))
  /\ UNCHANGED <<faults, routed, asgVars>>

ProbeLiveness(i) ==
  /\ i \in sweep /\ sweep' = sweep \ {i}
  /\ Becomes(i, IF Noticed(i) = "deadlocked" THEN "booting" ELSE Noticed(i))
  /\ UNCHANGED <<faults, routed, asgVars>>

ServerInstance(i) == BootCompletes(i) \/ FaultHits(i) \/ DatabaseReturns(i)
Orchestrator == RunHealthChecks \/ \E i \in Instances : ProbeLiveness(i)

ScalingNext ==
  \/ AutoScalingGroup
  \/ RouteRequest \/ Orchestrator
  \/ \E i \in Instances : ServerInstance(i)

ScalingSpec == ScalingInit /\ [][ScalingNext]_<<asgVars, healthVars>>
-----------------------------------------------------------------------------
\* "We subtract 20 to create a 'deadband' so it doesn't flap": at a steady load the
\* group never scales one way and then the other, and once it has been evaluated
\* it has the nodes the load needs or all it may have, as long as the traffic is
\* shared out again before each evaluation. It never has more nodes than max_size
\* nor scales in below min_size, which the one node it begins with need not be.
ScalesWithoutFlapping ==
  /\ size \in 1..max_size
  /\ last = -1 => min_size <= size
  /\ ~stale =>
       /\ ~flapped_asg
       /\ ~fresh => size * target_cpu >= load \/ size = max_size

\* A deadlocked node is found by a sweep and replaced, and its replacement boots:
\* when the faults are over every node is soon, and stays, running, as long as the
\* sweeps go on, boots complete and the database returns.
PoolRecovers == <>[](\A i \in Instances : state[i] = "running")
=============================================================================
