------------------------------- MODULE MCTraffic -------------------------------
(***************************************************************************)
(* Instances of what stands before the servers, for TLC: the limiters, the  *)
(* balancers and the scaling group; `system` says which.                    *)
(***************************************************************************)
EXTENDS RateLimiters, HashRing, Balancers, Scaling

CONSTANTS s1, s2, s3, c1, c2, c3, c4, t1, t2

VARIABLE system

mcVars == <<system, rateVars, ringVars, balVars, connVars, asgVars, healthVars>>

MCServers   == {s1, s2, s3}
MCPair      == {s1, s2}
MCThreads   == {t1, t2}
MCClients   == {c1, c2, c3, c4}
MCVnode     == [s \in MCServers |->
                  IF s = s1 THEN {1, 5} ELSE IF s = s2 THEN {3, 7} ELSE {4, 9}]
MCClientPos == [c \in MCClients |->
                  IF c = c1 THEN 0 ELSE IF c = c2 THEN 4 ELSE IF c = c3 THEN 6 ELSE 9]
MCWeight    == [s \in MCServers |-> IF s = s1 THEN 3 ELSE IF s = s2 THEN 2 ELSE 1]
MCRotationWeight == [s \in MCServers |-> IF s = s1 THEN 2 ELSE 1]

scalingVars == <<asgVars, healthVars>>

Init ==
  /\ system \in {"rate", "ring", "rotation", "connections", "scaling"}
  /\ RateInit /\ RingInit /\ BalancerInit /\ ConnInit /\ ScalingInit
  /\ system # "rate" => limiter = "token"
  /\ system # "rotation" => balancer = "random"
  /\ system # "connections" => choice = "least"

InRate(A)    == system = "rate" /\ A /\ UNCHANGED <<system, ringVars, balVars, connVars, scalingVars>>
InRing(A)    == system = "ring" /\ A /\ UNCHANGED <<system, rateVars, balVars, connVars, scalingVars>>
InBal(A)     == system = "rotation" /\ A /\ UNCHANGED <<system, rateVars, ringVars, connVars, scalingVars>>
InConn(A)    == system = "connections" /\ A /\ UNCHANGED <<system, rateVars, ringVars, balVars, scalingVars>>
InScaling(A) == system = "scaling" /\ A /\ UNCHANGED <<system, rateVars, ringVars, balVars, connVars>>

Next == InRate(RateNext) \/ InRing(HashNext) \/ InBal(BalancerNext)
        \/ InConn(ConnNext) \/ InScaling(ScalingNext)

Spec == Init /\ [][Next]_mcVars

\* The sweeps go on, boots complete and the database returns.
FairSpec ==
  /\ Spec
  /\ WF_mcVars(InScaling(RunHealthChecks))
  /\ \A i \in Instances : /\ WF_mcVars(InScaling(ProbeLiveness(i)))
                          /\ WF_mcVars(InScaling(BootCompletes(i)))
                          /\ WF_mcVars(InScaling(DatabaseReturns(i)))

\* PoolRecovers of Scaling, in the behaviours that are its own.
InstancesRecover == system = "scaling" => PoolRecovers

\* The load is shared by weight and by open connections: SharesByWeight and
\* LoadSpread.
LoadShared == SharesByWeight /\ LoadSpread
=============================================================================
