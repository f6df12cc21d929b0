-------------------------------- MODULE HashRing --------------------------------
(***************************************************************************)
(* ConsistentHashLoadBalancer of load_balancer/ip_hash_consistent.py: the   *)
(* ring is a sorted list of positions beside the map from positions to      *)
(* servers. A lookup goes clockwise from the client's position to the first *)
(* server that is healthy. A server registered twice is on the ring twice,  *)
(* and remove_server then takes one of the two.                             *)
(***************************************************************************)
EXTENDS Naturals, SequencesExt, FiniteSetsExt

CONSTANTS
  RingServers, RingClients,
  Vnode,        \* the positions of a server's virtual nodes
  ClientPos,    \* the position of each client
  NoServer,
  KeyError,     \* the exception of a lookup in ring_map
  MaxCopies     \* bound: how often a server is registered at once

\* No two virtual nodes fall on one position of the 2^32.
ASSUME RingAssumption ==
  /\ \A s \in RingServers : Vnode[s] \subseteq Nat
  /\ \A s, t \in RingServers : s # t => Vnode[s] \cap Vnode[t] = {}
  /\ \A c \in RingClients : ClientPos[c] \in Nat
  /\ NoServer \notin RingServers /\ KeyError \notin RingServers

VARIABLES
  ring,        \* the sorted list, as how often each position is on it
  ring_map,    \* position -> server
  is_healthy,
  doubled      \* history: servers that were registered while they were there

ringVars == <<ring, ring_map, is_healthy, doubled>>

Positions == UNION {Vnode[s] : s \in RingServers}

RingInit ==
  /\ ring = [p \in Positions |-> 0] /\ ring_map = <<>>
  /\ is_healthy = [s \in RingServers |-> TRUE]
  /\ doubled = {}

OnRing == {p \in Positions : ring[p] > 0}
Registered == {ring_map[p] : p \in DOMAIN ring_map}

AddServer(s) ==
  /\ \A p \in Vnode[s] : ring[p] < MaxCopies
  /\ ring' = [p \in Positions |-> IF p \in Vnode[s] THEN ring[p] + 1 ELSE ring[p]]
  /\ ring_map' = [p \in DOMAIN ring_map \cup Vnode[s] |->
                    IF p \in Vnode[s] THEN s ELSE ring_map[p]]
  /\ doubled' = doubled \cup ({s} \cap Registered)
  /\ UNCHANGED is_healthy

\* list.remove takes one of the positions that are equal.
RemoveServer(s) ==
  /\ s \in Registered
  /\ ring' = [p \in Positions |->
                IF p \in Vnode[s] /\ ring[p] > 0 THEN ring[p] - 1 ELSE ring[p]]
  /\ ring_map' = [p \in DOMAIN ring_map \ Vnode[s] |-> ring_map[p]]
  /\ UNCHANGED <<is_healthy, doubled>>

SetHealth(s) ==
  /\ is_healthy' = [is_healthy EXCEPT ![s] = ~@]
  /\ UNCHANGED <<ring, ring_map, doubled>>

HashNext == \E s \in RingServers : AddServer(s) \/ RemoveServer(s) \/ SetHealth(s)

HashSpec == RingInit /\ [][HashNext]_ringVars

-----------------------------------------------------------------------------
(* get_server *)

HealthyOn == {p \in OnRing \cap DOMAIN ring_map : is_healthy[ring_map[p]]}

\* Where a scan ends: at a position that is not in the map it raises KeyError, and of a
\* server that is down it meets the second copy of the position as one visited already.
Stops == {p \in OnRing : p \in HealthyOn \/ p \notin DOMAIN ring_map \/ ring[p] > 1}

\* bisect_right and the wrap past the end: the first stop beyond the client's position,
\* or else the first of all.
FirstStop(c) ==
  LET beyond == {p \in Stops : p > ClientPos[c]}
  IN  Min(IF beyond = {} THEN Stops ELSE beyond)

\* What the scan makes of the stop it ends at.
Answer(p) == IF p \notin DOMAIN ring_map THEN KeyError
             ELSE IF p \in HealthyOn THEN ring_map[p] ELSE NoServer

\* Mutant: the client's position modulo the length of the ring.
GetServerByModulo(c) ==
  IF OnRing = {} THEN NoServer
  ELSE LET InFront(p) == Cardinality({q \in OnRing : q < p})
       IN Answer(CHOOSE p \in OnRing : InFront(p) = ClientPos[c] % Cardinality(OnRing))

GetServer(c) == IF Stops = {} THEN NoServer ELSE Answer(FirstStop(c))
-----------------------------------------------------------------------------
Serving == {s \in Registered : is_healthy[s]}

\* The scan for c ends at a position whose server is down, or gone.
Spoiled(c) == Stops # {} /\ FirstStop(c) \notin HealthyOn

\* While a server is up every client has one that is, but for those whose scan runs
\* into what registering a server twice has left: a position of a server that was.
RingServes ==
  \A c \in RingClients :
    IF Spoiled(c) THEN \E s \in doubled : FirstStop(c) \in Vnode[s]
    ELSE IF Serving = {} THEN GetServer(c) = NoServer ELSE GetServer(c) \in Serving

\* "Adding/removing a server only affects the clients that 'belonged' to it." Whatever
\* is added, removed, fails or recovers, a client keeps its server unless that very
\* server stops serving or the one it moves to starts to.  And all are served.
OnlyItsClientsMove ==
  [][/\ RingServes'
     /\ \A c \in RingClients :
          \/ Spoiled(c) \/ Spoiled(c)'
          \/ GetServer(c)' = GetServer(c)
          \/ GetServer(c) \in Serving \ Serving'
          \/ GetServer(c)' \in Serving' \ Serving
    ]_ringVars

\* "Remove a server and all its virtual nodes from the ring."
RemovedLeavesRing == \A s \in RingServers \ Registered : Vnode[s] \cap OnRing = {}
=============================================================================
