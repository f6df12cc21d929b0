------------------------------- MODULE Balancers -------------------------------
(***************************************************************************)
(* load_balancer/: first the rotations, round robin over the healthy        *)
(* servers, weighted round robin over an expanded list, smooth weighted     *)
(* round robin and the stateless random choice; then the balancers that     *)
(* count connections. get_server is under the balancer's lock, so one is    *)
(* under way at a time; the pool is changed past that lock, by one          *)
(* administering thread, and servers change health at any moment.           *)
(* One reading of the list of servers, and one load or store of the index,  *)
(* is a step.                                                               *)
(***************************************************************************)
EXTENDS Integers, SequencesExt, FiniteSetsExt, Functions

CONSTANTS
  Servers,
  NoBackend,
  weight,        \* WeightedServer.weight
  MaxPool,       \* bound: registrations in the pool
  MaxFlaps,      \* bound: changes of health
  MaxPicks       \* bound: requests between two changes of the pool

ASSUME BalancerAssumption ==
  /\ IsFiniteSet(Servers)
  /\ \A s \in Servers : weight[s] \in Nat \ {0}

VARIABLES
  balancer,        \* "round_robin", "simple", "smooth" or "random"
  servers,         \* the list of servers; one added twice is in it twice
  healthy,         \* is_healthy
  index,
  _rotation,       \* WeightedRoundRobinSimple._rotation
  current_weight,  \* of the smooth algorithm
  admin,           \* where the administering thread is in a change, what it holds
  pick,            \* the get_server under way
  turn,            \* history: the servers picked since the pool last changed, in order
  unrest,          \* history: how often a server changed health, or came to a smooth
                   \* rotation already under way
  spoiled          \* history: the pool or a server changed between the two readings of
                   \* a smooth pick, or a server was registered again

balVars == <<balancer, servers, healthy, index, _rotation, current_weight,
             admin, pick, turn, unrest, spoiled>>

NoPick == [at |-> "none", list |-> <<>>, total |-> 0, place |-> 0,
           chosen |-> NoBackend, torn |-> FALSE]
AtRest == [at |-> "idle", value |-> 0]

BalancerInit ==
  /\ balancer \in {"round_robin", "simple", "smooth", "random"}
  /\ servers = <<>> /\ healthy = [s \in Servers |-> TRUE]
  /\ index = 0 /\ _rotation = <<>>
  /\ current_weight = [s \in Servers |-> 0]
  /\ admin = AtRest /\ pick = NoPick
  /\ turn = <<>> /\ unrest = 0 /\ spoiled = FALSE

\* The members of the list that are in S, in their order.
Only(list, S) ==
  LET upTo(k) == Cardinality({i \in 1..k : list[i] \in S})
  IN [n \in 1..upTo(Len(list)) |-> list[Min({k \in DOMAIN list : n <= upTo(k)})]]

Healthy == Only(servers, {s \in Servers : healthy[s]})

Times(list, s) == Cardinality({i \in DOMAIN list : list[i] = s})
Share(list, s) == weight[s] * Times(list, s)
Total(list) == FoldFunction(+, 0, [s \in Servers |-> Share(list, s)])
-----------------------------------------------------------------------------
\* The rotation starts anew; a pick under way falls between two.
Changed ==
  /\ turn' = <<>>
  /\ pick' = [pick EXCEPT !.torn = pick.at # "none"]

AddToPool(s) ==
  /\ admin.at = "idle" /\ Len(servers) < MaxPool
  /\ servers' = Append(servers, s)
  /\ current_weight' = IF balancer = "smooth" THEN [current_weight EXCEPT ![s] = 0]
                       ELSE current_weight
  /\ IF balancer = "simple"
     THEN _rotation' = <<>> /\ admin' = [at |-> "rebuilding", value |-> 0]
     ELSE UNCHANGED <<_rotation, admin>>
  /\ unrest' = IF balancer = "smooth" /\ (turn # <<>> \/ pick.at # "none")
               THEN unrest + 1 ELSE unrest
  /\ spoiled' = (spoiled \/ pick.at = "listed" \/ s \in ToSet(servers))
  /\ Changed
  /\ UNCHANGED <<balancer, healthy, index>>

\* Mutant: every server once, whatever it weighs.
ExtendByOne ==
  /\ admin.at = "rebuilding" /\ admin.value < Len(servers)
  /\ LET s == servers[admin.value + 1]
     IN _rotation' = IF healthy[s] THEN Append(_rotation, s) ELSE _rotation
  /\ admin' = [admin EXCEPT !.value = @ + 1]
  /\ Changed
  /\ UNCHANGED <<balancer, servers, healthy, index, current_weight, unrest, spoiled>>

\* _rebuild_rotation: one server after the other, the index last.
ExtendRotation ==
  /\ admin.at = "rebuilding" /\ admin.value < Len(servers)
  /\ LET s == servers[admin.value + 1]
     IN _rotation' = IF healthy[s] THEN _rotation \o [i \in 1..weight[s] |-> s] ELSE _rotation
  /\ admin' = [admin EXCEPT !.value = @ + 1]
  /\ Changed
  /\ UNCHANGED <<balancer, servers, healthy, index, current_weight, unrest, spoiled>>

ResetIndex ==
  /\ admin.at = "rebuilding" /\ admin.value = Len(servers)
  /\ index' = 0 /\ admin' = AtRest
  /\ Changed
  /\ UNCHANGED <<balancer, servers, healthy, _rotation, current_weight, unrest, spoiled>>

\* RoundRobinLoadBalancer.remove_server: a new list, then the index is read, then
\* written.
RemoveFromPool(s) ==
  /\ balancer = "round_robin" /\ admin.at = "idle"
  /\ servers' = Only(servers, Servers \ {s})
  /\ admin' = [at |-> "replaced", value |-> 0]
  /\ Changed
  /\ UNCHANGED <<balancer, healthy, index, _rotation, current_weight, unrest, spoiled>>

ReadIndex ==
  /\ admin.at = "replaced"
  /\ admin' = IF servers = <<>> THEN AtRest ELSE [at |-> "read", value |-> index]
  /\ UNCHANGED <<balancer, servers, healthy, index, _rotation, current_weight,
                 pick, turn, unrest, spoiled>>

ClampIndex ==
  /\ admin.at = "read"
  /\ index' = admin.value % Len(servers) /\ admin' = AtRest
  /\ Changed
  /\ UNCHANGED <<balancer, servers, healthy, _rotation, current_weight, unrest, spoiled>>

\* mark_healthy, mark_unhealthy; the other balancers leave is_healthy to others.
\* A rotation that stands is not rebuilt for it.
MarkHealth(s) ==
  /\ unrest < MaxFlaps
  /\ balancer = "round_robin" => s \in ToSet(servers)
  /\ healthy' = [healthy EXCEPT ![s] = ~@]
  /\ unrest' = unrest + 1
  /\ spoiled' = (spoiled \/ pick.at = "listed")
  /\ IF balancer = "simple" THEN UNCHANGED <<turn, pick>> ELSE Changed
  /\ UNCHANGED <<balancer, servers, index, _rotation, current_weight, admin>>
-----------------------------------------------------------------------------
\* get_server returns s, and its lock is free again.
Serve(s) ==
  /\ turn' = IF pick.torn THEN turn ELSE Append(turn, s)
  /\ pick' = NoPick

\* Mutant: the failed servers are listed with the others.
ListAll ==
  /\ balancer # "simple" /\ pick.at = "none" /\ Len(turn) < MaxPicks
  /\ servers # <<>>
  /\ pick' = [NoPick EXCEPT !.at = "listed", !.list = servers]
  /\ UNCHANGED <<index, _rotation, current_weight, turn>>

ListHealthy ==
  /\ balancer # "simple" /\ pick.at = "none" /\ Len(turn) < MaxPicks
  /\ Healthy # <<>>
  /\ pick' = [NoPick EXCEPT !.at = "listed", !.list = Healthy]
  /\ UNCHANGED <<index, _rotation, current_weight, turn>>

\* The list the index points into.
Row == IF balancer = "simple" THEN _rotation ELSE pick.list

\* self.index = self.index % len(healthy): loaded, then stored.
WrapLoad ==
  /\ balancer = "round_robin" /\ pick.at = "listed"
  /\ pick' = [pick EXCEPT !.at = "wrapping", !.place = index % Len(pick.list)]
  /\ UNCHANGED <<index, _rotation, current_weight, turn>>

WrapStore ==
  /\ pick.at = "wrapping" /\ pick' = [pick EXCEPT !.at = "wrapped"]
  /\ index' = pick.place
  /\ UNCHANGED <<_rotation, current_weight, turn>>

\* The simple rotation trusts its index.
TestRotation ==
  /\ balancer = "simple" /\ pick.at = "none" /\ Len(turn) < MaxPicks
  /\ _rotation # <<>>
  /\ pick' = [NoPick EXCEPT !.at = "wrapped"]
  /\ UNCHANGED <<index, _rotation, current_weight, turn>>

\* Beyond the end it is an IndexError for the caller.
Select ==
  /\ pick.at = "wrapped"
  /\ pick' = IF index < Len(Row)
             THEN [pick EXCEPT !.at = "selected", !.chosen = Row[index + 1]] ELSE NoPick
  /\ UNCHANGED <<index, _rotation, current_weight, turn>>

\* self.index = (self.index + 1) % len: of an emptied rotation, a ZeroDivisionError.
AdvanceLoad ==
  /\ pick.at = "selected"
  /\ pick' = IF Row # <<>>
             THEN [pick EXCEPT !.at = "advancing", !.place = (index + 1) % Len(Row)] ELSE NoPick
  /\ UNCHANGED <<index, _rotation, current_weight, turn>>

AdvanceStore ==
  /\ pick.at = "advancing"
  /\ index' = pick.place
  /\ Serve(pick.chosen)
  /\ UNCHANGED <<_rotation, current_weight>>

\* _total_weight reads the list and its health anew.
TotalWeight ==
  /\ balancer = "smooth" /\ pick.at = "listed"
  /\ pick' = [pick EXCEPT !.at = "totalled", !.total = Total(Healthy)]
  /\ UNCHANGED <<index, _rotation, current_weight, turn>>

Bump ==
  /\ pick.at = "totalled" /\ pick' = [pick EXCEPT !.at = "bumped"]
  /\ current_weight' = [s \in Servers |-> current_weight[s] + Share(pick.list, s)]
  /\ UNCHANGED <<index, _rotation, turn>>

\* max(healthy, key=current_weight): the first of the heaviest.
Choose ==
  /\ pick.at = "bumped"
  /\ \E i \in DOMAIN pick.list :
       /\ \A j \in DOMAIN pick.list :
            \/ current_weight[pick.list[j]] < current_weight[pick.list[i]]
            \/ current_weight[pick.list[j]] = current_weight[pick.list[i]]
               /\ i <= j
       /\ pick' = [pick EXCEPT !.at = "chosen", !.chosen = pick.list[i]]
  /\ UNCHANGED <<index, _rotation, current_weight, turn>>

\* Mutant: the chosen server pays its own weight.
PenalizeByOwn ==
  /\ pick.at = "chosen"
  /\ current_weight' = [current_weight EXCEPT ![pick.chosen] = @ - weight[pick.chosen]]
  /\ Serve(pick.chosen)
  /\ UNCHANGED <<index, _rotation>>

Penalize ==
  /\ pick.at = "chosen"
  /\ current_weight' = [current_weight EXCEPT ![pick.chosen] = @ - pick.total]
  /\ Serve(pick.chosen)
  /\ UNCHANGED <<index, _rotation>>

\* Nothing is remembered of a random choice.
RandomChoice ==
  /\ balancer = "random" /\ pick.at = "listed"
  /\ pick' = NoPick
  /\ UNCHANGED <<index, _rotation, current_weight, turn>>

RoundRobin == WrapLoad \/ WrapStore \/ Select \/ AdvanceLoad \/ AdvanceStore
Smooth == TotalWeight \/ Bump \/ Choose \/ Penalize

Rotate ==
  /\ ListHealthy \/ TestRotation \/ RoundRobin \/ Smooth \/ RandomChoice
  /\ UNCHANGED <<balancer, servers, healthy, admin, unrest, spoiled>>

ChangePool ==
  \/ \E s \in Servers : AddToPool(s) \/ RemoveFromPool(s) \/ MarkHealth(s)
  \/ ExtendRotation \/ ResetIndex \/ ReadIndex \/ ClampIndex

BalancerNext == ChangePool \/ Rotate

BalancerSpec == BalancerInit /\ [][BalancerNext]_balVars
-----------------------------------------------------------------------------
\* Since the pool last changed every server has had its share, whatever removals,
\* failures, rebuilt lists and broken-off picks the index has been through: as many
\* requests one after the other as the rotation is long go to each server as often
\* as it is in it; that is its weight, in an expanded list that was built while no
\* server had failed; and the smooth algorithm, while no server has failed or come
\* late, never gives a server more than a request beyond its share, and exactly its
\* share in every full turn. Through failures it forgets nothing: between two picks
\* its weights add up to nothing, unless the healthy servers changed between the
\* two times one pick read them, or a server was registered again.
SharesByWeight ==
  LET row == IF balancer = "simple" THEN _rotation ELSE Healthy IN
  /\ balancer \in {"round_robin", "simple"} /\ row # <<>> =>
       \A m \in 0..Len(turn) - Len(row), s \in Servers :
         Times(SubSeq(turn, m + 1, m + Len(row)), s) = Times(row, s)
  /\ balancer = "simple" /\ admin.at = "idle" /\ unrest = 0 =>
       \A s \in Servers : Times(_rotation, s) = Share(servers, s)
  /\ balancer = "smooth" =>
       /\ ~spoiled /\ pick.at \in {"none", "listed", "totalled"} =>
            FoldFunction(+, 0, current_weight) = 0
       /\ unrest = 0 /\ row # <<>> => \A s \in Servers :
            LET ahead == Times(turn, s) * Total(row) - Len(turn) * Share(row, s)
            IN ahead < Total(row) /\ (Len(turn) % Total(row) = 0 => ahead = 0)

\* "Clamp the index to avoid IndexError after removal": under its lock the round
\* robin points into the list it has in hand.
IndexIsClamped ==
  balancer = "round_robin" /\ pick.at = "wrapped" => index < Len(pick.list)

\* "Deduct total_weight from the chosen server's current_weight", as much as step 1
\* has given all of them: between picks the weights add up to nothing.
SumsToNothing ==
  balancer = "smooth" /\ pick.at = "none" => FoldFunction(+, 0, current_weight) = 0
-----------------------------------------------------------------------------
(* LeastConnectionsLoadBalancer, with weights or without, and                 *)
(* PowerOfTwoChoicesLoadBalancer. A request picks a server and connects under *)
(* the balancer's lock; release and the health marks go past that lock.       *)

CONSTANTS
  Requests, Backends,
  capacity_weight    \* Server.weight

ASSUME ConnectionAssumption ==
  /\ IsFiniteSet(Backends)
  /\ \A s \in Backends : capacity_weight[s] \in Nat \ {0}

VARIABLES
  choice,     \* "least", "weighted" or "two"
  up,         \* is_healthy
  active_connections,
  lock_held,  \* which request is in get_server; none: {}
  serving,    \* the server of each request, from its pick to its release
  stage,      \* "new", "picked", "open", "released"
  disturbed   \* history: a connection was released or a server changed health

connVars == <<choice, up, active_connections, lock_held, serving, stage, disturbed>>

ConnInit ==
  /\ choice \in {"least", "weighted", "two"}
  /\ up = [s \in Backends |-> TRUE]
  /\ active_connections = [s \in Backends |-> 0]
  /\ lock_held = {}
  /\ serving = [r \in Requests |-> NoBackend]
  /\ stage = [r \in Requests |-> "new"]
  /\ disturbed = FALSE

Up == {s \in Backends : up[s]}

\* s is not worse than t: by the weighted score, or by the connections.
NoBusier(s, t) ==
  IF choice = "weighted"
  THEN active_connections[s] * capacity_weight[t] <= active_connections[t] * capacity_weight[s]
  ELSE active_connections[s] <= active_connections[t]

\* Mutant: the first one up will do.
AnyUp == Up

Candidates ==
  IF choice = "two" /\ Cardinality(Up) > 1
  THEN {s \in Up : \E t \in Up \ {s} : NoBusier(s, t)}
  ELSE {s \in Up : \A t \in Up : NoBusier(s, t)}

PickServer(r) ==
  /\ stage[r] = "new" /\ lock_held = {}
  /\ \E s \in Candidates :
       /\ serving' = [serving EXCEPT ![r] = s]
       /\ stage' = [stage EXCEPT ![r] = "picked"]
       /\ lock_held' = {r}
  /\ UNCHANGED <<choice, up, active_connections, disturbed>>

Connect(r) ==
  /\ stage[r] = "picked"
  /\ active_connections' = [active_connections EXCEPT ![serving[r]] = @ + 1]
  /\ stage' = [stage EXCEPT ![r] = "open"]
  /\ lock_held' = lock_held \ {r}
  /\ UNCHANGED <<choice, up, serving, disturbed>>

Release(r) ==
  /\ stage[r] = "open"
  /\ active_connections' =
       [active_connections EXCEPT ![serving[r]] = IF @ = 0 THEN 0 ELSE @ - 1]
  /\ stage' = [stage EXCEPT ![r] = "released"]
  /\ disturbed' = TRUE
  /\ UNCHANGED <<choice, up, lock_held, serving>>

MarkUp(s) ==
  /\ up' = [up EXCEPT ![s] = ~@]
  /\ disturbed' = TRUE
  /\ UNCHANGED <<choice, active_connections, lock_held, serving, stage>>

SimulateRequest(r) == PickServer(r) \/ Connect(r) \/ Release(r)

ConnNext ==
  \/ \E r \in Requests : SimulateRequest(r)
  \/ \E s \in Backends : MarkUp(s)

ConnSpec == ConnInit /\ [][ConnNext]_connVars
-----------------------------------------------------------------------------
OpenOn(s) == Cardinality({r \in Requests : stage[r] = "open" /\ serving[r] = s})

\* "A global lock prevents two concurrent requests from both seeing the same
\* 'minimum' and both picking the same server": the counts are those of the open
\* connections, and while none has closed and no server has failed no server has
\* two connections more than another, for their weights; two random choices never
\* leave all the others idle.
LoadSpread ==
  /\ \A s \in Backends : active_connections[s] = OpenOn(s)
  /\ ~disturbed =>
       CASE choice = "least" ->
              \A s, t \in Backends : active_connections[s] <= active_connections[t] + 1
         [] choice = "weighted" ->
              \A s, t \in Backends :
                active_connections[s] > 0 =>
                  (active_connections[s] - 1) * capacity_weight[t]
                    <= active_connections[t] * capacity_weight[s]
         [] choice = "two" ->
              \A s \in Backends :
                active_connections[s] > 1 /\ Backends # {s} =>
                  \E t \in Backends \ {s} : active_connections[t] >= active_connections[s] - 1
=============================================================================
