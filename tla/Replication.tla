------------------------------ MODULE Replication ------------------------------
(***************************************************************************)
(* database_repl/: the ClusterManager that pings the leader and elects the  *)
(* node with the longest log, which may die while the election sleeps; and  *)
(* a leader that copies its writes to one follower, before it answers or in *)
(* a thread of its own.                                                     *)
(***************************************************************************)
EXTENDS Naturals, FiniteSets

CONSTANTS
  DbNodes, log_index,   \* the nodes, and how far each log is
  NoLeader,
  Writes,               \* the writes to one key
  NoWrite

ASSUME ReplicationAssumption ==
  /\ \A n \in DbNodes : log_index[n] \in Nat
  /\ NoLeader \notin DbNodes /\ NoWrite \notin Writes

VARIABLES
  status,          \* "LEADER", "FOLLOWER" or "DEAD"
  current_leader,
  candidate,       \* new_leader, while the election sleeps
  dead             \* history: the nodes that died

clusterVars == <<status, current_leader, candidate, dead>>

VARIABLES
  synchronous,     \* SynchronousLeader or AsynchronousLeader
  leader_data, follower_data,
  write,           \* "new", "written" (by the leader), "copied", "returned"
  copying,         \* the writes a replicate thread still has to copy
  burst            \* history: the writes begun since nothing was last on its way

replicaVars == <<synchronous, leader_data, follower_data, write, copying, burst>>

Alive == {n \in DbNodes : status[n] # "DEAD"}

\* Mutant: the sort is ascending.
FirstOfShortest == {n \in Alive : \A m \in Alive : log_index[n] <= log_index[m]}

MostUpToDate == {n \in Alive : \A m \in Alive : log_index[n] >= log_index[m]}

\* The constructor has begun the first election.
ReplicationInit ==
  /\ status = [n \in DbNodes |-> "FOLLOWER"]
  /\ current_leader = NoLeader /\ candidate \in MostUpToDate /\ dead = {}
  /\ synchronous \in BOOLEAN
  /\ leader_data = NoWrite /\ follower_data = NoWrite
  /\ write = [w \in Writes |-> "new"]
  /\ copying = {} /\ burst = {}

-----------------------------------------------------------------------------
(* ClusterManager *)

\* After a failed ping; with every node dead it leaves the cluster without a leader,
\* and the monitor pings no more.
BeginElection ==
  /\ candidate = NoLeader
  /\ current_leader # NoLeader /\ status[current_leader] = "DEAD"
  /\ current_leader' = NoLeader
  /\ \/ candidate' \in MostUpToDate
     \/ Alive = {} /\ UNCHANGED candidate
  /\ UNCHANGED <<status, dead, replicaVars>>

EndElection ==
  /\ candidate # NoLeader
  /\ status' = [n \in DbNodes |-> IF n = candidate THEN "LEADER"
                                  ELSE IF status[n] = "DEAD" THEN "DEAD" ELSE "FOLLOWER"]
  /\ current_leader' = candidate
  /\ candidate' = NoLeader
  /\ UNCHANGED <<dead, replicaVars>>

Die(n) ==
  /\ status[n] # "DEAD"
  /\ status' = [status EXCEPT ![n] = "DEAD"]
  /\ dead' = dead \cup {n}
  /\ UNCHANGED <<current_leader, candidate, replicaVars>>

ElectLeader == BeginElection \/ EndElection

-----------------------------------------------------------------------------
(* SynchronousLeader and AsynchronousLeader *)

Uncopied == \E w \in Writes : write[w] = "written" \/ w \in copying

Goes(w, where) == write' = [write EXCEPT ![w] = where]

WriteLeader(w) ==
  /\ write[w] = "new"
  /\ leader_data' = w
  /\ Goes(w, "written")
  /\ burst' = {w} \cup (IF Uncopied THEN burst ELSE {})
  /\ UNCHANGED <<synchronous, follower_data, copying, clusterVars>>

CopySync(w) ==
  /\ synchronous /\ write[w] = "written"
  /\ follower_data' = w
  /\ Goes(w, "copied")
  /\ UNCHANGED <<synchronous, leader_data, copying, burst, clusterVars>>

SpawnReplicate(w) ==
  /\ ~synchronous /\ write[w] = "written"
  /\ copying' = copying \cup {w}
  /\ Goes(w, "returned")
  /\ UNCHANGED <<synchronous, leader_data, follower_data, burst, clusterVars>>

\* Mutant: a follower that has data keeps it.
ReplicateIfAbsent(w) ==
  /\ w \in copying
  /\ follower_data' = IF follower_data = NoWrite THEN w ELSE follower_data
  /\ copying' = copying \ {w}
  /\ UNCHANGED <<synchronous, leader_data, write, burst, clusterVars>>

Replicate(w) ==
  /\ w \in copying
  /\ follower_data' = w
  /\ copying' = copying \ {w}
  /\ UNCHANGED <<synchronous, leader_data, write, burst, clusterVars>>

ReturnSync(w) ==
  /\ write[w] = "copied" /\ Goes(w, "returned")
  /\ UNCHANGED <<synchronous, leader_data, follower_data, copying, burst, clusterVars>>

WriteSync(w)  == WriteLeader(w) \/ CopySync(w) \/ ReturnSync(w)
WriteAsync(w) == SpawnReplicate(w) \/ Replicate(w)

ClusterManager == ElectLeader \/ \E n \in DbNodes : Die(n)
Leaders == \E w \in Writes : WriteSync(w) \/ WriteAsync(w)

ReplicationNext == ClusterManager \/ Leaders
-----------------------------------------------------------------------------
\* A dead node was made leader: it died while the election slept.
Raised == \E n \in dead : status[n] = "LEADER"

\* When the leader dies the living node with the longest log comes to lead, if any
\* lives on; or a node that died during the election does, which the pings then
\* take for alive.
FailoverCompletes ==
  (current_leader = NoLeader \/ status[current_leader] = "DEAD")
    ~> \/ Raised \/ Alive = {}
       \/ /\ current_leader \in Alive
          /\ \A n \in Alive : log_index[n] <= log_index[current_leader]

\* "Elect a new Leader from the remaining Followers": the dead do not lead.
DeadDoNotLead == ~Raised

\* When nothing is on its way the follower holds what the leader holds, or the two
\* hold writes of one burst, each begun before the others were copied: a write that
\* begins after the burst brings agreement back, and one alone never loses it.
ReplicasAgree == Uncopied \/ follower_data = leader_data \/ {leader_data, follower_data} \subseteq burst

\* "The system is now 'Eventually Consistent'": when nothing is on its way.
EventuallyConsistent == Uncopied \/ follower_data = leader_data
=============================================================================
