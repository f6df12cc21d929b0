------------------------------- MODULE KafkaLog -------------------------------
(***************************************************************************)
(* One partition of message_queue/kafka_simulation.py, the offset its       *)
(* consumer group has committed, and the consumers that poll it; and, with  *)
(* variables of its own, a topic of several partitions.                     *)
(*                                                                          *)
(* The log and the coordinator have a lock each; poll reads the committed   *)
(* offset, fetches, and then handles and commits message by message with    *)
(* both locks free in between. assign gives the partition to a new consumer *)
(* without waiting for a poll the old one has begun.                        *)
(*                                                                          *)
(* Offsets count from 0 and sequences from 1; committed is the committed    *)
(* offset plus one, which is 0 where the code has -1.                       *)
(***************************************************************************)
EXTENDS Integers, SequencesExt, FiniteSetsExt

CONSTANTS
  Keys,            \* message keys, all of which hash to this partition
  NoKey,           \* the empty key
  Pollers,         \* the consumers of the group
  max_records,
  MaxOffset,       \* bound: how many messages are produced
  MaxRebalances,   \* bound: how often the partition changes hands
  MaxNacks         \* bound: how often a handler fails

ASSUME KafkaAssumption ==
  /\ NoKey \notin Keys
  /\ {max_records, MaxOffset} \subseteq Nat \ {0}
  /\ {MaxRebalances, MaxNacks} \subseteq Nat

VARIABLES
  log,          \* KafkaPartition._log: records of an offset and a key
  next_offset,  \* KafkaPartition._next_offset
  committed,    \* committed_offsets of the partition, plus one
  owner,        \* the consumer assign gave the partition to
  polling,      \* where each consumer stands in poll
  from_offset,  \* the local variable from_offset of poll
  batch,        \* what is left of the local variable messages of poll
  acked,        \* offsets a handler has acknowledged
  seen,         \* offsets a handler has been given
  rebalances,
  nacks

logVars    == <<log, next_offset>>
pollVars   == <<polling, from_offset, batch>>
kafkaVars  == <<log, next_offset, committed, owner, polling, from_offset, batch,
                acked, seen, rebalances, nacks>>

KafkaInit ==
  /\ log = <<>>
  /\ next_offset = 0
  /\ committed = 0
  /\ owner \in Pollers
  /\ polling = [c \in Pollers |-> "idle"]
  /\ from_offset = [c \in Pollers |-> 0]
  /\ batch = [c \in Pollers |-> <<>>]
  /\ acked = {}
  /\ seen = {}
  /\ rebalances = 0
  /\ nacks = 0

-----------------------------------------------------------------------------
(* KafkaPartition *)

Produce(k) ==
  /\ next_offset < MaxOffset
  /\ log' = Append(log, [offset |-> next_offset, key |-> k])
  /\ next_offset' = next_offset + 1
  /\ UNCHANGED <<committed, owner, pollVars, acked, seen, rebalances, nacks>>

\* The records of the slice log[first:first + max_records], an index range and
\* not a range of offsets.
Slice(first) ==
  SubSeq(log, first + 1,
         IF first + max_records < Len(log) THEN first + max_records ELSE Len(log))

\* The log is left with the messages at these indices, in their order.
KeepOnly(kept) ==
  /\ kept # DOMAIN log
  /\ \E index \in [1..Cardinality(kept) -> kept] :
       /\ \A i, j \in DOMAIN index : i < j => index[i] < index[j]
       /\ log' = [i \in DOMAIN index |-> log[index[i]]]
  /\ UNCHANGED <<next_offset, committed, owner, pollVars, acked, seen,
                 rebalances, nacks>>

IsLatest(i) == \A j \in DOMAIN log : log[j].key = log[i].key => j <= i

\* Mutant: the first message of a key is kept, not the latest.
CompactToFirst ==
  KeepOnly({i \in DOMAIN log : \/ log[i].key = NoKey
                               \/ \A j \in DOMAIN log : log[j].key = log[i].key => i <= j})

Compact == KeepOnly({i \in DOMAIN log : log[i].key = NoKey \/ IsLatest(i)})

-----------------------------------------------------------------------------
(* ConsumerGroupCoordinator and KafkaConsumer *)

\* assign after a consumer has joined or left.
Rebalance(c) ==
  /\ rebalances < MaxRebalances
  /\ owner # c
  /\ owner' = c
  /\ rebalances' = rebalances + 1
  /\ UNCHANGED <<logVars, committed, pollVars, acked, seen, nacks>>

\* poll asks for the committed offset.
BeginPoll(c) ==
  /\ owner = c
  /\ polling[c] = "idle"
  /\ polling' = [polling EXCEPT ![c] = "fetching"]
  /\ from_offset' = [from_offset EXCEPT ![c] = committed]
  /\ UNCHANGED <<logVars, committed, owner, batch, acked, seen, rebalances,
                 nacks>>

\* Mutant: the slice begins one record too far.
FetchPastNext(c) ==
  /\ polling[c] = "fetching"
  /\ batch' = [batch EXCEPT ![c] = Slice(from_offset[c] + 1)]
  /\ polling' = [polling EXCEPT ![c] = "handling"]
  /\ UNCHANGED <<logVars, committed, owner, from_offset, acked, seen,
                 rebalances, nacks>>

Fetch(c) ==
  /\ polling[c] = "fetching"
  /\ batch' = [batch EXCEPT ![c] = Slice(from_offset[c])]
  /\ polling' = [polling EXCEPT ![c] = "handling"]
  /\ UNCHANGED <<logVars, committed, owner, from_offset, acked, seen,
                 rebalances, nacks>>

\* on_message of the next message returns True.
HandlerAcks(c) ==
  /\ polling[c] = "handling"
  /\ batch[c] # <<>>
  /\ acked' = acked \cup {Head(batch[c]).offset}
  /\ seen' = seen \cup {Head(batch[c]).offset}
  /\ polling' = [polling EXCEPT ![c] = "committing"]
  /\ UNCHANGED <<logVars, committed, owner, from_offset, batch, rebalances,
                 nacks>>

\* Mutant: a message is committed whatever its handler said of it.
HandlerNacksCommitting(c) ==
  /\ polling[c] = "handling"
  /\ batch[c] # <<>>
  /\ nacks < MaxNacks
  /\ nacks' = nacks + 1
  /\ seen' = seen \cup {Head(batch[c]).offset}
  /\ polling' = [polling EXCEPT ![c] = "committing"]
  /\ UNCHANGED <<logVars, committed, owner, from_offset, batch, acked,
                 rebalances>>

\* on_message returns False or raises: the message is not committed, and poll
\* goes on with the next one.
HandlerNacks(c) ==
  /\ polling[c] = "handling"
  /\ batch[c] # <<>>
  /\ nacks < MaxNacks
  /\ nacks' = nacks + 1
  /\ seen' = seen \cup {Head(batch[c]).offset}
  /\ batch' = [batch EXCEPT ![c] = Tail(@)]
  /\ UNCHANGED <<logVars, committed, owner, polling, from_offset, acked,
                 rebalances>>

\* commit_offset overwrites whatever has been committed since.
Commit(c) ==
  /\ polling[c] = "committing"
  /\ committed' = Head(batch[c]).offset + 1
  /\ batch' = [batch EXCEPT ![c] = Tail(@)]
  /\ polling' = [polling EXCEPT ![c] = "handling"]
  /\ UNCHANGED <<logVars, owner, from_offset, acked, seen, rebalances, nacks>>

EndPoll(c) ==
  /\ polling[c] = "handling"
  /\ batch[c] = <<>>
  /\ polling' = [polling EXCEPT ![c] = "idle"]
  /\ from_offset' = [from_offset EXCEPT ![c] = 0]
  /\ UNCHANGED <<logVars, committed, owner, batch, acked, seen, rebalances,
                 nacks>>

Poll(c) ==
  \/ BeginPoll(c) \/ Fetch(c) \/ HandlerAcks(c) \/ HandlerNacks(c)
  \/ Commit(c) \/ EndPoll(c)

KafkaNext ==
  \/ \E k \in Keys \cup {NoKey} : Produce(k)
  \/ Compact
  \/ \E c \in Pollers : Rebalance(c) \/ Poll(c)

KafkaSpec == KafkaInit /\ [][KafkaNext]_kafkaVars

\* The consumer that owns the partition polls over and over.
KafkaFairness == \A c \in Pollers : WF_kafkaVars(Poll(c))
-----------------------------------------------------------------------------
(* Properties *)

KafkaTypeOK ==
  /\ next_offset \in 0..MaxOffset
  /\ log \in Seq([offset : 0..next_offset - 1, key : Keys \cup {NoKey}])
  /\ committed \in 0..next_offset
  /\ owner \in Pollers
  /\ polling \in [Pollers -> {"idle", "fetching", "handling", "committing"}]
  /\ from_offset \in [Pollers -> 0..next_offset]
  /\ batch \in [Pollers -> Seq([offset : 0..next_offset - 1,
                               key : Keys \cup {NoKey}])]
  /\ acked \subseteq seen
  /\ seen \subseteq 0..next_offset - 1
  /\ rebalances \in 0..MaxRebalances
  /\ nacks \in 0..MaxNacks

Compacted == Len(log) < next_offset

\* A commit is never ahead of the work: the committed offset is of a message
\* that was acknowledged, and as long as the log is not compacted every message
\* up to it has been through a handler, whoever polled and in whatever order
\* the commits of two owners arrived.
CommitFollowsWork ==
  committed > 0 =>
    /\ committed - 1 \in acked
    /\ Compacted \/ 0..committed - 1 \subseteq seen

\* The log and the committed offset through polls, rebalancing and failures.
LogKept == KafkaTypeOK /\ CommitFollowsWork

\* Compaction keeps the latest message of every key, and the log stays ordered
\* by offset, while messages are appended and read.
LatestOf(k) == Max({-1} \cup {log[i].offset : i \in {j \in DOMAIN log : log[j].key = k}})
CompactionKeepsLatest ==
  [][/\ \A k \in Keys : LatestOf(k) <= LatestOf(k)'
     /\ \A i, j \in DOMAIN log' : i < j => log'[i].offset < log'[j].offset]_kafkaVars

\* As long as the log is not compacted, every message produced is given to a
\* handler, through rebalancing, stale commits and failures.
Unseen(o)        == o < next_offset /\ o \notin seen /\ ~Compacted
EveryMessageSeen == \A o \in 0..MaxOffset - 1 : Unseen(o) ~> ~Unseen(o)

\* "Commit offset after successful processing", and a failure "will retry":
\* every message up to the committed offset was acknowledged or compacted away.
CommittedWereAcked ==
  \A i \in DOMAIN log : log[i].offset < committed => log[i].offset \in acked

\* read returns "messages starting from a given offset": a fetch comes back
\* empty only when the log holds no message at that offset or after it.
FetchFindsMessages ==
  [][\A c \in Pollers :
       polling[c] = "fetching" /\ polling'[c] = "handling" /\ batch'[c] = <<>>
         => \A i \in DOMAIN log : log[i].offset < from_offset[c]]_kafkaVars
-----------------------------------------------------------------------------
(* A topic: producers that send keyed and keyless messages to its partitions, *)
(* each with a lock of its own, and the assignment of the partitions to the   *)
(* members of a consumer group.                                               *)

CONSTANTS
  num_partitions,
  KeyHash,          \* MD5 of each key, as a function of the keys used
  Producing,        \* the producers
  MembersInOrder,   \* the consumers of the group, in the order of consumer_ids
  KeyLess,          \* the empty key
  MaxSent           \* bound: messages per producer

ASSUME TopicAssumption ==
  /\ num_partitions \in Nat \ {0}
  /\ KeyHash \in [DOMAIN KeyHash -> Nat] /\ KeyLess \notin DOMAIN KeyHash
  /\ Len(MembersInOrder) \in Nat

VARIABLES
  partitions,    \* the log of each partition: producer, key, and as a history how
                 \* many messages there were when its send began and when it ended
  sent_count,    \* BaseProducer.sent_count
  routed,        \* the message each producer has found the partition of
  stored,        \* history: how many messages have been appended in all
  members,       \* how many of MembersInOrder the group has
  assignments    \* ConsumerGroupCoordinator.assignments

topicVars == <<partitions, sent_count, routed, stored, members, assignments>>

PartitionIds == 0..(num_partitions - 1)
TopicKeys    == DOMAIN KeyHash \cup {KeyLess}
NotRouted    == [partition |-> num_partitions, key |-> KeyLess, began |-> 0]

TopicInit ==
  /\ partitions = [p \in PartitionIds |-> <<>>]
  /\ sent_count = [c \in Producing |-> 0]
  /\ routed = [c \in Producing |-> NotRouted]
  /\ stored = 0
  /\ members = 0
  /\ assignments = [i \in 1..Len(MembersInOrder) |-> {}]

\* Mutant: whether a message has a key or not, it goes where the clock says.
AnyPartition(key) == PartitionIds

\* A keyless message goes where the clock says.
PartitionsFor(key) ==
  IF key = KeyLess THEN PartitionIds ELSE {KeyHash[key] % num_partitions}

GetPartition(c) ==
  /\ routed[c] = NotRouted /\ sent_count[c] < MaxSent
  /\ \E key \in TopicKeys : \E p \in PartitionsFor(key) :
       routed' = [routed EXCEPT ![c] = [partition |-> p, key |-> key, began |-> stored]]
  /\ UNCHANGED <<partitions, sent_count, stored, members, assignments>>

AppendToPartition(c) ==
  /\ routed[c] # NotRouted
  /\ partitions' = [partitions EXCEPT ![routed[c].partition] =
       Append(@, [by |-> c, key |-> routed[c].key, began |-> routed[c].began,
                  ended |-> stored + 1])]
  /\ sent_count' = [sent_count EXCEPT ![c] = @ + 1] /\ stored' = stored + 1
  /\ routed' = [routed EXCEPT ![c] = NotRouted]
  /\ UNCHANGED <<members, assignments>>

SendKeyed(c) == GetPartition(c) \/ AppendToPartition(c)

\* assign, for a group that has grown or shrunk to n members.
AssignPartitions(n) ==
  /\ members' = n
  /\ assignments' = [i \in 1..Len(MembersInOrder) |->
       IF i <= n THEN {p \in PartitionIds : p % n = i - 1} ELSE {}]
  /\ UNCHANGED <<partitions, sent_count, routed, stored>>

TopicNext ==
  \/ \E c \in Producing : SendKeyed(c)
  \/ \E n \in 1..Len(MembersInOrder) : n # members /\ AssignPartitions(n)

TopicSpec == TopicInit /\ [][TopicNext]_topicVars
-----------------------------------------------------------------------------
\* "Using a key ensures all messages for the same entity go to the same
\* partition, guaranteed ordering for that entity": the messages of one key, whoever
\* sends them, are in one partition, and one whose send had ended before that of another
\* began is before it, though a producer finds the partition and appends in two steps;
\* and a group that has been assigned shares all partitions out, as evenly as can be.
OrderPerKey ==
  /\ \A p, q \in PartitionIds :
       \A i \in DOMAIN partitions[p], j \in DOMAIN partitions[q] :
         LET a == partitions[p][i]
             b == partitions[q][j]
         IN (a.key = b.key /\ a.key # KeyLess) =>
              p = q /\ (a.ended <= b.began => i < j)
  /\ members > 0 =>
       /\ \A p \in PartitionIds : Cardinality({i \in DOMAIN assignments : p \in assignments[i]}) = 1
       /\ \A i, j \in 1..members :
            Cardinality(assignments[i]) <= Cardinality(assignments[j]) + 1
=============================================================================
