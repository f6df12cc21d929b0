------------------------------- MODULE Delivery -------------------------------
(***************************************************************************)
(* The delivery guarantees of idempotency/distributed_idempotency.py.       *)
(*                                                                          *)
(* Delivery: the at-most-once and at-least-once producers over a network    *)
(* that drops, the SimpleBroker, and the ExactlyOnceConsumer with its       *)
(* deduplication window. Outbox: the TransactionalOutbox and its relay      *)
(* jobs, which share nothing with them.                                     *)
(*                                                                          *)
(* A producer that never retries is the AtMostOnceProducer. The broker is   *)
(* not locked: consume copies the queue and empties it in two steps. Each   *)
(* locked call of the consumer is a step. A client sends a message again    *)
(* under the same id, which is where duplicates come from.                  *)
(***************************************************************************)
EXTENDS Naturals, Sequences, FiniteSets

CONSTANTS
  Producers,
  Consumers,     \* threads that consume the topic and call process
  MessageIds,
  max_retries,   \* of each producer; 0 for AtMostOnceProducer
  MaxSends,      \* bound: how many times a producer sends
  Orders,
  Relays,        \* relay jobs that may run at the same time
  MaxCrashes     \* bound: how many times a relay job dies

ASSUME DeliveryAssumption ==
  /\ IsFiniteSet(Consumers)
  /\ max_retries \in [Producers -> Nat]
  /\ MaxSends \in Nat

ASSUME OutboxAssumption == IsFiniteSet(Relays) /\ MaxCrashes \in Nat

VARIABLES
  sends,       \* how many times each producer has sent
  sending,     \* what each producer is sending: <<>> or <<message_id, attempt>>
  topic,       \* SimpleBroker.queues of the topic
  msgs,        \* what each consumer thread has taken and not processed yet
  consumer,    \* where each consumer thread stands
  seen_ids,    \* ExactlyOnceConsumer._seen_ids within the window
  handled,     \* how often the handler took effect for each message
  lapsed       \* messages whose window has ended

deliveryVars == <<sends, sending, topic, msgs, consumer, seen_ids, handled, lapsed>>

DeliveryInit ==
  /\ sends = [p \in Producers |-> 0]
  /\ sending = [p \in Producers |-> <<>>]
  /\ topic = <<>>
  /\ msgs = [c \in Consumers |-> <<>>]
  /\ consumer = [c \in Consumers |-> "idle"]
  /\ seen_ids = {}
  /\ handled = [m \in MessageIds |-> 0]
  /\ lapsed = {}

-----------------------------------------------------------------------------
(* send *)

Send(p, m) ==
  /\ sending[p] = <<>> /\ sends[p] < MaxSends
  /\ sends' = [sends EXCEPT ![p] = @ + 1]
  /\ sending' = [sending EXCEPT ![p] = <<m, 0>>]
  /\ UNCHANGED <<topic, msgs, consumer, seen_ids, handled, lapsed>>

\* The network drops an attempt; the last one is given up.
Drop(p) ==
  /\ sending[p] # <<>>
  /\ sending' = [sending EXCEPT ![p] =
       IF @[2] < max_retries[p] THEN <<@[1], @[2] + 1>> ELSE <<>>]
  /\ UNCHANGED <<sends, topic, msgs, consumer, seen_ids, handled, lapsed>>

Receive(p) ==
  /\ sending[p] # <<>>
  /\ topic' = Append(topic, sending[p][1])
  /\ sending' = [sending EXCEPT ![p] = <<>>]
  /\ UNCHANGED <<sends, msgs, consumer, seen_ids, handled, lapsed>>

-----------------------------------------------------------------------------
(* consume and process *)

CopyQueue(c) ==
  /\ consumer[c] = "idle" /\ topic # <<>>
  /\ msgs' = [msgs EXCEPT ![c] = topic]
  /\ consumer' = [consumer EXCEPT ![c] = "emptying"]
  /\ UNCHANGED <<sends, sending, topic, seen_ids, handled, lapsed>>

\* Whatever has arrived since the copy goes as well.
EmptyQueue(c) ==
  /\ consumer[c] = "emptying"
  /\ topic' = <<>>
  /\ consumer' = [consumer EXCEPT ![c] = "checking"]
  /\ UNCHANGED <<sends, sending, msgs, seen_ids, handled, lapsed>>

\* The next message, or the next consume.
NextMessage(c) ==
  /\ msgs' = [msgs EXCEPT ![c] = Tail(@)]
  /\ consumer' = [consumer EXCEPT ![c] = IF Len(msgs[c]) = 1 THEN "idle" ELSE "checking"]

\* Mutant: a message is skipped once it is out of the window, not within it.
IsExpired(c) ==
  /\ consumer[c] = "checking"
  /\ IF Head(msgs[c]) \in lapsed
     THEN NextMessage(c)
     ELSE consumer' = [consumer EXCEPT ![c] = "handling"] /\ UNCHANGED msgs
  /\ UNCHANGED <<sends, sending, topic, seen_ids, handled, lapsed>>

IsDuplicate(c) ==
  /\ consumer[c] = "checking"
  /\ IF Head(msgs[c]) \in seen_ids
     THEN NextMessage(c)
     ELSE consumer' = [consumer EXCEPT ![c] = "handling"] /\ UNCHANGED msgs
  /\ UNCHANGED <<sends, sending, topic, seen_ids, handled, lapsed>>

\* The handler takes effect, or raises and process is left unmarked.
RunHandler(c) ==
  /\ consumer[c] = "handling"
  /\ \/ /\ handled' = [handled EXCEPT ![Head(msgs[c])] = @ + 1]
        /\ consumer' = [consumer EXCEPT ![c] = "marking"]
        /\ UNCHANGED msgs
     \/ NextMessage(c) /\ UNCHANGED handled
  /\ UNCHANGED <<sends, sending, topic, seen_ids, lapsed>>

MarkSeen(c) ==
  /\ consumer[c] = "marking"
  /\ seen_ids' = seen_ids \cup {Head(msgs[c])}
  /\ NextMessage(c)
  /\ UNCHANGED <<sends, sending, topic, handled, lapsed>>

\* dedup_window seconds have passed since the mark.
WindowEnds(m) ==
  /\ m \in seen_ids
  /\ seen_ids' = seen_ids \ {m}
  /\ lapsed' = lapsed \cup {m}
  /\ UNCHANGED <<sends, sending, topic, msgs, consumer, handled>>

-----------------------------------------------------------------------------
Produce(p) == Drop(p) \/ Receive(p) \/ \E m \in MessageIds : Send(p, m)
Consume(c) == CopyQueue(c) \/ EmptyQueue(c)
Process(c) == IsDuplicate(c) \/ RunHandler(c) \/ MarkSeen(c)

DeliveryNext ==
  \/ \E p \in Producers : Produce(p)
  \/ \E c \in Consumers : Consume(c) \/ Process(c)
  \/ \E m \in MessageIds : WindowEnds(m)

DeliverySpec == DeliveryInit /\ [][DeliveryNext]_deliveryVars
-----------------------------------------------------------------------------
\* "At-least-once + idempotent consumer = effectively exactly-once": within the
\* window a message takes effect at most once per consumer thread, however often
\* it is sent and whoever consumes it; so once, where one thread consumes.
OnceEach ==
  \A m \in MessageIds \ lapsed : handled[m] <= Cardinality(Consumers)
-----------------------------------------------------------------------------
(* TransactionalOutbox: orders and their events are inserted in one critical   *)
(* section; relay jobs read the unsent events under the lock, then publish     *)
(* each and mark it as sent without it. A relay job may die at any point and   *)
(* is run again.                                                               *)

VARIABLES
  orders,       \* TransactionalOutbox.orders
  outbox,       \* the orders of the outbox entries, oldest first
  sent,         \* the orders whose entry is marked as sent
  published,    \* published_events: how often the event of each order appears
  unsent,       \* the entries that each relay has read as unsent and has still to mark
  relay,        \* where each relay stands
  crashes

outboxVars == <<orders, outbox, sent, published, unsent, relay, crashes>>

OutboxInit ==
  /\ orders = {}
  /\ outbox = <<>>
  /\ sent = {}
  /\ published = [o \in Orders |-> 0]
  /\ unsent = [r \in Relays |-> {}]
  /\ relay = [r \in Relays |-> "idle"]
  /\ crashes = 0

CreateOrderWithEvent(o) ==
  /\ o \notin orders
  /\ orders' = orders \cup {o}
  /\ outbox' = Append(outbox, o)
  /\ UNCHANGED <<sent, published, unsent, relay, crashes>>

ReadUnsent(r) ==
  /\ relay[r] = "idle" /\ orders \ sent # {}
  /\ unsent' = [unsent EXCEPT ![r] = orders \ sent]
  /\ relay' = [relay EXCEPT ![r] = "publishing"]
  /\ UNCHANGED <<orders, outbox, sent, published, crashes>>

\* The oldest entry that a relay has still to see to.
Oldest(r, o) ==
  /\ o \in unsent[r]
  /\ \A p \in unsent[r] : \E i, j \in DOMAIN outbox : i <= j /\ outbox[i] = o /\ outbox[j] = p

Publish(r) ==
  /\ relay[r] = "publishing"
  /\ \E o \in Orders : Oldest(r, o) /\ published' = [published EXCEPT ![o] = @ + 1]
  /\ relay' = [relay EXCEPT ![r] = "marking"]
  /\ UNCHANGED <<orders, outbox, sent, unsent, crashes>>

\* The loop goes on with the next entry, or ends.
DoneWith(r, o) ==
  /\ unsent' = [unsent EXCEPT ![r] = @ \ {o}]
  /\ relay' = [relay EXCEPT ![r] = IF unsent[r] = {o} THEN "idle" ELSE "publishing"]
  /\ UNCHANGED <<orders, outbox, published, crashes>>

\* Mutant: the whole batch is marked after its first event is published.
MarkAllSent(r) ==
  /\ relay[r] = "marking"
  /\ \E o \in Orders : Oldest(r, o) /\ DoneWith(r, o)
  /\ sent' = sent \cup unsent[r]

\* Mutant: the relay publishes and never marks.
MarkNothing(r) ==
  /\ relay[r] = "marking"
  /\ \E o \in Orders : Oldest(r, o) /\ DoneWith(r, o)
  /\ UNCHANGED sent

MarkSent(r) ==
  /\ relay[r] = "marking"
  /\ \E o \in Orders : Oldest(r, o) /\ DoneWith(r, o) /\ sent' = sent \cup {o}

RelayDies(r) ==
  /\ relay[r] # "idle" /\ crashes < MaxCrashes
  /\ unsent' = [unsent EXCEPT ![r] = {}]
  /\ relay' = [relay EXCEPT ![r] = "idle"]
  /\ crashes' = crashes + 1
  /\ UNCHANGED <<orders, outbox, sent, published>>

RelayOutbox(r) == ReadUnsent(r) \/ Publish(r) \/ MarkSent(r)

OutboxNext ==
  \/ \E o \in Orders : CreateOrderWithEvent(o)
  \/ \E r \in Relays : RelayOutbox(r) \/ RelayDies(r)

OutboxSpec == OutboxInit /\ [][OutboxNext]_outboxVars
-----------------------------------------------------------------------------
\* "At-least-once delivery (relay may publish twice if it crashes mid-delete)":
\* an event is published only for an order that exists, is published before it
\* counts as sent, and once more only for every crash and every further relay.
PublishedAsPromised ==
  \A o \in Orders :
    /\ published[o] > 0 => o \in orders
    /\ o \in sent => published[o] > 0
    /\ published[o] <= Cardinality(Relays) + crashes

\* An order never stays without its event, though relays die on the way.
EveryOrderPublished == \A o \in Orders : o \in orders ~> published[o] > 0
=============================================================================
