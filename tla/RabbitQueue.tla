----------------------------- MODULE RabbitQueue -----------------------------
(***************************************************************************)
(* One queue of message_queue/rabbitmq_simulation.py with its dead-letter   *)
(* queue, and the consumers that run RabbitMQBroker.consume on it.          *)
(*                                                                          *)
(* put, get, ack, nack and requeue_unacked each run under the queue's lock. *)
(* Between get and ack or nack a consumer holds a message with the lock     *)
(* free; a delivery tag is given once, by put, so it stays valid for every  *)
(* redelivery, and a message is its own tag here.                           *)
(***************************************************************************)
EXTENDS Naturals, SequencesExt

CONSTANTS
  Messages,
  Consumers,
  NoMessage,        \* what get returns on an empty queue (None)
  max_retries,      \* RabbitQueue.max_retries
  NumMessages,      \* the num_messages each consumer passes, 0 for None
  MaxDisconnects    \* bound: how often consumers disconnect

ASSUME RabbitAssumption ==
  /\ NoMessage \notin Messages
  /\ max_retries \in Nat \ {0}
  /\ NumMessages \in [Consumers -> Nat]
  /\ MaxDisconnects \in Nat

VARIABLES
  pending,        \* RabbitQueue._messages
  unacked,        \* RabbitQueue._unacked in the order of insertion
  dlq,            \* RabbitQueue.dlq
  retries,        \* Message.retry_count
  enqueued_count,
  acked_count,
  nacked_count,
  at,             \* where each consumer stands in consume
  holding,        \* the local variable `msg` of consume
  verdict,        \* what the handler said of it
  count,          \* the local variable `count` of consume
  answers,        \* all that handlers have ever said of a message
  disconnects

queueVars    == <<pending, unacked, dlq, retries, enqueued_count, acked_count,
                  nacked_count>>
consumerVars == <<at, holding, verdict, count, answers>>
rabbitVars   == <<pending, unacked, dlq, retries, enqueued_count, acked_count,
                  nacked_count, at, holding, verdict, count, answers,
                  disconnects>>

RabbitInit ==
  /\ pending = <<>>
  /\ unacked = <<>>
  /\ dlq = <<>>
  /\ retries = [m \in Messages |-> 0]
  /\ enqueued_count = 0
  /\ acked_count = 0
  /\ nacked_count = 0
  /\ at = [c \in Consumers |-> "out"]
  /\ holding = [c \in Consumers |-> NoMessage]
  /\ verdict = [c \in Consumers |-> "none"]
  /\ count = [c \in Consumers |-> 0]
  /\ answers = [m \in Messages |-> {}]
  /\ disconnects = 0

NeverPut(m) ==
  /\ m \notin Range(pending \o unacked \o dlq)
  /\ answers[m] = {}

-----------------------------------------------------------------------------
(* RabbitQueue *)

Put(m) ==
  /\ NeverPut(m)
  /\ pending' = Append(pending, m)
  /\ enqueued_count' = enqueued_count + 1
  /\ UNCHANGED <<unacked, dlq, retries, acked_count, nacked_count,
                 consumerVars, disconnects>>

Ack(m) ==
  /\ IF m \in Range(unacked)
     THEN unacked' = RemoveFirst(unacked, m) /\ acked_count' = acked_count + 1
     ELSE UNCHANGED <<unacked, acked_count>>
  /\ UNCHANGED <<pending, dlq, retries, enqueued_count, nacked_count>>

Nack(m, requeue) ==
  /\ IF m \in Range(unacked)
     THEN /\ unacked' = RemoveFirst(unacked, m)
          /\ nacked_count' = nacked_count + 1
          /\ retries' = [retries EXCEPT ![m] = @ + 1]
          /\ IF requeue /\ retries'[m] < max_retries
             THEN pending' = <<m>> \o pending /\ UNCHANGED dlq
             ELSE dlq' = Append(dlq, m) /\ UNCHANGED pending
     ELSE UNCHANGED <<pending, unacked, dlq, retries, nacked_count>>
  /\ UNCHANGED <<enqueued_count, acked_count>>

\* Mutant: the unacked messages are requeued and stay unacked.
RequeueCopies ==
  /\ pending' = Reverse(unacked) \o pending
  /\ UNCHANGED <<unacked, dlq, retries, enqueued_count, acked_count,
                 nacked_count>>

\* requeue_unacked puts the messages of all consumers back, one by one at the
\* front, which leaves the last one delivered first in the queue.
RequeueUnacked ==
  /\ pending' = Reverse(unacked) \o pending
  /\ unacked' = <<>>
  /\ UNCHANGED <<dlq, retries, enqueued_count, acked_count, nacked_count>>

-----------------------------------------------------------------------------
(* RabbitMQBroker.consume *)

Leave(c) ==
  /\ at' = [at EXCEPT ![c] = "out"]
  /\ holding' = [holding EXCEPT ![c] = NoMessage]
  /\ verdict' = [verdict EXCEPT ![c] = "none"]
  /\ count' = [count EXCEPT ![c] = 0]
  /\ UNCHANGED answers

StartConsuming(c) ==
  /\ at[c] = "out"
  /\ at' = [at EXCEPT ![c] = "polling"]
  /\ UNCHANGED <<queueVars, holding, verdict, count, answers,
                 disconnects>>

Get(c) ==
  /\ at[c] = "polling"
  /\ IF pending = <<>>
     THEN Leave(c) /\ UNCHANGED queueVars
     ELSE /\ pending' = Tail(pending)
          /\ unacked' = Append(unacked, Head(pending))
          /\ at' = [at EXCEPT ![c] = "got"]
          /\ holding' = [holding EXCEPT ![c] = Head(pending)]
          /\ UNCHANGED <<dlq, retries, enqueued_count, acked_count,
                         nacked_count, verdict, count, answers>>
  /\ UNCHANGED disconnects

AtLimit(c) == NumMessages[c] > 0 /\ count[c] >= NumMessages[c]

\* The message over the limit is put back with a nack, which counts as one of
\* its retries.
PutBack(c) ==
  /\ at[c] = "got"
  /\ AtLimit(c)
  /\ Nack(holding[c], TRUE)
  /\ Leave(c)
  /\ UNCHANGED disconnects

Handle(c) ==
  LET m == holding[c] IN
  /\ at[c] = "got"
  /\ ~AtLimit(c)
  /\ \E v \in {"true", "false", "exception"} :
       /\ verdict' = [verdict EXCEPT ![c] = v]
       /\ answers' = [answers EXCEPT ![m] = @ \cup {v}]
  /\ at' = [at EXCEPT ![c] = "settling"]
  /\ UNCHANGED <<queueVars, holding, count, disconnects>>

Settle(c) ==
  LET m == holding[c] IN
  /\ at[c] = "settling"
  /\ CASE verdict[c] = "true"      -> Ack(m)
       [] verdict[c] = "false"     -> Nack(m, TRUE)
       [] verdict[c] = "exception" -> Nack(m, FALSE)
  /\ at' = [at EXCEPT ![c] = "polling"]
  /\ holding' = [holding EXCEPT ![c] = NoMessage]
  /\ verdict' = [verdict EXCEPT ![c] = "none"]
  /\ count' = [count EXCEPT ![c] = @ + 1]
  /\ UNCHANGED <<answers, disconnects>>

\* A consumer is cut off with a message in hand, and the broker requeues.
Disconnect(c) ==
  /\ at[c] \in {"got", "settling"}
  /\ disconnects < MaxDisconnects
  /\ disconnects' = disconnects + 1
  /\ RequeueUnacked
  /\ Leave(c)

Consume(c) ==
  StartConsuming(c) \/ Get(c) \/ PutBack(c) \/ Handle(c) \/ Settle(c)

RabbitNext ==
  \/ \E m \in Messages : Put(m)
  \/ \E c \in Consumers : Consume(c) \/ Disconnect(c)

RabbitSpec == RabbitInit /\ [][RabbitNext]_rabbitVars

\* A consumer calls consume over and over and its handler returns.
RabbitFairness == \A c \in Consumers : WF_rabbitVars(Consume(c))
-----------------------------------------------------------------------------
(* Properties *)

RabbitTypeOK ==
  /\ pending \in Seq(Messages)
  /\ unacked \in Seq(Messages)
  /\ dlq \in Seq(Messages)
  /\ retries \in [Messages -> 0..max_retries]
  /\ {enqueued_count, acked_count, nacked_count, disconnects} \subseteq Nat
  /\ at \in [Consumers -> {"out", "polling", "got", "settling"}]
  /\ holding \in [Consumers -> Messages \cup {NoMessage}]
  /\ verdict \in [Consumers -> {"none", "true", "false", "exception"}]
  /\ count \in [Consumers -> Nat]
  /\ answers \in [Messages -> SUBSET {"true", "false", "exception"}]

\* Every message is in one place once: waiting, out, dead-lettered or settled,
\* and stats() accounts for it, whatever stale tags consumers ack and nack.
Conserved ==
  /\ IsInjective(pending \o unacked \o dlq)
  /\ enqueued_count
       = Len(pending) + Len(unacked) + Len(dlq) + acked_count

\* A message is gone from the broker only if a handler returned True for it.
AckedWasHandled ==
  acked_count <= Cardinality({m \in Messages :
    "true" \in answers[m] /\ m \notin Range(pending \o unacked \o dlq)})

\* The retry limit holds, and the dead-letter queue only takes messages that
\* used up their retries or made a handler raise.
RetryBudget ==
  /\ \A i \in DOMAIN pending : retries[pending[i]] < max_retries
  /\ \A i \in DOMAIN dlq :
       "exception" \in answers[dlq[i]] \/ retries[dlq[i]] >= max_retries

\* What the queue owes its messages through nacks, put-backs and disconnects.
QueueKept == RabbitTypeOK /\ Conserved /\ AckedWasHandled /\ RetryBudget

\* A poison message cannot block the queue: whatever is put is acknowledged or
\* dead-lettered in the end, and nothing stays out with a consumer that left.
InQueue(m)  == m \in Range(pending) \cup Range(unacked)
QueueDrains == \A m \in Messages : InQueue(m) ~> ~InQueue(m)

\* max_retries is the number of "delivery attempts before moving to DLQ", and
\* the nack at the prefetch limit only "puts it back": no message is
\* dead-lettered that no handler has ever seen.
DeadLettersWereTried ==
  \A i \in DOMAIN dlq : answers[dlq[i]] # {}
=============================================================================
