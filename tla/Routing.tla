--------------------------------- MODULE Routing ---------------------------------
(***************************************************************************)
(* Who receives a message: PubSubBroker of message_queue/patterns.py and    *)
(* the four exchanges of RabbitMQBroker in message_queue/                   *)
(* rabbitmq_simulation.py. None of them has a lock: publish walks along the *)
(* list of bindings and puts a copy into one queue after the other, while   *)
(* other calls publish and others bind. A binding is never removed; one     *)
(* that is appended to a list in use is still reached by its iterator.      *)
(*                                                                          *)
(* A routing key, or a topic pattern, is the sequence of its words between  *)
(* the dots, none of them empty.                                            *)
(***************************************************************************)
EXTENDS Naturals, Sequences, FiniteSets

CONSTANTS
  ExchangeTypes,   \* of "direct", "fanout", "topic", "headers" and "pubsub"
  QueueNames,
  RoutingKeys,     \* sequences of words; the topics of the PubSubBroker, too
  TopicPatterns,   \* sequences of words, "*" and "#"
  HeaderSets,      \* functions from header names to values
  MaxBindings, MaxPublished   \* bounds

ASSUME RoutingAssumption ==
  /\ ExchangeTypes \subseteq {"direct", "fanout", "topic", "headers", "pubsub"}
  /\ MaxBindings \in Nat /\ MaxPublished \in Nat

VARIABLES
  exchange,     \* the type of the exchange of this behaviour
  bindings,     \* its bindings, oldest first: a queue and an argument
  sent          \* the calls of publish, each with its local variables:
                \*   next      the place its iterator has come to
                \*   live      it iterates over a list that later bindings join
                \*   given     the bindings through which a queue got its copy
                \*   delivered the variable of that name
                \*   returned  what it returned
                \* and as a history, bound and until: how many bindings there
                \* were when it was called and when it returned

routingVars == <<exchange, bindings, sent>>

RoutingInit ==
  /\ exchange \in ExchangeTypes
  /\ bindings = <<>>
  /\ sent = <<>>

\* What a queue of this exchange is bound with.
BindingArgs ==
  CASE exchange \in {"direct", "pubsub"} -> RoutingKeys
    [] exchange = "fanout"  -> {<<>>}
    [] exchange = "topic"   -> TopicPatterns
    [] exchange = "headers" -> {"all", "any"} \X HeaderSets

Bind(q, arg) ==
  /\ Len(bindings) < MaxBindings
  /\ bindings' = Append(bindings, [queue |-> q, arg |-> arg])
  /\ UNCHANGED <<exchange, sent>>

\* The regular expression of _matches: "*" is one word; "#" is any text between
\* the dots around it, and so one word or more. A cut says after how many words
\* of the key each word of the pattern ends.
Matches(pattern, key) ==
  \E cut \in [0..Len(pattern) -> 0..Len(key)] :
    /\ cut[0] = 0 /\ cut[Len(pattern)] = Len(key)
    /\ \A i \in 1..Len(pattern) :
         /\ cut[i - 1] < cut[i]
         /\ pattern[i] # "#" => cut[i] = cut[i - 1] + 1
         /\ pattern[i] \notin {"#", "*"} => pattern[i] = key[cut[i]]

HeadersMatch(arg, headers) ==
  LET agree == {h \in DOMAIN arg[2] : h \in DOMAIN headers /\ headers[h] = arg[2][h]}
  IN IF arg[1] = "all" THEN agree = DOMAIN arg[2] ELSE agree # {}

Routes(b, key, headers) ==
  CASE exchange \in {"direct", "pubsub"} -> b.arg = key
    [] exchange = "fanout"  -> TRUE
    [] exchange = "topic"   -> Matches(b.arg, key)
    [] exchange = "headers" -> HeadersMatch(b.arg, headers)

\* The list of a key, or of a topic, that nobody is bound to is not created: get
\* gives a new one, which no binding joins.
KeptPerKey == exchange \in {"direct", "pubsub"}
Matching(s, n) == {i \in 1..n : Routes(bindings[i], s.key, s.headers)}

BeginPublish(key, headers) ==
  /\ Len(sent) < MaxPublished
  /\ LET call == [key |-> key, headers |-> headers]
         live == KeptPerKey => Matching(call, Len(bindings)) # {}
     IN sent' = Append(sent, [key |-> key, headers |-> headers, live |-> live,
                              next |-> 1, given |-> {}, delivered |-> 0, phase |-> "routing",
                              returned |-> 0, bound |-> Len(bindings), until |-> 0])
  /\ UNCHANGED <<exchange, bindings>>

AtEnd(s) == s.live => s.next > Len(bindings)

\* Mutant: the topic exchange forgets which queues it has served.
ReceivesAgain(s, i) == Routes(bindings[i], s.key, s.headers)

\* The topic exchange serves a queue once (seen_queues).
Receives(s, i) ==
  /\ Routes(bindings[i], s.key, s.headers)
  /\ exchange = "topic" => \A j \in s.given : bindings[j].queue # bindings[i].queue

\* The next binding: its queue gets a copy, or it is passed over.
RouteNext(m) ==
  LET s == sent[m]
      served == Receives(s, s.next)
  IN /\ s.phase = "routing" /\ ~AtEnd(s)
     /\ sent' = [sent EXCEPT
          ![m].next = s.next + 1,
          ![m].given = IF served THEN s.given \cup {s.next} ELSE s.given,
          ![m].delivered = IF served THEN s.delivered + 1 ELSE s.delivered]
     /\ UNCHANGED <<exchange, bindings>>

EndRouting(m) ==
  /\ sent[m].phase = "routing" /\ AtEnd(sent[m])
  /\ sent' = [sent EXCEPT ![m].phase = "leaving"]
  /\ UNCHANGED <<exchange, bindings>>

\* return len(queues), or delivered. The list may have grown since it was walked.
ReturnFrom(m) ==
  LET s == sent[m] IN
  /\ s.phase = "leaving"
  /\ sent' = [sent EXCEPT
       ![m].phase = "done", ![m].until = Len(bindings),
       ![m].returned = IF exchange \in {"topic", "headers"} THEN s.delivered
                       ELSE IF s.live THEN Cardinality(Matching(s, Len(bindings))) ELSE 0]
  /\ UNCHANGED <<exchange, bindings>>

Publishing == \E m \in DOMAIN sent : RouteNext(m) \/ EndRouting(m) \/ ReturnFrom(m)

Subscribe == exchange = "pubsub" /\ \E q \in QueueNames, arg \in RoutingKeys : Bind(q, arg)
PublishEvent ==
  exchange = "pubsub" /\ \E key \in RoutingKeys : BeginPublish(key, <<>>)

\* A fanout and a headers exchange ignore the key, all but the latter the headers.
UsedKeys    == IF exchange \in {"direct", "topic"} THEN RoutingKeys ELSE {<<>>}
UsedHeaders == IF exchange = "headers" THEN HeaderSets ELSE {<<>>}

BindQueue ==
  exchange # "pubsub" /\ \E q \in QueueNames, arg \in BindingArgs : Bind(q, arg)
PublishMessage ==
  /\ exchange # "pubsub"
  /\ \E key \in UsedKeys, headers \in UsedHeaders : BeginPublish(key, headers)

PubSub    == Subscribe \/ PublishEvent
Exchanges == BindQueue \/ PublishMessage

RoutingNext == PubSub \/ Exchanges \/ Publishing

RoutingSpec == RoutingInit /\ [][RoutingNext]_routingVars
-----------------------------------------------------------------------------
\* "Delivered to ALL subscribers", "Prevent duplicate delivery to same queue", while
\* others publish and bind: a copy goes only through a binding that matches and was
\* made before publish returned; the topic exchange gives a queue no second copy. Once
\* publish has returned, no binding that was there when it was called and matches has
\* been passed over, unless the topic exchange has served its queue already; topic and
\* headers exchanges return how many copies they put; the others may return more, but
\* only when a binding that matches was made in the meantime.
RightlySent(s) ==
  LET made  == IF s.phase = "done" THEN s.until ELSE Len(bindings)
      added == Matching(s, made) \ Matching(s, s.bound)
  IN /\ s.given \subseteq Matching(s, made)
     /\ exchange = "topic" =>
          \A i, j \in s.given : bindings[i].queue = bindings[j].queue => i = j
     /\ s.phase = "done" =>
          /\ \A i \in Matching(s, s.bound) :
               \/ i \in s.given
               \/ exchange = "topic" /\ \E j \in s.given : bindings[j].queue = bindings[i].queue
          /\ Cardinality(s.given) <= s.returned
          /\ exchange \in {"topic", "headers"} \/ added = {} => s.returned = Cardinality(s.given)

RoutedToTheBound == \A m \in DOMAIN sent : RightlySent(sent[m])

\* TopicExchange: "# matches zero or more word segments". The key that is left
\* when "#" stands for no word at all has to match as well.
HashMatchesZeroWords ==
  \A m \in DOMAIN sent : \A i \in 1..sent[m].bound :
    LET b == bindings[i]
    IN (/\ exchange = "topic" /\ Len(b.arg) > 1 /\ b.arg[Len(b.arg)] = "#"
        /\ SubSeq(b.arg, 1, Len(b.arg) - 1) = sent[m].key /\ sent[m].phase = "done")
         => \E j \in sent[m].given : bindings[j].queue = b.queue

\* publish returns how many subscribers, or queues, got the message.
ReturnsWhatItPut ==
  \A m \in DOMAIN sent :
    sent[m].phase = "done" => sent[m].returned = Cardinality(sent[m].given)
=============================================================================
