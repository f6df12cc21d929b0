----------------------------- MODULE MCMessaging -----------------------------
(***************************************************************************)
(* Instances of message_queue for TLC. The two brokers and the five         *)
(* patterns share nothing, so a behaviour is one of them: `system` says     *)
(* which, and the others stay as they began.                                *)
(***************************************************************************)
EXTENDS RabbitQueue, KafkaLog, WorkQueue, Rpc, TimedQueues, Routing, TLC

CONSTANTS m1, m2, m3, c1, c2, c3, k1

VARIABLE system

patternVars == <<workVars, rpcVars, timedVars, routingVars, topicVars>>
mcVars      == <<system, rabbitVars, kafkaVars, patternVars>>

MCMessages    == {m1, m2}
MCInOrder     == <<m1, m2, m3>>
MCItems       == {m1, m2, m3}
MCConsumers   == {c1, c2}
MCClients     == {c1, c2, c3}
MCMembers     == <<c1, c2>>
MCNumMessages == (c1 :> 1) @@ (c2 :> 0)
MCKeys        == {k1}

MCTypes       == {"direct", "fanout", "topic", "headers", "pubsub"}
MCRoutingKeys == {<<"order">>, <<"order", "item", "new">>}
MCPatternSet  == {<<"order", "#">>, <<"#", "new">>, <<"order", "*">>}
MCHeaders     == {("size" :> "large"), ("size" :> "large") @@ ("type" :> "pdf")}
MCKeyHash     == ("k1" :> 7)

Init ==
  /\ system \in {"rabbit", "kafka", "work", "rpc", "timed", "routing", "topic"}
  /\ RabbitInit /\ KafkaInit
  /\ WorkInit /\ RpcInit /\ TimedInit /\ RoutingInit /\ TopicInit
  /\ system # "timed" => which = "delay"
  /\ system # "routing" => exchange = "fanout"

InRabbit(A)  == system = "rabbit" /\ A /\ UNCHANGED <<system, kafkaVars, patternVars>>
InKafka(A)   == system = "kafka" /\ A /\ UNCHANGED <<system, rabbitVars, patternVars>>
InPattern(A) == A /\ UNCHANGED <<system, rabbitVars, kafkaVars>>

InWork(A)    == system = "work" /\ InPattern(A) /\ UNCHANGED <<rpcVars, timedVars, routingVars, topicVars>>
InRpc(A)     == system = "rpc" /\ InPattern(A) /\ UNCHANGED <<workVars, timedVars, routingVars, topicVars>>
InTimed(A)   == system = "timed" /\ InPattern(A) /\ UNCHANGED <<workVars, rpcVars, routingVars, topicVars>>
InRouting(A) == system = "routing" /\ InPattern(A) /\ UNCHANGED <<workVars, rpcVars, timedVars, topicVars>>
InTopic(A)   == system = "topic" /\ InPattern(A) /\ UNCHANGED <<workVars, rpcVars, timedVars, routingVars>>

Next == \/ InRabbit(RabbitNext) \/ InKafka(KafkaNext)
        \/ InWork(WorkNext) \/ InRpc(RpcNext) \/ InTimed(TimedNext)
        \/ InRouting(RoutingNext) \/ InTopic(TopicNext)

Spec == Init /\ [][Next]_mcVars

\* RabbitFairness, KafkaFairness and the same for the competing workers: c is a
\* consumer, a poller or a worker of the one system that runs.
FairSpec ==
  /\ Spec
  /\ \A c \in MCConsumers :
       WF_mcVars(InRabbit(Consume(c)) \/ InKafka(Poll(c)) \/ InWork(WorkerLoop(c)))

\* The work of a message is done once, by one worker or one server, and the
\* answer goes to the caller: OneWorkerEach and AnsweredOnceToItsCaller.
WorkSharedOnce == OneWorkerEach /\ AnsweredOnceToItsCaller

\* A message goes where its bindings or its key send it, whatever is published, bound
\* and assigned in the meantime: RoutedToTheBound of the exchanges, OrderPerKey of the
\* Kafka topic.
GoWhereBound == RoutedToTheBound /\ OrderPerKey

\* Whatever a broker or a queue takes in is dealt with in the end: QueueDrains,
\* EveryMessageSeen and EveryItemWorked, for the i-th message of whichever runs.
Owed(i) ==
  \/ system = "rabbit" /\ InQueue(MCInOrder[i])
  \/ system = "kafka" /\ Unseen(i - 1)
  \/ system = "work" /\ Unworked(MCInOrder[i])
DeliveriesFinish == \A i \in DOMAIN MCInOrder : Owed(i) ~> ~Owed(i)
=============================================================================
