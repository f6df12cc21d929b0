----------------------------- MODULE MessagingProof -----------------------------
(***************************************************************************)
(* Proofs about message_queue, for any number of messages, consumers,       *)
(* workers, callers, servers, queues, keys and partitions: the two brokers  *)
(* and the five patterns.                                                   *)
(***************************************************************************)
EXTENDS MCMessaging, FiniteSetTheorems, SequenceTheorems, NaturalsInduction,
        WellFoundedInduction, TLAPS

\* A step of the whole is one of one system, and none of the others.
LEMMA OneSystemSteps ==
  ASSUME [Next]_mcVars
  PROVE  /\ [RabbitNext]_rabbitVars /\ [KafkaNext]_kafkaVars /\ [WorkNext]_workVars
         /\ [RpcNext]_rpcVars /\ [TimedNext]_timedVars
         /\ [RoutingNext]_routingVars /\ [TopicNext]_topicVars
BY DEF Next, mcVars, patternVars, InRabbit, InKafka, InPattern, InWork, InRpc, InTimed,
       InRouting, InTopic

\* The members of a sequence.
LEMMA InSequence ==
  ASSUME NEW l, NEW S, l \in Seq(S)
  PROVE  \A x : x \in ToSet(l) <=> \E i \in 1..Len(l) : l[i] = x
BY DEF ToSet

\* No member of a sequence is there twice.
Once(l) == \A i, j \in 1..Len(l) : l[i] = l[j] => i = j

-----------------------------------------------------------------------------
(* The competing workers *)

WorkTypeOK ==
  /\ wq \in Seq(WorkItems) /\ entered \in Seq(WorkItems) /\ begun \in Seq(WorkItems)
  /\ worker_at \in [PoolWorkers -> {"loop", "waiting", "handling", "counting", "adding",
                                    "exited"}]
  /\ in_hand \in [PoolWorkers -> WorkItems \cup {NoItem}]
  /\ worked \subseteq WorkItems /\ IsFiniteSet(worked)
  /\ errors \subseteq WorkItems /\ IsFiniteSet(errors)
  /\ total_processed \in Nat /\ read_total \in [PoolWorkers -> Nat]

EnteredOnce == Once(entered)

\* What a handler has, or has ended with, was taken from the queue, and no
\* handler has what one has ended with.
TakenFirst ==
  /\ worked \cup errors \subseteq ToSet(begun)
  /\ \A w \in Handling : in_hand[w] \in ToSet(begun) \ (worked \cup errors)

\* The workers whose handler returned and who have not raised the total yet.
Uncounted == {w \in PoolWorkers : worker_at[w] \in {"counting", "adding"}}

\* Neither the total nor what a worker is about to make of it is ever more than
\* the messages worked, less those that are still to be counted.
TotalBehind ==
  /\ total_processed + Cardinality(Uncounted) <= Cardinality(worked)
  /\ \A w \in PoolWorkers : worker_at[w] = "adding" =>
       read_total[w] + Cardinality(Uncounted) <= Cardinality(worked)

WorkInv == WorkTypeOK /\ EnteredOnce /\ TakenFirst /\ TotalBehind /\ OneWorkerEach

LEMMA WorkInitInv == ASSUME WorkInit PROVE WorkInv
<1> USE DEF WorkInit
<1>1. WorkTypeOK
  BY FS_EmptySet DEF WorkTypeOK
<1>2. Uncounted = {} /\ Handling = {}
  BY DEF Uncounted, Handling
<1>3. Cardinality({}) = 0
  BY FS_EmptySet
<1>4. EnteredOnce /\ TakenFirst
  BY <1>2 DEF EnteredOnce, TakenFirst, Once
<1>5. TotalBehind
  BY <1>2, <1>3 DEF TotalBehind
<1>6. OneWorkerEach
  BY <1>2, <1>3 DEF OneWorkerEach
<1> QED BY <1>1, <1>4, <1>5, <1>6 DEF WorkInv

\* The workers are finitely many.
LEMMA WorkersFinite ==
  ASSUME NEW S, S \subseteq PoolWorkers
  PROVE  IsFiniteSet(S) /\ Cardinality(S) \in Nat
BY FS_Subset, FS_CardinalityType, WorkAssumption

\* The message in front of the queue has not been taken before.
LEMMA FrontIsFresh ==
  ASSUME NEW S, NEW b, NEW q, b \in Seq(S), q \in Seq(S), q # <<>>, Once(b \o q)
  PROVE  /\ Head(q) \in S /\ Tail(q) \in Seq(S)
         /\ \A i \in 1..Len(b) : b[i] # Head(q)
         /\ Append(b, Head(q)) \o Tail(q) = b \o q
<1> DEFINE e == b \o q
<1>0. e \in Seq(S)
  BY ConcatProperties
<1>1. Head(q) = q[1] /\ Len(q) > 0 /\ Head(q) \in S
  OBVIOUS
<1>2. e[Len(b) + 1] = q[1] /\ Len(e) = Len(b) + Len(q)
  BY <1>1
<1>3. ASSUME NEW i \in 1..Len(b) PROVE b[i] # Head(q)
  <2>1. e[i] = b[i] /\ i \in 1..Len(e) /\ Len(b) + 1 \in 1..Len(e)
    BY <1>1, <1>2
  <2>2. i # Len(b) + 1
    OBVIOUS
  <2>3. Once(e)
    OBVIOUS
  <2> HIDE DEF e
  <2>4. e[i] # e[Len(b) + 1]
    BY <2>1, <2>2, <2>3 DEF Once
  <2> QED BY <2>1, <2>4, <1>1, <1>2
<1>4. Append(b, Head(q)) \o Tail(q) = e
  <2> DEFINE l == Append(b, Head(q)) \o Tail(q)
  <2>1. Tail(q) \in Seq(S) /\ Len(Tail(q)) = Len(q) - 1
    BY <1>1
  <2>2. l \in Seq(S) /\ Len(l) = Len(e)
    BY <1>1, <1>2, <2>1
  <2>3. ASSUME NEW i \in 1..Len(e) PROVE l[i] = e[i]
    <3>1. CASE i <= Len(b)
      BY <3>1, <1>1, <1>2, <2>1
    <3>2. CASE i = Len(b) + 1
      BY <3>2, <1>1, <1>2, <2>1
    <3>3. CASE i > Len(b) + 1
      BY <3>3, <1>1, <1>2, <2>1
    <3> QED BY <3>1, <3>2, <3>3
  <2> HIDE DEF l, e
  <2>4. l = e
    BY <2>2, <2>3, <1>0, SeqEqual
  <2> QED BY <2>4 DEF l
<1> QED BY <1>1, <1>3, <1>4

\* A message from the front of the queue is in no other worker's hands and no
\* handler has ended with it.
LEMMA TakesStep ==
  ASSUME WorkInv, NEW w \in PoolWorkers, WorkerTakes(w)
  PROVE  WorkInv'
<1> DEFINE m == Head(wq)
<1> USE DEF WorkInv
<1>1. /\ wq # <<>> /\ worker_at[w] = "waiting"
      /\ in_hand' = [in_hand EXCEPT ![w] = m]
      /\ begun' = Append(begun, m) /\ wq' = Tail(wq)
      /\ worker_at' = [worker_at EXCEPT ![w] = "handling"]
      /\ UNCHANGED <<entered, wq_running, worked, errors, total_processed, read_total>>
  BY DEF WorkerTakes, WorkerAt
<1>2. /\ wq \in Seq(WorkItems) /\ begun \in Seq(WorkItems) /\ entered \in Seq(WorkItems)
      /\ begun \o wq = entered
  BY DEF WorkTypeOK, OneWorkerEach
<1>3. /\ m \in WorkItems /\ Tail(wq) \in Seq(WorkItems)
      /\ \A i \in 1..Len(begun) : begun[i] # m
      /\ Append(begun, m) \o Tail(wq) = entered
  <2>2. /\ Head(wq) \in WorkItems /\ Tail(wq) \in Seq(WorkItems)
        /\ \A i \in 1..Len(begun) : begun[i] # Head(wq)
        /\ Append(begun, Head(wq)) \o Tail(wq) = entered
    <3>1. wq # <<>> /\ Once(begun \o wq)
      BY <1>1, <1>2 DEF EnteredOnce
    <3> QED BY <3>1, <1>2, FrontIsFresh
  <2> QED BY <2>2
<1>4. m \notin ToSet(begun)
  BY <1>2, <1>3, InSequence
<1>5. ToSet(begun') = ToSet(begun) \cup {m}
  <2>1. /\ begun' \in Seq(WorkItems) /\ Len(begun') = Len(begun) + 1
        /\ begun'[Len(begun) + 1] = m
        /\ \A i \in 1..Len(begun) : begun'[i] = begun[i]
    BY <1>1, <1>2, <1>3
  <2>2. \A x : x \in ToSet(begun') <=> \E i \in 1..Len(begun') : begun'[i] = x
    BY <2>1, InSequence
  <2>3. \A x : x \in ToSet(begun) <=> \E i \in 1..Len(begun) : begun[i] = x
    BY <1>2, InSequence
  <2> HIDE DEF m
  <2>4. Len(begun) \in Nat
    BY <1>2
  <2>5. \A i \in 1..(Len(begun) + 1) : i \in 1..Len(begun) \/ i = Len(begun) + 1
    BY <2>4
  <2>6. 1..Len(begun) \subseteq 1..(Len(begun) + 1) /\ Len(begun) + 1 \in 1..(Len(begun) + 1)
    BY <2>4
  <2> QED BY <2>1, <2>2, <2>3, <2>5, <2>6
<1> HIDE DEF m
<1>6. WorkTypeOK'
  BY <1>1, <1>2, <1>3 DEF WorkTypeOK
<1>7. EnteredOnce'
  BY <1>1 DEF EnteredOnce
<1>8. Handling' = Handling \cup {w} /\ w \notin Handling /\ Uncounted' = Uncounted
  BY <1>1 DEF Handling, Uncounted, WorkTypeOK
<1>9. in_hand'[w] = m /\ \A v \in PoolWorkers : v # w => in_hand'[v] = in_hand[v]
  BY <1>1 DEF WorkTypeOK
<1>10. TakenFirst'
  BY <1>1, <1>4, <1>5, <1>8, <1>9 DEF TakenFirst, Handling
<1>11. TotalBehind'
  BY <1>1, <1>8 DEF TotalBehind, WorkTypeOK
<1>12. Cardinality(Handling') = Cardinality(Handling) + 1 /\ Cardinality(Handling) \in Nat
  <2>1. IsFiniteSet(Handling) /\ Cardinality(Handling) \in Nat
    BY WorkersFinite DEF Handling
  <2> QED BY <2>1, <1>8, FS_AddElement
<1>13. Len(begun') = Len(begun) + 1
  BY <1>1, <1>2, <1>3
<1>14. Cardinality(worked) \in Nat /\ Cardinality(errors) \in Nat /\ Len(begun) \in Nat
  BY <1>2, FS_CardinalityType DEF WorkTypeOK
<1>15. \A u, v \in Handling' : in_hand'[u] = in_hand'[v] => u = v
  BY <1>4, <1>8, <1>9 DEF TakenFirst, OneWorkerEach, Handling
<1>16. OneWorkerEach'
  <2>1. begun' \o wq' = entered'
    BY <1>1, <1>3
  <2>2. Len(begun') = Cardinality(worked') + Cardinality(errors') + Cardinality(Handling')
    BY <1>1, <1>12, <1>13, <1>14 DEF OneWorkerEach
  <2> QED BY <1>1, <1>15, <2>1, <2>2 DEF OneWorkerEach
<1> QED BY <1>6, <1>7, <1>10, <1>11, <1>16

\* A handler that ends leaves its message worked, or in error.
LEMMA HandlerStep ==
  ASSUME WorkInv, NEW w \in PoolWorkers, HandlerReturns(w) \/ HandlerRaises(w)
  PROVE  WorkInv'
<1> USE DEF WorkInv
<1> DEFINE m == in_hand[w]
<1>1. /\ worker_at[w] = "handling" /\ w \in Handling /\ w \in PoolWorkers
      /\ UNCHANGED <<wq, entered, begun, total_processed, read_total>>
  BY DEF HandlerReturns, HandlerRaises, Handling
<1>2. m \in ToSet(begun) /\ m \notin worked /\ m \notin errors /\ m \in WorkItems
  <2>1. begun \in Seq(WorkItems)
    BY DEF WorkTypeOK
  <2>2. m \in ToSet(begun) /\ m \notin worked /\ m \notin errors
    BY <1>1 DEF TakenFirst
  <2>3. \A i \in 1..Len(begun) : begun[i] \in WorkItems
    BY <2>1
  <2> QED BY <2>1, <2>2, <2>3, InSequence
<1>3. /\ worker_at' = [worker_at EXCEPT ![w] = IF HandlerReturns(w) THEN "counting" ELSE "loop"]
      /\ \A v \in Handling : v # w => in_hand'[v] = in_hand[v]
  BY <1>1 DEF HandlerReturns, HandlerRaises, WorkerAt, WorkTypeOK, Handling
<1>4. /\ IF HandlerReturns(w) THEN worked' = worked \cup {m} /\ errors' = errors
                              ELSE worked' = worked /\ errors' = errors \cup {m}
      /\ IF HandlerReturns(w) THEN in_hand' = in_hand
                              ELSE in_hand' = [in_hand EXCEPT ![w] = NoItem]
  <2>1. CASE HandlerReturns(w)
    BY <2>1 DEF HandlerReturns
  <2>2. CASE ~HandlerReturns(w)
    BY <2>2 DEF HandlerRaises
  <2> QED BY <2>1, <2>2
<1> HIDE DEF m
<1>5. /\ IsFiniteSet(worked) /\ IsFiniteSet(errors)
      /\ Cardinality(worked \cup {m}) = Cardinality(worked) + 1
      /\ Cardinality(errors \cup {m}) = Cardinality(errors) + 1
      /\ IsFiniteSet(worked \cup {m}) /\ IsFiniteSet(errors \cup {m})
      /\ Cardinality(worked) \in Nat /\ Cardinality(errors) \in Nat
  BY <1>2, FS_AddElement, FS_CardinalityType DEF WorkTypeOK
<1>6. WorkTypeOK'
  BY <1>1, <1>2, <1>3, <1>4, <1>5 DEF WorkTypeOK
<1>7. EnteredOnce'
  BY <1>1 DEF EnteredOnce
<1>8. /\ Handling' = Handling \ {w}
      /\ Uncounted' = IF HandlerReturns(w) THEN Uncounted \cup {w} ELSE Uncounted
      /\ w \notin Uncounted
  BY <1>1, <1>3 DEF Handling, Uncounted, WorkTypeOK
<1>9. \A v \in Handling' : in_hand'[v] = in_hand[v] /\ in_hand[v] # m /\ v \in Handling
  BY <1>1, <1>3, <1>8 DEF OneWorkerEach, m
<1>10. worked' \cup errors' = worked \cup errors \cup {m}
  BY <1>4
<1>11. TakenFirst'
  BY <1>1, <1>2, <1>9, <1>10 DEF TakenFirst
<1>12. /\ IsFiniteSet(Handling) /\ Cardinality(Handling) \in Nat
       /\ IsFiniteSet(Uncounted) /\ Cardinality(Uncounted) \in Nat
  BY WorkersFinite DEF Handling, Uncounted
<1>13. /\ Cardinality(Handling') = Cardinality(Handling) - 1
       /\ Cardinality(Uncounted \cup {w}) = Cardinality(Uncounted) + 1
  BY <1>1, <1>8, <1>12, FS_RemoveElement, FS_AddElement
<1>14. total_processed \in Nat /\ read_total \in [PoolWorkers -> Nat]
  BY DEF WorkTypeOK
<1>15. \A v \in PoolWorkers : worker_at'[v] = "adding" => worker_at[v] = "adding"
  BY <1>3 DEF WorkTypeOK
<1>16. HandlerReturns(w) =>
         /\ Cardinality(worked') = Cardinality(worked) + 1
         /\ Cardinality(errors') = Cardinality(errors)
         /\ Cardinality(Uncounted') = Cardinality(Uncounted) + 1
  BY <1>4, <1>5, <1>8, <1>13
<1>17. ~HandlerReturns(w) =>
         /\ Cardinality(worked') = Cardinality(worked)
         /\ Cardinality(errors') = Cardinality(errors) + 1
         /\ Cardinality(Uncounted') = Cardinality(Uncounted)
  BY <1>4, <1>5, <1>8
<1>18. TotalBehind'
  <2>1. CASE HandlerReturns(w)
    <3>1. total_processed + Cardinality(Uncounted) <= Cardinality(worked)
      BY DEF TotalBehind
    <3>2. total_processed' + Cardinality(Uncounted') <= Cardinality(worked')
      BY <2>1, <3>1, <1>1, <1>5, <1>12, <1>14, <1>16
    <3>3. ASSUME NEW v \in PoolWorkers, worker_at'[v] = "adding"
          PROVE  read_total'[v] + Cardinality(Uncounted') <= Cardinality(worked')
      <4>1. read_total[v] + Cardinality(Uncounted) <= Cardinality(worked) /\ read_total[v] \in Nat
        BY <3>3, <1>14, <1>15 DEF TotalBehind
      <4>2. read_total'[v] = read_total[v]
        BY <1>1
      <4> QED BY <2>1, <4>1, <4>2, <1>5, <1>12, <1>16
    <3> QED BY <3>2, <3>3 DEF TotalBehind
  <2>2. CASE ~HandlerReturns(w)
    BY <2>2, <1>1, <1>15, <1>17 DEF TotalBehind
  <2> QED BY <2>1, <2>2
<1>19. OneWorkerEach'
  <2>1. begun' \o wq' = entered' /\ Len(begun') = Len(begun)
    BY <1>1 DEF OneWorkerEach
  <2>2. worked' \cap errors' = {}
    BY <1>2, <1>4 DEF OneWorkerEach
  <2>3. Len(begun') = Cardinality(worked') + Cardinality(errors') + Cardinality(Handling')
    <3>1. Len(begun) = Cardinality(worked) + Cardinality(errors) + Cardinality(Handling)
      BY DEF OneWorkerEach
    <3> QED BY <3>1, <1>5, <1>12, <1>13, <1>16, <1>17, <2>1
  <2>4. \A u, v \in Handling' : in_hand'[u] = in_hand'[v] => u = v
    BY <1>9 DEF OneWorkerEach
  <2>5. total_processed' <= Cardinality(worked')
    <3>1. total_processed <= Cardinality(worked)
      BY DEF OneWorkerEach
    <3> QED BY <3>1, <1>1, <1>5, <1>14, <1>16, <1>17
  <2> QED BY <2>1, <2>2, <2>3, <2>4, <2>5 DEF OneWorkerEach
<1> QED BY <1>6, <1>7, <1>11, <1>18, <1>19

\* The two steps of the unlocked total.
LEMMA TotalStep ==
  ASSUME WorkInv, NEW w \in PoolWorkers, ReadStats(w) \/ WriteStats(w)
  PROVE  WorkInv'
<1> USE DEF WorkInv
<1>1. UNCHANGED <<wq, entered, begun, worked, errors>>
  BY DEF ReadStats, WriteStats
<1>2. WorkTypeOK'
  <2>1. CASE ReadStats(w)
    BY <2>1 DEF WorkTypeOK, ReadStats, WorkerAt
  <2>2. CASE WriteStats(w)
    <3>1. read_total[w] + 1 \in Nat
      BY DEF WorkTypeOK
    <3> QED BY <2>2, <3>1 DEF WorkTypeOK, WriteStats, WorkerAt
  <2> QED BY <2>1, <2>2
<1>3. EnteredOnce'
  BY <1>1 DEF EnteredOnce
<1>4. Handling' = Handling /\ \A v \in Handling : in_hand'[v] = in_hand[v]
  BY DEF Handling, WorkTypeOK, ReadStats, WriteStats, WorkerAt
<1>5. TakenFirst'
  BY <1>1, <1>4 DEF TakenFirst
<1>6. /\ IsFiniteSet(Uncounted) /\ Cardinality(Uncounted) \in Nat
      /\ Cardinality(worked) \in Nat
      /\ total_processed \in Nat /\ read_total \in [PoolWorkers -> Nat]
  BY WorkersFinite, FS_CardinalityType DEF Uncounted, WorkTypeOK
<1>7. TotalBehind' /\ total_processed' <= Cardinality(worked')
  <2>1. CASE ReadStats(w)
    <3>1. /\ worker_at[w] = "counting" /\ worker_at' = [worker_at EXCEPT ![w] = "adding"]
          /\ read_total' = [read_total EXCEPT ![w] = total_processed]
          /\ total_processed' = total_processed
      BY <2>1 DEF ReadStats, WorkerAt
    <3>2. Uncounted' = Uncounted
      BY <3>1 DEF Uncounted, WorkTypeOK
    <3>3. \A v \in PoolWorkers : worker_at'[v] = "adding" =>
            \/ read_total'[v] = total_processed
            \/ read_total'[v] = read_total[v] /\ worker_at[v] = "adding"
      BY <3>1, <1>6 DEF WorkTypeOK
    <3>4. total_processed + Cardinality(Uncounted) <= Cardinality(worked)
      BY DEF TotalBehind
    <3> QED BY <3>1, <3>2, <3>3, <3>4, <1>1, <1>6 DEF TotalBehind
  <2>2. CASE WriteStats(w)
    <3>1. /\ worker_at[w] = "adding" /\ worker_at' = [worker_at EXCEPT ![w] = "loop"]
          /\ read_total' = read_total /\ total_processed' = read_total[w] + 1
      BY <2>2 DEF WriteStats, WorkerAt
    <3>2. Uncounted' = Uncounted \ {w} /\ w \in Uncounted
      BY <3>1 DEF Uncounted, WorkTypeOK
    <3>3. Cardinality(Uncounted') = Cardinality(Uncounted) - 1
      BY <3>2, <1>6, FS_RemoveElement
    <3>4. \A v \in PoolWorkers : worker_at'[v] = "adding" => worker_at[v] = "adding"
      BY <3>1 DEF WorkTypeOK
    <3>5. read_total[w] + Cardinality(Uncounted) <= Cardinality(worked) /\ read_total[w] \in Nat
      BY <3>1, <1>6 DEF TotalBehind
    <3>6. Cardinality(Uncounted) > 0
      BY <3>2, <1>6, FS_EmptySet, <3>3, FS_CardinalityType, FS_Subset
    <3>7. \A v \in PoolWorkers : worker_at'[v] = "adding" =>
            read_total'[v] + Cardinality(Uncounted') <= Cardinality(worked')
      BY <3>1, <3>3, <3>4, <1>1, <1>6 DEF TotalBehind
    <3> QED BY <3>1, <3>3, <3>5, <3>6, <3>7, <1>1, <1>6 DEF TotalBehind
  <2> QED BY <2>1, <2>2
<1>8. OneWorkerEach'
  <2>1. \A u, v \in Handling' : in_hand'[u] = in_hand'[v] => u = v
    BY <1>4 DEF OneWorkerEach
  <2> QED BY <1>1, <1>4, <1>7, <2>1 DEF OneWorkerEach
<1> QED BY <1>2, <1>3, <1>5, <1>7, <1>8

\* A worker that only looks, and the caller that stops them, move no message.
LEMMA LooksStep ==
  ASSUME WorkInv,
         StopWorkers \/ \E w \in PoolWorkers : WorkerTests(w) \/ WorkerGivesUp(w)
  PROVE  WorkInv'
<1> USE DEF WorkInv
<1>1. UNCHANGED <<wq, entered, begun, in_hand, worked, errors, total_processed, read_total>>
  BY DEF StopWorkers, WorkerTests, WorkerGivesUp
<1>2. WorkTypeOK' /\ Handling' = Handling /\ Uncounted' = Uncounted
      /\ \A v \in PoolWorkers : worker_at'[v] = "adding" => worker_at[v] = "adding"
  <2>1. CASE StopWorkers
    BY <2>1, <1>1 DEF StopWorkers, WorkTypeOK, Handling, Uncounted
  <2>2. ASSUME NEW w \in PoolWorkers, WorkerTests(w) \/ WorkerGivesUp(w)
        PROVE  /\ worker_at[w] \in {"loop", "waiting"}
               /\ \E l \in {"loop", "waiting", "exited"} : worker_at' = [worker_at EXCEPT ![w] = l]
    BY <2>2 DEF WorkerTests, WorkerGivesUp, WorkerAt
  <2>3. CASE \E w \in PoolWorkers : WorkerTests(w) \/ WorkerGivesUp(w)
    BY <2>2, <2>3, <1>1 DEF WorkTypeOK, Handling, Uncounted
  <2> QED BY <2>1, <2>3
<1>3. EnteredOnce' /\ TakenFirst' /\ TotalBehind' /\ OneWorkerEach'
  BY <1>1, <1>2 DEF EnteredOnce, TakenFirst, TotalBehind, OneWorkerEach
<1> QED BY <1>2, <1>3

\* A message that is new goes to the end.
LEMMA EnqueueWorkStep ==
  ASSUME WorkInv, NEW m \in WorkItems, EnqueueWork(m)
  PROVE  WorkInv'
<1> USE DEF WorkInv
<1>1. /\ m \notin ToSet(entered)
      /\ wq' = Append(wq, m) /\ entered' = Append(entered, m)
      /\ UNCHANGED <<begun, worker_at, in_hand, worked, errors, total_processed, read_total>>
  BY DEF EnqueueWork
<1>2. /\ wq \in Seq(WorkItems) /\ begun \in Seq(WorkItems) /\ entered \in Seq(WorkItems)
      /\ begun \o wq = entered
  BY DEF WorkTypeOK, OneWorkerEach
<1>3. WorkTypeOK' /\ Handling' = Handling /\ Uncounted' = Uncounted
  BY <1>1 DEF WorkTypeOK, Handling, Uncounted
<1>4. EnteredOnce'
  <2>1. \A i \in 1..Len(entered) : entered[i] # m
    BY <1>1, <1>2, InSequence
  <2>2. /\ Len(entered') = Len(entered) + 1
        /\ \A i \in 1..Len(entered) : entered'[i] = entered[i]
        /\ entered'[Len(entered) + 1] = m
    BY <1>1, <1>2
  <2>3. Len(entered) \in Nat
    BY <1>2
  <2>4. ASSUME NEW i \in 1..Len(entered'), NEW j \in 1..Len(entered'), entered'[i] = entered'[j]
        PROVE  i = j
    BY <2>1, <2>2, <2>3, <2>4 DEF EnteredOnce, Once
  <2> QED BY <2>4 DEF EnteredOnce, Once
<1>5. begun' \o wq' = entered'
  BY <1>1, <1>2, AppendProperties, ConcatAssociative
<1>6. TakenFirst' /\ TotalBehind'
  BY <1>1, <1>3 DEF TakenFirst, TotalBehind
<1>7. OneWorkerEach'
  BY <1>1, <1>3, <1>5 DEF OneWorkerEach
<1> QED BY <1>3, <1>4, <1>6, <1>7

LEMMA WorkStep == ASSUME WorkInv, [WorkNext]_workVars PROVE WorkInv'
<1>1. CASE UNCHANGED workVars
  BY <1>1 DEF workVars, WorkInv, WorkTypeOK, EnteredOnce, TakenFirst, TotalBehind, OneWorkerEach,
              Handling, Uncounted
<1>2. CASE WorkNext
  BY <1>2, TakesStep, HandlerStep, TotalStep, LooksStep, EnqueueWorkStep
     DEF WorkNext, WorkerLoop
<1> QED BY <1>1, <1>2

-----------------------------------------------------------------------------
(* Request and reply *)

RpcTypeOK ==
  /\ requests \in Seq(RpcClients)
  /\ reply_queue \in [RpcClients -> Seq(RpcClients)]
  /\ call_at \in [RpcClients -> {"new", "polling", "returned", "timed_out"}]
  /\ got \in [RpcClients -> RpcClients \cup {Nobody}]
  /\ serving \in [RpcServers -> Seq(RpcClients)]
  /\ result \in [RpcServers -> RpcClients \cup {Nobody}]
  /\ lost \subseteq RpcClients

\* A reply queue only holds its caller's reply, and a call that returned has it.
OwnReplies ==
  \A c \in RpcClients :
    /\ \A i \in 1..Len(reply_queue[c]) : reply_queue[c][i] = c
    /\ call_at[c] = "returned" <=> got[c] = c

\* A request that was sent is in one place, or lost, or answered.
Standing(c) ==
  /\ call_at[c] = "new" => Places(c) = {} /\ c \notin lost
  /\ call_at[c] # "new" =>
       \/ (\E p : Places(c) = {p}) /\ c \notin lost /\ got[c] # c
       \/ Places(c) = {} /\ c \in lost /\ got[c] # c
       \/ Places(c) = {} /\ c \notin lost /\ got[c] = c

RpcInv == RpcTypeOK /\ OwnReplies /\ \A c \in RpcClients : Standing(c)

\* The places, from the variables they depend on.
PlacesIn(c, req, res, rep, srv) ==
  {<<"requests", i>> : i \in {k \in DOMAIN req : req[k] = c}}
  \cup {<<"result", s>> : s \in {r \in RpcServers : res[r] = c}}
  \cup (UNION {{<<"reply", d, i>> : i \in {k \in DOMAIN rep[d] : rep[d][k] = c}} : d \in RpcClients})
  \cup (UNION {{<<"serving", s, i>> : i \in {k \in DOMAIN srv[s] : srv[s][k] = c}} : s \in RpcServers})

\* p is a place of c's request.
IsPlace(p, c, req, res, rep, srv) ==
  \/ \E i \in 1..Len(req) : req[i] = c /\ p = <<"requests", i>>
  \/ \E s \in RpcServers : res[s] = c /\ p = <<"result", s>>
  \/ \E d \in RpcClients : \E i \in 1..Len(rep[d]) : rep[d][i] = c /\ p = <<"reply", d, i>>
  \/ \E s \in RpcServers : \E i \in 1..Len(srv[s]) : srv[s][i] = c /\ p = <<"serving", s, i>>

LEMMA InPlaces ==
  ASSUME NEW c, NEW req, NEW res, NEW rep, NEW srv,
         req \in Seq(RpcClients), rep \in [RpcClients -> Seq(RpcClients)],
         srv \in [RpcServers -> Seq(RpcClients)]
  PROVE  \A p : p \in PlacesIn(c, req, res, rep, srv) <=> IsPlace(p, c, req, res, rep, srv)
<1>1. DOMAIN req = 1..Len(req)
  OBVIOUS
<1>2. \A d \in RpcClients : DOMAIN rep[d] = 1..Len(rep[d])
  OBVIOUS
<1>3. \A s \in RpcServers : DOMAIN srv[s] = 1..Len(srv[s])
  OBVIOUS
<1> DEFINE
     A == {<<"requests", i>> : i \in {k \in DOMAIN req : req[k] = c}}
     B == {<<"result", s>> : s \in {r \in RpcServers : res[r] = c}}
     C == UNION {{<<"reply", d, i>> : i \in {k \in DOMAIN rep[d] : rep[d][k] = c}} : d \in RpcClients}
     D == UNION {{<<"serving", s, i>> : i \in {k \in DOMAIN srv[s] : srv[s][k] = c}} : s \in RpcServers}
<1>4. ASSUME NEW p
      PROVE  /\ p \in A <=> \E i \in DOMAIN req : req[i] = c /\ p = <<"requests", i>>
             /\ p \in B <=> \E s \in RpcServers : res[s] = c /\ p = <<"result", s>>
             /\ p \in C <=> \E d \in RpcClients : \E i \in DOMAIN rep[d] :
                              rep[d][i] = c /\ p = <<"reply", d, i>>
             /\ p \in D <=> \E s \in RpcServers : \E i \in DOMAIN srv[s] :
                              srv[s][i] = c /\ p = <<"serving", s, i>>
  OBVIOUS
<1>5. PlacesIn(c, req, res, rep, srv) = A \cup B \cup C \cup D
  BY DEF PlacesIn
<1>6. ASSUME NEW p
      PROVE  /\ p \in A <=> \E i \in 1..Len(req) : req[i] = c /\ p = <<"requests", i>>
             /\ p \in B <=> \E s \in RpcServers : res[s] = c /\ p = <<"result", s>>
             /\ p \in C <=> \E d \in RpcClients : \E i \in 1..Len(rep[d]) :
                              rep[d][i] = c /\ p = <<"reply", d, i>>
             /\ p \in D <=> \E s \in RpcServers : \E i \in 1..Len(srv[s]) :
                              srv[s][i] = c /\ p = <<"serving", s, i>>
  <2> HIDE DEF A, B, C, D
  <2>1. /\ p \in A <=> \E i \in 1..Len(req) : req[i] = c /\ p = <<"requests", i>>
        /\ p \in B <=> \E s \in RpcServers : res[s] = c /\ p = <<"result", s>>
    BY <1>1, <1>4
  <2>2. /\ p \in C => \E d \in RpcClients : \E i \in DOMAIN rep[d] :
                              rep[d][i] = c /\ p = <<"reply", d, i>>
        /\ \A d \in RpcClients : \A i \in DOMAIN rep[d] :
              rep[d][i] = c /\ p = <<"reply", d, i>> => p \in C
    BY <1>4
  <2>3. p \in C <=> \E d \in RpcClients : \E i \in 1..Len(rep[d]) :
                              rep[d][i] = c /\ p = <<"reply", d, i>>
    BY <2>2, <1>2
  <2>4. /\ p \in D => \E s \in RpcServers : \E i \in DOMAIN srv[s] :
                              srv[s][i] = c /\ p = <<"serving", s, i>>
        /\ \A s \in RpcServers : \A i \in DOMAIN srv[s] :
              srv[s][i] = c /\ p = <<"serving", s, i>> => p \in D
    BY <1>4
  <2>5. p \in D <=> \E s \in RpcServers : \E i \in 1..Len(srv[s]) :
                              srv[s][i] = c /\ p = <<"serving", s, i>>
    BY <2>4, <1>3
  <2> QED BY <2>1, <2>3, <2>5, Zenon
<1> HIDE DEF A, B, C, D
<1> QED BY <1>5, <1>6 DEF IsPlace

LEMMA PlacesDiffer ==
  ASSUME NEW a, NEW b, NEW i, NEW j, NEW k
  PROVE  /\ <<"requests", i>> # <<"result", a>>
         /\ <<"requests", i>> # <<"reply", a, j>>
         /\ <<"requests", i>> # <<"serving", a, j>>
         /\ <<"result", a>> # <<"reply", b, j>>
         /\ <<"result", a>> # <<"serving", b, j>>
         /\ <<"reply", a, i>> # <<"serving", b, j>>
         /\ <<"requests", i>> = <<"requests", j>> => i = j
         /\ <<"result", a>> = <<"result", b>> => a = b
         /\ <<"reply", a, i>> = <<"reply", b, j>> => a = b /\ i = j
         /\ <<"serving", a, i>> = <<"serving", b, j>> => a = b /\ i = j
OBVIOUS

\* The places of c's request before a step and after it.
LEMMA PlacesBoth ==
  ASSUME RpcTypeOK, RpcTypeOK', NEW c
  PROVE  /\ \A p : p \in Places(c) <=>
           \/ \E i \in 1..Len(requests) : requests[i] = c /\ p = <<"requests", i>>
           \/ \E s \in RpcServers : result[s] = c /\ p = <<"result", s>>
           \/ \E d \in RpcClients : \E i \in 1..Len(reply_queue[d]) :
                reply_queue[d][i] = c /\ p = <<"reply", d, i>>
           \/ \E s \in RpcServers : \E i \in 1..Len(serving[s]) :
                serving[s][i] = c /\ p = <<"serving", s, i>>
         /\ \A p : p \in Places(c)' <=>
           \/ \E i \in 1..Len(requests') : requests'[i] = c /\ p = <<"requests", i>>
           \/ \E s \in RpcServers : result'[s] = c /\ p = <<"result", s>>
           \/ \E d \in RpcClients : \E i \in 1..Len(reply_queue'[d]) :
                reply_queue'[d][i] = c /\ p = <<"reply", d, i>>
           \/ \E s \in RpcServers : \E i \in 1..Len(serving'[s]) :
                serving'[s][i] = c /\ p = <<"serving", s, i>>
<1>1. Places(c) = PlacesIn(c, requests, result, reply_queue, serving)
  BY DEF Places, PlacesIn
<1>2. Places(c)' = PlacesIn(c, requests', result', reply_queue', serving')
  BY DEF Places, PlacesIn
<1>3. /\ requests \in Seq(RpcClients) /\ reply_queue \in [RpcClients -> Seq(RpcClients)]
      /\ serving \in [RpcServers -> Seq(RpcClients)]
  BY DEF RpcTypeOK
<1>4. /\ requests' \in Seq(RpcClients) /\ reply_queue' \in [RpcClients -> Seq(RpcClients)]
      /\ serving' \in [RpcServers -> Seq(RpcClients)]
  BY DEF RpcTypeOK
<1>5. \A p : p \in PlacesIn(c, requests, result, reply_queue, serving)
              <=> IsPlace(p, c, requests, result, reply_queue, serving)
  BY <1>3, InPlaces
<1>6. \A p : p \in PlacesIn(c, requests', result', reply_queue', serving')
              <=> IsPlace(p, c, requests', result', reply_queue', serving')
  BY <1>4, InPlaces
<1> QED BY <1>1, <1>2, <1>5, <1>6 DEF IsPlace

\* Wherever c's request stands before a step, there is a place of it.
LEMMA PlacesFound ==
  ASSUME RpcTypeOK, RpcTypeOK', NEW c
  PROVE  /\ \A i \in 1..Len(requests) : requests[i] = c => <<"requests", i>> \in Places(c)
         /\ \A s \in RpcServers : result[s] = c => <<"result", s>> \in Places(c)
         /\ \A d \in RpcClients : \A i \in 1..Len(reply_queue[d]) :
              reply_queue[d][i] = c => <<"reply", d, i>> \in Places(c)
         /\ \A s \in RpcServers : \A i \in 1..Len(serving[s]) :
              serving[s][i] = c => <<"serving", s, i>> \in Places(c)
BY PlacesBoth

LEMMA RpcTypeStep == ASSUME RpcTypeOK, RpcNext PROVE RpcTypeOK'
<1> USE DEF RpcTypeOK
<1>1. ASSUME NEW c \in RpcClients, SendRequest(c) PROVE RpcTypeOK'
  BY <1>1 DEF SendRequest
<1>2. ASSUME NEW c \in RpcClients, PollReply(c) PROVE RpcTypeOK'
  <2>1. Tail(reply_queue[c]) \in Seq(RpcClients)
    BY <1>2 DEF PollReply
  <2> QED BY <1>2, <2>1 DEF PollReply
<1>3. ASSUME NEW c \in RpcClients, CallTimesOut(c) PROVE RpcTypeOK'
  BY <1>3 DEF CallTimesOut
<1>4. ASSUME NEW s \in RpcServers, TakeRequests(s) PROVE RpcTypeOK'
  BY <1>4 DEF TakeRequests
<1>5. ASSUME NEW s \in RpcServers, HandleRequest(s) PROVE RpcTypeOK'
  <2>1. Tail(serving[s]) \in Seq(RpcClients) /\ Head(serving[s]) \in RpcClients
    BY <1>5 DEF HandleRequest
  <2> QED BY <1>5, <2>1 DEF HandleRequest
<1>6. ASSUME NEW s \in RpcServers, ServeRaises(s) PROVE RpcTypeOK'
  BY <1>6 DEF ServeRaises
<1>7. ASSUME NEW s \in RpcServers, SendReply(s) PROVE RpcTypeOK'
  <2>1. result[s] \in RpcClients
    BY <1>7 DEF SendReply
  <2>2. Append(reply_queue[result[s]], result[s]) \in Seq(RpcClients)
    BY <2>1
  <2> QED BY <1>7, <2>1, <2>2 DEF SendReply
<1> QED BY <1>1, <1>2, <1>3, <1>4, <1>5, <1>6, <1>7 DEF RpcNext, CallRpc, ServeRpc

\* A reply goes to the queue of the caller whose request it answers.
LEMMA OwnRepliesStep == ASSUME RpcInv, RpcNext PROVE OwnReplies'
<1> USE DEF RpcInv, RpcTypeOK
<1>1. ASSUME NEW c \in RpcClients, SendRequest(c) \/ CallTimesOut(c) PROVE OwnReplies'
  <2>1. /\ reply_queue' = reply_queue /\ got' = got
        /\ \A d \in RpcClients : call_at'[d] = "returned" <=> call_at[d] = "returned"
    BY <1>1 DEF SendRequest, CallTimesOut
  <2> QED BY <2>1 DEF OwnReplies
<1>2. ASSUME NEW c \in RpcClients, PollReply(c) PROVE OwnReplies'
  <2>1. Head(reply_queue[c]) = c
    BY <1>2 DEF PollReply, OwnReplies
  <2>2. /\ got' = [got EXCEPT ![c] = c] /\ call_at' = [call_at EXCEPT ![c] = "returned"]
        /\ reply_queue' = [reply_queue EXCEPT ![c] = Tail(reply_queue[c])]
        /\ reply_queue[c] # <<>>
    BY <1>2, <2>1 DEF PollReply
  <2>3. \A i \in 1..Len(Tail(reply_queue[c])) : Tail(reply_queue[c])[i] = c
    BY <2>2 DEF OwnReplies
  <2> QED BY <2>2, <2>3 DEF OwnReplies
<1>3. ASSUME NEW s \in RpcServers, TakeRequests(s) \/ HandleRequest(s) \/ ServeRaises(s)
      PROVE  OwnReplies'
  <2>1. UNCHANGED <<reply_queue, got, call_at>>
    BY <1>3 DEF TakeRequests, HandleRequest, ServeRaises
  <2> QED BY <2>1 DEF OwnReplies
<1>4. ASSUME NEW s \in RpcServers, SendReply(s) PROVE OwnReplies'
  <2> DEFINE d == result[s]
  <2>1. /\ d \in RpcClients
        /\ reply_queue' = [reply_queue EXCEPT ![d] = Append(reply_queue[d], d)]
        /\ UNCHANGED <<got, call_at>>
    BY <1>4 DEF SendReply
  <2>2. \A i \in 1..Len(Append(reply_queue[d], d)) : Append(reply_queue[d], d)[i] = d
    BY <2>1 DEF OwnReplies
  <2> QED BY <2>1, <2>2 DEF OwnReplies
<1> QED BY <1>1, <1>2, <1>3, <1>4 DEF RpcNext, CallRpc, ServeRpc

\* Sending makes the one place of a request; nothing else is there to be found.
LEMMA SendRequestStep ==
  ASSUME RpcInv, RpcTypeOK', NEW c \in RpcClients, SendRequest(c), NEW d \in RpcClients
  PROVE  Standing(d)'
<1>1. /\ call_at[c] = "new" /\ requests' = Append(requests, c)
      /\ call_at' = [call_at EXCEPT ![c] = "polling"]
      /\ UNCHANGED <<reply_queue, got, serving, result, lost>>
  BY DEF SendRequest
<1>2. /\ Len(requests') = Len(requests) + 1 /\ Len(requests) \in Nat
      /\ \A i \in 1..Len(requests) : requests'[i] = requests[i]
      /\ requests'[Len(requests) + 1] = c
  BY <1>1 DEF RpcInv, RpcTypeOK
<1>3. Standing(d) /\ call_at \in [RpcClients -> {"new", "polling", "returned", "timed_out"}]
  BY DEF RpcInv, RpcTypeOK
<1>4. CASE d = c
  <2>1. Places(c) = {} /\ c \notin lost /\ got[c] # c
    BY <1>1, <1>3, <1>4 DEF Standing, RpcInv, OwnReplies
  <2>2. \A p : p \in Places(c)' <=> p = <<"requests", Len(requests) + 1>>
    BY <1>1, <1>2, <2>1, PlacesBoth DEF RpcInv
  <2>3. Places(c)' = {<<"requests", Len(requests) + 1>>}
    BY <2>2
  <2> QED BY <1>1, <1>4, <1>3, <2>1, <2>3 DEF Standing
<1>5. CASE d # c
  <2>1. \A p : p \in Places(d)' <=> p \in Places(d)
    BY <1>1, <1>2, <1>5, PlacesBoth DEF RpcInv
  <2>2. Places(d)' = Places(d)
    BY <2>1
  <2> QED BY <1>1, <1>3, <1>5, <2>2 DEF Standing
<1> QED BY <1>4, <1>5

\* What leaves every place of a request alone leaves its standing alone.
LEMMA StandsStill ==
  ASSUME RpcTypeOK, RpcTypeOK', NEW c \in RpcClients, Standing(c),
         \A p : p \in Places(c)' <=> p \in Places(c),
         c \in lost' <=> c \in lost, got'[c] = got[c],
         call_at'[c] = "new" <=> call_at[c] = "new"
  PROVE  Standing(c)'
<1>1. Places(c)' = Places(c)
  OBVIOUS
<1> QED BY <1>1 DEF Standing

\* The reply a caller takes is the only one in its queue.
LEMMA PollReplyStep ==
  ASSUME RpcInv, RpcTypeOK', NEW c \in RpcClients, PollReply(c), NEW d \in RpcClients
  PROVE  Standing(d)'
<1> USE DEF RpcInv
<1>1. Standing(d) /\ RpcTypeOK
  OBVIOUS
<1>2. /\ call_at[c] = "polling" /\ reply_queue[c] \in Seq(RpcClients) /\ reply_queue[c] # <<>>
      /\ \A i \in 1..Len(reply_queue[c]) : reply_queue[c][i] = c
      /\ reply_queue[c][1] = c /\ Len(reply_queue[c]) > 0
  BY DEF PollReply, OwnReplies, RpcTypeOK
<1>3. /\ reply_queue' = [reply_queue EXCEPT ![c] = Tail(reply_queue[c])]
      /\ got' = [got EXCEPT ![c] = c] /\ call_at' = [call_at EXCEPT ![c] = "returned"]
      /\ UNCHANGED <<requests, serving, result, lost>>
  BY <1>2 DEF PollReply
<1>4. /\ reply_queue'[c] = Tail(reply_queue[c])
      /\ \A e \in RpcClients : e # c => reply_queue'[e] = reply_queue[e]
  BY <1>3 DEF RpcTypeOK
<1>5. /\ Len(Tail(reply_queue[c])) = Len(reply_queue[c]) - 1 /\ Len(reply_queue[c]) \in Nat
      /\ \A i \in 1..Len(Tail(reply_queue[c])) : Tail(reply_queue[c])[i] = c
  BY <1>2
<1>6. CASE d = c
  <2>1. <<"reply", c, 1>> \in Places(c)
    BY <1>1, <1>2, PlacesBoth
  <2>2. /\ \A p \in Places(c) : p = <<"reply", c, 1>>
        /\ c \notin lost
    BY <1>1, <1>2, <1>6, <2>1 DEF Standing
  <2>3. Len(reply_queue[c]) = 1
    <3>1. Len(reply_queue[c]) > 1 => <<"reply", c, 2>> \in Places(c)
      BY <1>1, <1>2, <1>5, PlacesBoth
    <3>2. <<"reply", c, 2>> # <<"reply", c, 1>>
      OBVIOUS
    <3>3. ~ Len(reply_queue[c]) > 1
      BY <3>1, <3>2, <2>2
    <3>4. Len(reply_queue[c]) \in Nat /\ Len(reply_queue[c]) > 0
      BY <1>2, <1>5
    <3> DEFINE n == Len(reply_queue[c])
    <3>5. n \in Nat /\ n > 0 /\ ~ n > 1
      BY <3>3, <3>4
    <3> HIDE DEF n
    <3>6. n = 1
      BY <3>5
    <3> QED BY <3>6 DEF n
  <2>4. \A p : p \notin Places(c)'
    <3>1. \A i \in 1..Len(requests) : requests[i] # c
      BY <1>1, <2>2, PlacesFound, PlacesDiffer
    <3>2. ASSUME NEW s \in RpcServers, result[s] = c PROVE FALSE
      <4>1. <<"result", s>> \in Places(c)
        BY <1>1, <3>2, PlacesFound
      <4>2. <<"result", s>> # <<"reply", c, 1>>
        OBVIOUS
      <4> QED BY <4>1, <4>2, <2>2
    <3>3. ASSUME NEW e \in RpcClients, NEW i \in 1..Len(reply_queue[e]), reply_queue[e][i] = c
          PROVE  e = c
      <4>1. <<"reply", e, i>> \in Places(c)
        BY <1>1, <3>3, PlacesFound
      <4>2. <<"reply", e, i>> = <<"reply", c, 1>>
        BY <4>1, <2>2
      <4> QED BY <4>2
    <3>4. ASSUME NEW s \in RpcServers, NEW i \in 1..Len(serving[s]), serving[s][i] = c PROVE FALSE
      <4>1. <<"serving", s, i>> \in Places(c)
        BY <1>1, <3>4, PlacesFound
      <4>2. <<"serving", s, i>> # <<"reply", c, 1>>
        OBVIOUS
      <4> QED BY <4>1, <4>2, <2>2
    <3>5. Len(reply_queue'[c]) = 0
      BY <1>4, <1>5, <2>3
    <3> QED BY <1>1, <1>3, <1>4, <3>1, <3>2, <3>3, <3>4, <3>5, PlacesBoth
  <2>5. Places(c)' = {}
    BY <2>4
  <2>6. got'[c] = c /\ call_at'[c] = "returned" /\ c \notin lost'
    BY <1>3, <2>2 DEF RpcTypeOK
  <2> QED BY <1>6, <2>5, <2>6 DEF Standing
<1>7. CASE d # c
  <2>1. \A p : p \in Places(d)' <=> p \in Places(d)
    <3>1. \A e \in RpcClients : \A i \in 1..Len(reply_queue[e]) :
            reply_queue[e][i] = d => e # c
      BY <1>2, <1>7
    <3>2. \A e \in RpcClients : \A i \in 1..Len(reply_queue'[e]) :
            reply_queue'[e][i] = d => e # c
      BY <1>4, <1>5, <1>7
    <3>3. ASSUME NEW p
          PROVE  (\E e \in RpcClients : \E i \in 1..Len(reply_queue'[e]) :
                    reply_queue'[e][i] = d /\ p = <<"reply", e, i>>)
                 <=> \E e \in RpcClients : \E i \in 1..Len(reply_queue[e]) :
                       reply_queue[e][i] = d /\ p = <<"reply", e, i>>
      BY <1>4, <3>1, <3>2
    <3>4. requests' = requests /\ result' = result /\ serving' = serving
      BY <1>3
    <3>5. ASSUME NEW p PROVE p \in Places(d)' <=> p \in Places(d)
      <4>1. p \in Places(d)' <=>
              \/ \E i \in 1..Len(requests) : requests[i] = d /\ p = <<"requests", i>>
              \/ \E s \in RpcServers : result[s] = d /\ p = <<"result", s>>
              \/ \E e \in RpcClients : \E i \in 1..Len(reply_queue'[e]) :
                   reply_queue'[e][i] = d /\ p = <<"reply", e, i>>
              \/ \E s \in RpcServers : \E i \in 1..Len(serving[s]) :
                   serving[s][i] = d /\ p = <<"serving", s, i>>
        BY <1>1, <3>4, PlacesBoth
      <4>2. p \in Places(d) <=>
              \/ \E i \in 1..Len(requests) : requests[i] = d /\ p = <<"requests", i>>
              \/ \E s \in RpcServers : result[s] = d /\ p = <<"result", s>>
              \/ \E e \in RpcClients : \E i \in 1..Len(reply_queue[e]) :
                   reply_queue[e][i] = d /\ p = <<"reply", e, i>>
              \/ \E s \in RpcServers : \E i \in 1..Len(serving[s]) :
                   serving[s][i] = d /\ p = <<"serving", s, i>>
        BY <1>1, PlacesBoth
      <4> QED BY <4>1, <4>2, <3>3, Zenon
    <3> QED BY <3>5
  <2>2. got'[d] = got[d] /\ call_at'[d] = call_at[d] /\ lost' = lost
    BY <1>3, <1>7 DEF RpcTypeOK
  <2> QED BY <1>1, <2>1, <2>2, StandsStill
<1> QED BY <1>6, <1>7

LEMMA CallTimesOutStep ==
  ASSUME RpcInv, RpcTypeOK', NEW c \in RpcClients, CallTimesOut(c), NEW d \in RpcClients
  PROVE  Standing(d)'
<1>1. /\ UNCHANGED <<requests, reply_queue, got, serving, result, lost>>
      /\ call_at'[d] = "new" <=> call_at[d] = "new"
  BY DEF CallTimesOut, RpcInv, RpcTypeOK
<1>2. \A p : p \in Places(d)' <=> p \in Places(d)
  BY <1>1 DEF Places
<1> QED BY <1>1, <1>2, StandsStill DEF RpcInv

\* What only serve changes leaves the answers and the callers alone.
LEMMA ServeLeaves ==
  ASSUME NEW s \in RpcServers, ServeRpc(s)
  PROVE  UNCHANGED <<got, call_at>>
BY DEF ServeRpc, TakeRequests, HandleRequest, ServeRaises, SendReply

\* A request that only moves stands as it did.
LEMMA Moves ==
  ASSUME RpcTypeOK, RpcTypeOK', NEW c \in RpcClients, Standing(c), UNCHANGED <<got, call_at>>,
         c \in lost' <=> c \in lost,
         Places(c) = {} => Places(c)' = {},
         \A p : Places(c) = {p} => \E q : Places(c)' = {q}
  PROVE  Standing(c)'
BY DEF Standing

\* serve takes the requests in the order they came, to a place each.
LEMMA TakeRequestsStep ==
  ASSUME RpcInv, RpcTypeOK', NEW s \in RpcServers, TakeRequests(s), NEW c \in RpcClients
  PROVE  Standing(c)'
<1> USE DEF RpcInv
<1>1. /\ serving[s] = <<>> /\ requests' = <<>>
      /\ serving' = [serving EXCEPT ![s] = requests]
      /\ UNCHANGED <<reply_queue, call_at, got, result, lost>>
  BY DEF TakeRequests
<1>2. /\ serving'[s] = requests /\ \A r \in RpcServers : r # s => serving'[r] = serving[r]
      /\ Len(serving[s]) = 0 /\ Len(requests') = 0
  BY <1>1 DEF RpcTypeOK
<1>3. \A p : p \in Places(c)' =>
        \/ p \in Places(c) /\ \A i \in 1..Len(requests) : p # <<"requests", i>>
        \/ \E i \in 1..Len(requests) : requests[i] = c /\ p = <<"serving", s, i>>
  BY <1>1, <1>2, PlacesBoth
<1>4. \A p : p \in Places(c) =>
        \/ p \in Places(c)'
        \/ \E i \in 1..Len(requests) : requests[i] = c /\ p = <<"requests", i>>
  BY <1>1, <1>2, PlacesBoth
<1>5. \A i \in 1..Len(requests) : requests[i] = c =>
        <<"requests", i>> \in Places(c) /\ <<"serving", s, i>> \in Places(c)'
  BY <1>1, <1>2, PlacesBoth
<1>6. Places(c) = {} => Places(c)' = {}
  BY <1>3, <1>5
<1>7. ASSUME NEW p, Places(c) = {p} PROVE \E q : Places(c)' = {q}
  <2>1. CASE \E i \in 1..Len(requests) : requests[i] = c
    <3>1. PICK i \in 1..Len(requests) : requests[i] = c
      BY <2>1
    <3>2. p = <<"requests", i>>
      BY <1>5, <1>7, <3>1
    <3>3. \A j \in 1..Len(requests) : requests[j] = c => j = i
      BY <1>5, <1>7, <3>2, PlacesDiffer
    <3>4. \A q : q \in Places(c)' <=> q = <<"serving", s, i>>
      BY <1>3, <1>5, <1>7, <3>1, <3>2, <3>3
    <3>5. Places(c)' = {<<"serving", s, i>>}
      BY <3>4
    <3> QED BY <3>5
  <2>2. CASE ~ \E i \in 1..Len(requests) : requests[i] = c
    <3>1. \A q : q \in Places(c)' <=> q = p
      BY <1>3, <1>4, <1>7, <2>2
    <3>2. Places(c)' = {p}
      BY <3>1
    <3> QED BY <3>2
  <2> QED BY <2>1, <2>2
<1> QED BY <1>1, <1>6, <1>7, Moves

\* A request in the handler is out of the list.
LEMMA HandleRequestStep ==
  ASSUME RpcInv, RpcTypeOK', NEW s \in RpcServers, HandleRequest(s), NEW c \in RpcClients
  PROVE  Standing(c)'
<1> USE DEF RpcInv
<1> DEFINE l == serving[s]
<1>1. /\ l # <<>> /\ result[s] = Nobody /\ l \in Seq(RpcClients)
      /\ result' = [result EXCEPT ![s] = Head(l)]
      /\ serving' = [serving EXCEPT ![s] = Tail(l)]
      /\ UNCHANGED <<requests, reply_queue, call_at, got, lost>>
  BY DEF HandleRequest, RpcTypeOK
<1>2. /\ result'[s] = Head(l) /\ \A r \in RpcServers : r # s => result'[r] = result[r]
      /\ serving'[s] = Tail(l) /\ \A r \in RpcServers : r # s => serving'[r] = serving[r]
  BY <1>1 DEF RpcTypeOK
<1>3. /\ Len(l) \in Nat /\ Len(l) > 0 /\ Head(l) = l[1] /\ Len(Tail(l)) = Len(l) - 1
      /\ \A i \in 1..Len(Tail(l)) : i + 1 \in 1..Len(l) /\ Tail(l)[i] = l[i + 1]
      /\ \A i \in 1..Len(l) : i # 1 => i - 1 \in 1..Len(Tail(l)) /\ Tail(l)[i - 1] = l[i]
  BY <1>1
<1>4. result[s] # c
  BY <1>1, RpcAssumption
<1> HIDE DEF l
<1>5. \A i \in 1..Len(l) : l[i] = c => <<"serving", s, i>> \in Places(c)
  BY PlacesBoth DEF l
<1>6. \A p : p \in Places(c)' =>
        \/ p \in Places(c) /\ \A i \in 1..Len(l) : p # <<"serving", s, i>>
        \/ l[1] = c /\ p = <<"result", s>>
        \/ \E i \in 1..Len(Tail(l)) : Tail(l)[i] = c /\ p = <<"serving", s, i>>
  <2> SUFFICES ASSUME NEW p, p \in Places(c)'
               PROVE  \/ p \in Places(c) /\ \A i \in 1..Len(l) : p # <<"serving", s, i>>
                      \/ l[1] = c /\ p = <<"result", s>>
                      \/ \E i \in 1..Len(Tail(l)) : Tail(l)[i] = c /\ p = <<"serving", s, i>>
    OBVIOUS
  <2>1. CASE \E i \in 1..Len(requests) : requests[i] = c /\ p = <<"requests", i>>
    BY <2>1, PlacesFound
  <2>2. CASE \E r \in RpcServers : result'[r] = c /\ p = <<"result", r>>
    BY <2>2, <1>2, <1>3, PlacesFound
  <2>3. CASE \E d \in RpcClients : \E i \in 1..Len(reply_queue[d]) :
               reply_queue[d][i] = c /\ p = <<"reply", d, i>>
    BY <2>3, PlacesFound
  <2>4. CASE \E r \in RpcServers : \E i \in 1..Len(serving'[r]) :
               serving'[r][i] = c /\ p = <<"serving", r, i>>
    <3>1. PICK r \in RpcServers : \E i \in 1..Len(serving'[r]) :
               serving'[r][i] = c /\ p = <<"serving", r, i>>
      BY <2>4
    <3>2. PICK i \in 1..Len(serving'[r]) : serving'[r][i] = c /\ p = <<"serving", r, i>>
      BY <3>1
    <3>3. CASE r = s
      BY <3>2, <3>3, <1>2
    <3>4. CASE r # s
      <4>1. serving'[r] = serving[r] /\ p \in Places(c)
        BY <3>2, <3>4, <1>2, PlacesFound
      <4>2. \A j \in 1..Len(l) : p # <<"serving", s, j>>
        BY <3>2, <3>4
      <4> QED BY <4>1, <4>2
    <3> QED BY <3>3, <3>4
  <2> QED BY <1>1, <2>1, <2>2, <2>3, <2>4, PlacesBoth
<1>7. \A p : p \in Places(c) =>
        \/ p \in Places(c)'
        \/ \E i \in 1..Len(l) : l[i] = c /\ p = <<"serving", s, i>>
  BY <1>1, <1>2, <1>4, PlacesBoth DEF l
<1>8. /\ l[1] = c => <<"result", s>> \in Places(c)'
      /\ \A i \in 1..Len(Tail(l)) : Tail(l)[i] = c => <<"serving", s, i>> \in Places(c)'
  BY <1>1, <1>2, <1>3, PlacesBoth
<1>9. Places(c) = {} => Places(c)' = {}
  BY <1>3, <1>5, <1>6
<1>10. ASSUME NEW p, Places(c) = {p} PROVE \E q : Places(c)' = {q}
  <2>1. CASE \E i \in 1..Len(l) : l[i] = c
    <3>1. PICK i \in 1..Len(l) : l[i] = c
      BY <2>1
    <3>2. p = <<"serving", s, i>>
      BY <1>5, <1>10, <3>1
    <3>3. \A j \in 1..Len(l) : l[j] = c => j = i
      BY <1>5, <1>10, <3>2, PlacesDiffer
    <3>4. CASE i = 1
      <4>1. \A q : q \in Places(c)' <=> q = <<"result", s>>
        <5>1. \A j \in 1..Len(Tail(l)) : Tail(l)[j] # c
          BY <1>3, <3>3, <3>4
        <5> QED BY <1>6, <1>8, <1>10, <3>1, <3>2, <3>4, <5>1
      <4>2. Places(c)' = {<<"result", s>>}
        BY <4>1
      <4> QED BY <4>2
    <3>5. CASE i # 1
      <4>1. i - 1 \in 1..Len(Tail(l)) /\ Tail(l)[i - 1] = c /\ l[1] # c
        BY <1>3, <3>1, <3>3, <3>5
      <4>2. \A j \in 1..Len(Tail(l)) : Tail(l)[j] = c => j = i - 1
        BY <1>3, <3>3
      <4>3. \A q : q \in Places(c)' <=> q = <<"serving", s, i - 1>>
        BY <1>6, <1>8, <1>10, <3>1, <3>2, <4>1, <4>2
      <4>4. Places(c)' = {<<"serving", s, i - 1>>}
        BY <4>3
      <4> QED BY <4>4
    <3> QED BY <3>4, <3>5
  <2>2. CASE ~ \E i \in 1..Len(l) : l[i] = c
    <3>1. \A q : q \in Places(c)' <=> q = p
      BY <1>3, <1>6, <1>7, <1>10, <2>2
    <3>2. Places(c)' = {p}
      BY <3>1
    <3> QED BY <3>2
  <2> QED BY <2>1, <2>2
<1> QED BY <1>1, <1>9, <1>10, Moves

\* A request is lost with the list it is in.
LEMMA ServeRaisesStep ==
  ASSUME RpcInv, RpcTypeOK', NEW s \in RpcServers, ServeRaises(s), NEW c \in RpcClients
  PROVE  Standing(c)'
<1> USE DEF RpcInv
<1>1. /\ lost' = lost \cup {serving[s][i] : i \in DOMAIN serving[s]}
      /\ serving' = [serving EXCEPT ![s] = <<>>]
      /\ UNCHANGED <<requests, reply_queue, call_at, got, result>>
  BY DEF ServeRaises
<1>2. /\ Len(serving'[s]) = 0 /\ \A r \in RpcServers : r # s => serving'[r] = serving[r]
      /\ DOMAIN serving[s] = 1..Len(serving[s])
  BY <1>1 DEF RpcTypeOK
<1>3. \A i \in 1..Len(serving[s]) : serving[s][i] = c => <<"serving", s, i>> \in Places(c)
  BY PlacesBoth
<1>4. \A p : p \in Places(c)' =>
        p \in Places(c) /\ \A i \in 1..Len(serving[s]) : p # <<"serving", s, i>>
  BY <1>1, <1>2, PlacesBoth
<1>5. \A p : p \in Places(c) =>
        \/ p \in Places(c)'
        \/ \E i \in 1..Len(serving[s]) : serving[s][i] = c /\ p = <<"serving", s, i>>
  BY <1>1, <1>2, PlacesBoth
<1>6. CASE \E i \in 1..Len(serving[s]) : serving[s][i] = c
  <2>1. PICK i \in 1..Len(serving[s]) : serving[s][i] = c
    BY <1>6
  <2>2. <<"serving", s, i>> \in Places(c)
    BY <1>3, <2>1
  <2>3. call_at[c] # "new" /\ Places(c) = {<<"serving", s, i>>} /\ got[c] # c
    BY <2>2 DEF Standing
  <2>4. Places(c)' = {}
    BY <1>4, <2>1, <2>3
  <2>5. c \in lost'
    BY <1>1, <1>2, <2>1
  <2> QED BY <1>1, <2>3, <2>4, <2>5 DEF Standing
<1>7. CASE ~ \E i \in 1..Len(serving[s]) : serving[s][i] = c
  <2>1. \A p : p \in Places(c)' <=> p \in Places(c)
    BY <1>4, <1>5, <1>7
  <2>2. c \in lost' <=> c \in lost
    BY <1>1, <1>2, <1>7
  <2> QED BY <1>1, <2>1, <2>2, StandsStill
<1> QED BY <1>6, <1>7

\* The answer is in the reply queue, and with serve no longer.
LEMMA SendReplyStep ==
  ASSUME RpcInv, RpcTypeOK', NEW s \in RpcServers, SendReply(s), NEW c \in RpcClients
  PROVE  Standing(c)'
<1> USE DEF RpcInv
<1> DEFINE d == result[s]
           n == Len(reply_queue[d]) + 1
<1>1. /\ d \in RpcClients /\ d # Nobody /\ reply_queue[d] \in Seq(RpcClients)
      /\ reply_queue' = [reply_queue EXCEPT ![d] = Append(reply_queue[d], d)]
      /\ result' = [result EXCEPT ![s] = Nobody]
      /\ UNCHANGED <<requests, call_at, got, serving, lost>>
  BY DEF SendReply, RpcTypeOK
<1>2. /\ result'[s] = Nobody /\ \A r \in RpcServers : r # s => result'[r] = result[r]
      /\ reply_queue'[d] = Append(reply_queue[d], d)
      /\ \A e \in RpcClients : e # d => reply_queue'[e] = reply_queue[e]
  BY <1>1 DEF RpcTypeOK
<1>3. /\ Len(reply_queue'[d]) = n /\ n \in Nat /\ n \in 1..n /\ reply_queue'[d][n] = d
      /\ \A i \in 1..Len(reply_queue[d]) : i \in 1..n /\ reply_queue'[d][i] = reply_queue[d][i]
      /\ \A i \in 1..n : i # n => i \in 1..Len(reply_queue[d])
  BY <1>1, <1>2
<1>4. c # Nobody
  BY RpcAssumption
<1>5. CASE c = d
  <2>1. <<"result", s>> \in Places(c)
    BY <1>5, PlacesBoth
  <2>2. Places(c) = {<<"result", s>>} /\ call_at[c] # "new" /\ c \notin lost /\ got[c] # c
    BY <2>1 DEF Standing
  <2>3. <<"reply", c, n>> \in Places(c)'
    BY <1>1, <1>3, <1>5, PlacesBoth
  <2>4. \A i \in 1..Len(reply_queue[d]) : reply_queue[d][i] # c
    <3>1. \A i \in 1..Len(reply_queue[d]) : reply_queue[d][i] = c => <<"reply", d, i>> \in Places(c)
      BY <1>1, PlacesBoth
    <3> QED BY <3>1, <2>2, PlacesDiffer
  <2> HIDE DEF d, n
  <2>5. \A p : p \in Places(c)' =>
          \/ p \in Places(c) /\ p # <<"result", s>>
          \/ p = <<"reply", c, n>>
    BY <1>1, <1>2, <1>3, <1>4, <1>5, <2>4, PlacesBoth
  <2>6. Places(c)' = {<<"reply", c, n>>}
    BY <2>2, <2>3, <2>5
  <2> QED BY <1>1, <2>2, <2>6 DEF Standing
<1>6. CASE c # d
  <2>1. \A p : p \in Places(c)' <=> p \in Places(c)
    <3>1. result[s] # c
      BY <1>6
    <3> HIDE DEF d, n
    <3> QED BY <1>1, <1>2, <1>3, <1>4, <1>6, <3>1, PlacesBoth
  <2> QED BY <1>1, <2>1, StandsStill
<1> QED BY <1>5, <1>6

LEMMA RpcInitInv == ASSUME RpcInit PROVE RpcInv
<1> USE DEF RpcInit
<1>1. RpcTypeOK
  BY DEF RpcTypeOK
<1>2. OwnReplies
  BY RpcAssumption DEF OwnReplies
<1>3. ASSUME NEW c \in RpcClients PROVE Standing(c)
  <2>1. Places(c) = {}
    BY RpcAssumption DEF Places
  <2> QED BY <2>1 DEF Standing
<1> QED BY <1>1, <1>2, <1>3 DEF RpcInv

LEMMA RpcStep == ASSUME RpcInv, [RpcNext]_rpcVars PROVE RpcInv'
<1>1. CASE UNCHANGED rpcVars
  <2>1. RpcTypeOK' /\ OwnReplies'
    BY <1>1 DEF rpcVars, RpcInv, RpcTypeOK, OwnReplies
  <2>2. ASSUME NEW c \in RpcClients PROVE Standing(c)'
    <3>1. Places(c)' = Places(c)
      BY <1>1 DEF rpcVars, Places
    <3> QED BY <1>1, <3>1 DEF rpcVars, RpcInv, Standing
  <2> QED BY <2>1, <2>2 DEF RpcInv
<1>2. CASE RpcNext
  <2>1. RpcTypeOK' /\ OwnReplies'
    BY <1>2, RpcTypeStep, OwnRepliesStep DEF RpcInv
  <2>2. ASSUME NEW c \in RpcClients PROVE Standing(c)'
    BY <1>2, <2>1, SendRequestStep, PollReplyStep, CallTimesOutStep, TakeRequestsStep,
       HandleRequestStep, ServeRaisesStep, SendReplyStep DEF RpcNext, CallRpc, ServeRpc
  <2> QED BY <2>1, <2>2 DEF RpcInv
<1> QED BY <1>1, <1>2

LEMMA RpcInvHolds == ASSUME RpcInv PROVE AnsweredOnceToItsCaller
<1> SUFFICES ASSUME NEW c \in RpcClients
             PROVE  /\ Cardinality(Places(c)) + (IF c \in lost THEN 1 ELSE 0)
                         + (IF got[c] = c THEN 1 ELSE 0) = (IF call_at[c] = "new" THEN 0 ELSE 1)
                    /\ \A i \in DOMAIN reply_queue[c] : reply_queue[c][i] = c
                    /\ call_at[c] = "returned" <=> got[c] = c
  BY DEF AnsweredOnceToItsCaller
<1>1. Cardinality({}) = 0 /\ \A p : Cardinality({p}) = 1
  BY FS_EmptySet, FS_Singleton
<1>2. call_at[c] = "new" => got[c] # c
  BY DEF RpcInv, OwnReplies
<1>3. Standing(c)
  BY DEF RpcInv
<1>4. Cardinality(Places(c)) + (IF c \in lost THEN 1 ELSE 0)
         + (IF got[c] = c THEN 1 ELSE 0) = (IF call_at[c] = "new" THEN 0 ELSE 1)
  BY <1>1, <1>2, <1>3 DEF Standing
<1>5. DOMAIN reply_queue[c] = 1..Len(reply_queue[c])
  BY DEF RpcInv, RpcTypeOK
<1> QED BY <1>4, <1>5 DEF RpcInv, OwnReplies

\* However workers, callers that give up and servers that fail interleave, every
\* message is worked by one worker in the order of the queue, and every request is
\* answered once, to the caller that made it, or lost once.
THEOREM WorkIsShared == Spec => []WorkSharedOnce
<1> DEFINE Kept == WorkInv /\ RpcInv
<1>1. Init => Kept
  BY WorkInitInv, RpcInitInv DEF Init
<1>2. Kept /\ [Next]_mcVars => Kept'
  BY OneSystemSteps, WorkStep, RpcStep
<1>3. Kept => WorkSharedOnce
  BY RpcInvHolds DEF WorkInv, WorkSharedOnce
<1> HIDE DEF Kept
<1> QED BY <1>1, <1>2, <1>3, PTL DEF Spec
-----------------------------------------------------------------------------
(* Who receives a message *)

\* A set of naturals has a least member.
LEMMA LeastMember ==
  ASSUME NEW P \in SUBSET Nat, P # {}
  PROVE  \E n \in P : \A m \in P : n <= m
<1> DEFINE R == OpToRel(<, Nat)
<1>1. IsWellFoundedOn(R, Nat)
  BY NatLessThanWellFounded
<1>2. PICK n \in P : \A m \in P : <<m, n>> \notin R
  <2> HIDE DEF R
  <2> QED BY <1>1, WFMin
<1>3. \A m \in P : <<m, n>> \in R <=> m < n
  BY DEF OpToRel
<1> HIDE DEF R
<1>4. \A m \in P : ~ (m < n)
  BY <1>2, <1>3
<1> QED BY <1>4

Args == RoutingKeys \cup {<<>>} \cup TopicPatterns \cup ({"all", "any"} \X HeaderSets)
Bindings == [queue : QueueNames, arg : Args]

\* The calls of publish, with their local variables.
Calls == [key : RoutingKeys \cup {<<>>}, headers : HeaderSets \cup {<<>>}, live : BOOLEAN,
          next : Nat \ {0}, given : SUBSET Nat, delivered : Nat,
          phase : {"routing", "leaving", "done"}, returned : Nat, bound : Nat, until : Nat]

RoutingTypeOK ==
  /\ exchange \in {"direct", "fanout", "topic", "headers", "pubsub"}
  /\ bindings \in Seq(Bindings)
  /\ sent \in Seq(Calls)

\* Routes and Matching, of an exchange ex with the bindings bs.
RoutesOn(ex, b, key, headers) ==
  CASE ex \in {"direct", "pubsub"} -> b.arg = key
    [] ex = "fanout"  -> TRUE
    [] ex = "topic"   -> Matches(b.arg, key)
    [] ex = "headers" -> HeadersMatch(b.arg, headers)
Matched(ex, bs, s, n) == {i \in 1..n : RoutesOn(ex, bs[i], s.key, s.headers)}

LEMMA MatchingIs ==
  ASSUME NEW s, NEW n
  PROVE  Matching(s, n) = Matched(exchange, bindings, s, n)
BY DEF Matching, Matched, Routes, RoutesOn

\* That the queue of a binding has its copy.
HasCopy(ex, bs, s, i) ==
  \/ i \in s.given
  \/ ex = "topic" /\ \E j \in s.given : bs[j].queue = bs[i].queue

\* A call has given copies through bindings it has passed, has left out none of them
\* that matches, and walks, unless nothing it was called for matched, to the end of a
\* list that only grows; what it returned was counted at its end.
OnItsWay(ex, bs, s) ==
  /\ s.bound <= Len(bs) /\ s.next <= Len(bs) + 1
  /\ s.given \subseteq Matched(ex, bs, s, s.next - 1) /\ s.delivered = Cardinality(s.given)
  /\ ex = "topic" => \A i, j \in s.given : bs[i].queue = bs[j].queue => i = j
  /\ \A i \in Matched(ex, bs, s, s.next - 1) : HasCopy(ex, bs, s, i)
  /\ ~s.live => Matched(ex, bs, s, s.bound) = {} /\ s.next = 1
  /\ s.live /\ s.phase # "routing" => s.bound < s.next
  /\ s.phase = "done" =>
       /\ s.until <= Len(bs) /\ s.bound <= s.until /\ s.next <= s.until + 1
       /\ s.returned = IF ex \in {"topic", "headers"} THEN s.delivered
                       ELSE IF s.live THEN Cardinality(Matched(ex, bs, s, s.until)) ELSE 0

CallsKept == \A m \in DOMAIN sent : OnItsWay(exchange, bindings, sent[m])

RoutingInv == RoutingTypeOK /\ CallsKept

LEMMA RoutingInitInv == ASSUME RoutingInit PROVE RoutingInv
<1>1. RoutingTypeOK
  BY RoutingAssumption DEF RoutingInit, RoutingTypeOK
<1>2. DOMAIN sent = {}
  BY DEF RoutingInit
<1> QED BY <1>1, <1>2 DEF RoutingInv, CallsKept

\* A set of positions is finite.
LEMMA Positions ==
  ASSUME NEW n \in Nat, NEW S, S \subseteq 1..n
  PROVE  IsFiniteSet(S) /\ Cardinality(S) \in Nat
<1>1. IsFiniteSet(1..n)
  BY FS_Interval
<1> QED BY <1>1, FS_Subset, FS_CardinalityType

\* A call that is where OnItsWay has it has sent rightly.
LEMMA RoutedRightly == ASSUME RoutingInv PROVE RoutedToTheBound
<1> SUFFICES ASSUME NEW m \in DOMAIN sent PROVE RightlySent(sent[m])
  BY DEF RoutedToTheBound
<1> PICK s \in Calls : s = sent[m]
  BY DEF RoutingInv, RoutingTypeOK
<1> DEFINE M(n) == Matched(exchange, bindings, s, n)
           made == IF s.phase = "done" THEN s.until ELSE Len(bindings)
<1>1. OnItsWay(exchange, bindings, s) /\ Len(bindings) \in Nat
  BY DEF RoutingInv, RoutingTypeOK, CallsKept
<1>2. /\ s.next \in Nat /\ s.next >= 1 /\ s.bound \in Nat /\ s.until \in Nat
      /\ made \in Nat /\ s.next - 1 <= made /\ s.returned \in Nat /\ s.live \in BOOLEAN
  BY <1>1 DEF Calls, OnItsWay
<1>3. s.given \subseteq M(made)
  BY <1>1, <1>2 DEF OnItsWay, Matched
<1> HIDE DEF made
<1>4. ASSUME s.phase = "done"
      PROVE  /\ \A i \in M(s.bound) : HasCopy(exchange, bindings, s, i)
             /\ Cardinality(s.given) <= s.returned
             /\ exchange \in {"topic", "headers"} \/ M(made) \ M(s.bound) = {}
                  => s.returned = Cardinality(s.given)
  <2>0. made = s.until /\ s.bound <= s.until
    BY <1>1, <1>4 DEF made, OnItsWay
  <2>1. \A i \in M(s.bound) : HasCopy(exchange, bindings, s, i)
    <3>1. CASE s.live
      <4>1. s.bound <= s.next - 1
        BY <1>1, <1>2, <1>4, <3>1 DEF OnItsWay
      <4>2. M(s.bound) \subseteq M(s.next - 1)
        BY <1>2, <4>1 DEF Matched
      <4> QED BY <1>1, <4>2 DEF OnItsWay
    <3>2. CASE ~s.live
      BY <1>1, <3>2 DEF OnItsWay
    <3> QED BY <3>1, <3>2
  <2>2. CASE exchange \in {"topic", "headers"}
    <3>1. s.returned = Cardinality(s.given)
      BY <1>1, <1>4, <2>2 DEF OnItsWay
    <3> QED BY <1>2, <2>1, <3>1
  <2>3. CASE exchange \notin {"topic", "headers"} /\ s.live
    <3>1. s.returned = Cardinality(M(made))
      BY <1>1, <1>4, <2>0, <2>3 DEF OnItsWay
    <3>2. M(made) \subseteq 1..made
      BY DEF Matched
    <3>3. IsFiniteSet(M(made))
      BY <1>2, <3>2, Positions
    <3>4. Cardinality(s.given) <= Cardinality(M(made))
      BY <1>3, <3>3, FS_Subset
    <3>5. ASSUME M(made) \ M(s.bound) = {} PROVE s.given = M(made)
      BY <1>3, <2>1, <2>3, <3>5 DEF HasCopy
    <3> QED BY <2>1, <2>3, <3>1, <3>4, <3>5
  <2>4. CASE exchange \notin {"topic", "headers"} /\ ~s.live
    <3>1. s.returned = 0
      BY <1>1, <1>4, <2>4 DEF OnItsWay
    <3>2. s.given = {}
      BY <1>1, <2>4 DEF OnItsWay, Matched
    <3> QED BY <2>1, <3>1, <3>2, FS_EmptySet
  <2> QED BY <1>2, <2>2, <2>3, <2>4
<1>5. exchange = "topic" =>
        \A i, j \in s.given : bindings[i].queue = bindings[j].queue => i = j
  BY <1>1 DEF OnItsWay
<1>6. Matching(s, made) = M(made) /\ Matching(s, s.bound) = M(s.bound)
  BY MatchingIs
<1> HIDE DEF M
<1>7. RightlySent(s)
  BY <1>3, <1>4, <1>5, <1>6 DEF RightlySent, made, HasCopy
<1> QED BY <1>7

\* A new binding comes after those a call has passed.
LEMMA WayAfterBind ==
  ASSUME NEW ex, NEW bs \in Seq(Bindings), NEW b \in Bindings, NEW s \in Calls,
         OnItsWay(ex, bs, s)
  PROVE  OnItsWay(ex, Append(bs, b), s)
<1> DEFINE longer == Append(bs, b)
<1>1. /\ Len(bs) \in Nat /\ Len(longer) = Len(bs) + 1
      /\ \A i \in 1..Len(bs) : longer[i] = bs[i]
  OBVIOUS
<1> HIDE DEF longer
<1>2. /\ s.next \in Nat /\ s.next >= 1 /\ s.bound \in Nat /\ s.until \in Nat
      /\ s.next - 1 <= Len(bs) /\ s.bound <= Len(bs)
      /\ s.phase = "done" => s.until <= Len(bs)
  BY <1>1 DEF Calls, OnItsWay
<1>3. ASSUME NEW n \in Int, n <= Len(bs)
      PROVE  Matched(ex, longer, s, n) = Matched(ex, bs, s, n)
  BY <1>1, <1>3 DEF Matched
<1>4. /\ Matched(ex, longer, s, s.next - 1) = Matched(ex, bs, s, s.next - 1)
      /\ Matched(ex, longer, s, s.bound) = Matched(ex, bs, s, s.bound)
      /\ s.phase = "done" => Matched(ex, longer, s, s.until) = Matched(ex, bs, s, s.until)
  BY <1>2, <1>3
<1>5. \A i \in Matched(ex, bs, s, s.next - 1) : i \in 1..Len(bs) /\ longer[i] = bs[i]
  BY <1>1, <1>2 DEF Matched
<1>6. \A i \in s.given : longer[i] = bs[i]
  BY <1>5 DEF OnItsWay
<1>7. \A i \in Matched(ex, bs, s, s.next - 1) : HasCopy(ex, longer, s, i)
  BY <1>5, <1>6 DEF OnItsWay, HasCopy
<1>8. /\ s.bound <= Len(longer) /\ s.next <= Len(longer) + 1
      /\ s.phase = "done" => s.until <= Len(longer)
  BY <1>1, <1>2
<1>9. ex = "topic" => \A i, j \in s.given : longer[i].queue = longer[j].queue => i = j
  BY <1>6 DEF OnItsWay
<1>10. OnItsWay(ex, longer, s)
  BY <1>4, <1>7, <1>8, <1>9 DEF OnItsWay
<1> QED BY <1>10 DEF longer

\* Passing a binding gives its queue a copy, or has given it one, or it does not match.
LEMMA WayAfterNext ==
  ASSUME RoutingTypeOK, NEW s \in Calls, OnItsWay(exchange, bindings, s),
         s.phase = "routing", ~AtEnd(s), NEW t,
         t = [s EXCEPT !.next = s.next + 1,
                       !.given = IF Receives(s, s.next) THEN s.given \cup {s.next} ELSE s.given,
                       !.delivered = IF Receives(s, s.next) THEN s.delivered + 1 ELSE s.delivered]
  PROVE  t \in Calls /\ OnItsWay(exchange, bindings, t)
<1> DEFINE n == s.next
           M == Matched(exchange, bindings, s, n - 1)
<1>0. /\ n \in Nat \ {0} /\ s.given \in SUBSET Nat /\ s.delivered \in Nat
      /\ s.bound \in Nat /\ Len(bindings) \in Nat
  BY DEF Calls, RoutingTypeOK
<1>1. s.live /\ n <= Len(bindings)
  BY <1>0 DEF AtEnd, Calls, OnItsWay
<1>2. /\ t.next = n + 1 /\ t.live = s.live /\ t.phase = "routing" /\ t.bound = s.bound
      /\ t.key = s.key /\ t.headers = s.headers
      /\ t.given = IF Receives(s, n) THEN s.given \cup {n} ELSE s.given
      /\ t.delivered = IF Receives(s, n) THEN s.delivered + 1 ELSE s.delivered
  BY DEF Calls
<1>3. t \in Calls
  <2> DEFINE given == IF Receives(s, s.next) THEN s.given \cup {s.next} ELSE s.given
             delivered == IF Receives(s, s.next) THEN s.delivered + 1 ELSE s.delivered
  <2>1. s.next + 1 \in Nat \ {0} /\ given \in SUBSET Nat /\ delivered \in Nat
    BY <1>0
  <2> HIDE DEF given, delivered
  <2>2. t = [s EXCEPT !.next = s.next + 1, !.given = given, !.delivered = delivered]
    BY DEF given, delivered
  <2> QED BY <2>1, <2>2 DEF Calls
<1>4. /\ s.given \subseteq M /\ s.delivered = Cardinality(s.given)
      /\ \A i \in M : HasCopy(exchange, bindings, s, i) /\ i \in 1..n - 1
  BY DEF OnItsWay, Matched
<1>5. Matched(exchange, bindings, t, t.next - 1) =
        IF RoutesOn(exchange, bindings[n], s.key, s.headers) THEN M \cup {n} ELSE M
  <2>1. t.next - 1 = n
    BY <1>0, <1>2
  <2>2. \A i : i \in 1..n <=> i \in 1..n - 1 \/ i = n
    BY <1>0
  <2> QED BY <1>2, <2>1, <2>2 DEF Matched
<1>6. Receives(s, n) <=>
        /\ RoutesOn(exchange, bindings[n], s.key, s.headers)
        /\ exchange = "topic" => \A j \in s.given : bindings[j].queue # bindings[n].queue
  BY DEF Receives, Routes, RoutesOn
<1> HIDE DEF M
<1>7. t.given \subseteq Matched(exchange, bindings, t, t.next - 1)
  BY <1>2, <1>4, <1>5, <1>6
<1>8. t.delivered = Cardinality(t.given)
  <2>1. n \notin s.given
    BY <1>0, <1>4
  <2>2. IsFiniteSet(s.given)
    <3>1. s.given \subseteq 1..n - 1 /\ n - 1 \in Nat
      BY <1>0, <1>4
    <3> HIDE DEF n
    <3> QED BY <3>1, Positions
  <2>3. Cardinality(s.given \cup {n}) = Cardinality(s.given) + 1
    BY <2>1, <2>2, FS_AddElement
  <2> QED BY <1>2, <1>4, <2>3
<1>9. exchange = "topic" => \A i, j \in t.given : bindings[i].queue = bindings[j].queue => i = j
  BY <1>2, <1>6 DEF OnItsWay
<1>10. \A i \in Matched(exchange, bindings, t, t.next - 1) : HasCopy(exchange, bindings, t, i)
  BY <1>2, <1>4, <1>5, <1>6 DEF HasCopy
<1>11. t.bound <= Len(bindings) /\ t.next <= Len(bindings) + 1
  BY <1>0, <1>1, <1>2 DEF OnItsWay
<1> QED BY <1>1, <1>2, <1>3, <1>7, <1>8, <1>9, <1>10, <1>11 DEF OnItsWay

\* One call makes its step and the others stay where they are.
LEMMA CallStep ==
  ASSUME RoutingInv, NEW m \in DOMAIN sent, NEW t \in Calls,
         sent' = [sent EXCEPT ![m] = t], UNCHANGED <<exchange, bindings>>,
         OnItsWay(exchange, bindings, t)
  PROVE  RoutingInv'
<1>1. sent \in Seq(Calls) /\ DOMAIN sent' = DOMAIN sent
  BY DEF RoutingInv, RoutingTypeOK
<1>2. sent' \in Seq(Calls)
  BY <1>1
<1>3. \A k \in DOMAIN sent : sent'[k] = IF k = m THEN t ELSE sent[k]
  BY <1>1
<1>4. CallsKept'
  BY <1>1, <1>3 DEF RoutingInv, CallsKept
<1> QED BY <1>2, <1>4 DEF RoutingInv, RoutingTypeOK

LEMMA RoutingStep == ASSUME RoutingInv, [RoutingNext]_routingVars PROVE RoutingInv'
<1>0. /\ RoutingTypeOK /\ CallsKept /\ bindings \in Seq(Bindings) /\ sent \in Seq(Calls)
      /\ Len(bindings) \in Nat /\ Len(sent) \in Nat
  BY DEF RoutingInv, RoutingTypeOK
<1>1. CASE UNCHANGED routingVars
  BY <1>0, <1>1 DEF routingVars, RoutingInv, RoutingTypeOK, CallsKept
<1>2. ASSUME NEW q \in QueueNames, NEW arg \in Args, Bind(q, arg) PROVE RoutingInv'
  <2> PICK b \in Bindings : bindings' = Append(bindings, b)
    BY <1>2 DEF Bind, Bindings
  <2>1. UNCHANGED <<exchange, sent>>
    BY <1>2 DEF Bind
  <2>2. bindings' \in Seq(Bindings)
    BY <1>0
  <2>3. ASSUME NEW m \in DOMAIN sent PROVE OnItsWay(exchange, Append(bindings, b), sent[m])
    <3>1. sent[m] \in Calls /\ OnItsWay(exchange, bindings, sent[m])
      BY <1>0 DEF CallsKept
    <3> QED BY <1>0, <3>1, WayAfterBind
  <2>4. CallsKept'
    BY <2>1, <2>3 DEF CallsKept
  <2> QED BY <1>0, <2>1, <2>2, <2>4 DEF RoutingInv, RoutingTypeOK
<1>3. ASSUME NEW key \in RoutingKeys \cup {<<>>}, NEW headers \in HeaderSets \cup {<<>>},
             BeginPublish(key, headers)
      PROVE  RoutingInv'
  <2> DEFINE live == KeptPerKey => Matching([key |-> key, headers |-> headers], Len(bindings)) # {}
             new == [key |-> key, headers |-> headers, live |-> live, next |-> 1,
                     given |-> {}, delivered |-> 0, phase |-> "routing", returned |-> 0,
                     bound |-> Len(bindings), until |-> 0]
  <2>1. sent' = Append(sent, new) /\ UNCHANGED <<exchange, bindings>>
    BY <1>3 DEF BeginPublish
  <2>2. live \in BOOLEAN
    BY DEF KeptPerKey
  <2>3. ~live => Matched(exchange, bindings, new, Len(bindings)) = {}
    BY DEF Matching, Matched, Routes, RoutesOn
  <2> HIDE DEF live
  <2>4. new \in Calls
    BY <1>0, <2>2 DEF Calls
  <2>5. OnItsWay(exchange, bindings, new)
    <3>1. Matched(exchange, bindings, new, 0) = {}
      BY DEF Matched
    <3>2. /\ new.next = 1 /\ new.next - 1 = 0 /\ new.given = {} /\ new.delivered = 0
          /\ new.bound = Len(bindings) /\ new.live = live /\ new.phase = "routing"
      OBVIOUS
    <3> HIDE DEF new
    <3>3. /\ new.bound <= Len(bindings) /\ new.next <= Len(bindings) + 1
          /\ new.delivered = Cardinality(new.given)
      BY <1>0, <3>2, FS_EmptySet
    <3>4. ~new.live => Matched(exchange, bindings, new, new.bound) = {}
      BY <2>3, <3>2
    <3> QED BY <3>1, <3>2, <3>3, <3>4 DEF OnItsWay
  <2> HIDE DEF new
  <2>6. /\ sent' \in Seq(Calls) /\ DOMAIN sent' = 1..Len(sent) + 1
        /\ \A k \in 1..Len(sent) : sent'[k] = sent[k]
        /\ sent'[Len(sent) + 1] = new
    BY <1>0, <2>1, <2>4
  <2>7. ASSUME NEW k \in DOMAIN sent' PROVE OnItsWay(exchange, bindings, sent'[k])
    <3>1. k \in 1..Len(sent) \/ k = Len(sent) + 1
      BY <1>0, <2>6
    <3>2. DOMAIN sent = 1..Len(sent)
      BY <1>0
    <3> QED BY <1>0, <2>5, <2>6, <3>1, <3>2 DEF CallsKept
  <2> QED BY <1>0, <2>1, <2>6, <2>7 DEF RoutingInv, RoutingTypeOK, CallsKept
<1>4. ASSUME NEW m \in DOMAIN sent, RouteNext(m) \/ EndRouting(m) \/ ReturnFrom(m)
      PROVE  RoutingInv'
  <2> PICK s \in Calls : s = sent[m]
    BY <1>0
  <2>1. OnItsWay(exchange, bindings, s)
    BY <1>0 DEF CallsKept
  <2>2. CASE RouteNext(m)
    <3> DEFINE t == [s EXCEPT
               !.next = s.next + 1,
               !.given = IF Receives(s, s.next) THEN s.given \cup {s.next} ELSE s.given,
               !.delivered = IF Receives(s, s.next) THEN s.delivered + 1 ELSE s.delivered]
    <3>1. s.phase = "routing" /\ ~AtEnd(s) /\ UNCHANGED <<exchange, bindings>>
      BY <2>2 DEF RouteNext
    <3>2. sent' = [sent EXCEPT ![m] = t]
      BY <1>0, <2>2 DEF RouteNext
    <3>3. t \in Calls /\ OnItsWay(exchange, bindings, t)
      BY <1>0, <2>1, <3>1, WayAfterNext
    <3> HIDE DEF t
    <3> QED BY <3>1, <3>2, <3>3, CallStep
  <2>3. CASE EndRouting(m)
    <3> DEFINE t == [s EXCEPT !.phase = "leaving"]
    <3>1. s.phase = "routing" /\ AtEnd(s) /\ UNCHANGED <<exchange, bindings>>
          /\ sent' = [sent EXCEPT ![m] = t]
      BY <2>3 DEF EndRouting
    <3>2. t \in Calls
      BY DEF Calls
    <3>3. /\ t.next = s.next /\ t.live = s.live /\ t.phase = "leaving" /\ t.bound = s.bound
          /\ t.key = s.key /\ t.headers = s.headers /\ t.given = s.given
          /\ t.delivered = s.delivered
      BY DEF Calls
    <3>4. t.live => t.bound < t.next
      BY <1>0, <2>1, <3>1, <3>3 DEF AtEnd, OnItsWay, Calls
    <3> HIDE DEF t
    <3>5. OnItsWay(exchange, bindings, t)
      BY <2>1, <3>3, <3>4 DEF OnItsWay, Matched, HasCopy
    <3> QED BY <3>1, <3>2, <3>5, CallStep
  <2>4. CASE ReturnFrom(m)
    <3> DEFINE counted == IF exchange \in {"topic", "headers"} THEN s.delivered
                          ELSE IF s.live THEN Cardinality(Matching(s, Len(bindings))) ELSE 0
               t == [s EXCEPT !.phase = "done", !.until = Len(bindings), !.returned = counted]
    <3>1. s.phase = "leaving" /\ UNCHANGED <<exchange, bindings>>
          /\ sent' = [sent EXCEPT ![m] = t]
      BY <1>0, <2>4 DEF ReturnFrom
    <3>2. /\ Matching(s, Len(bindings)) = Matched(exchange, bindings, s, Len(bindings))
          /\ Matching(s, Len(bindings)) \subseteq 1..Len(bindings)
      BY MatchingIs DEF Matched
    <3>3. Cardinality(Matching(s, Len(bindings))) \in Nat
      BY <1>0, <3>2, Positions
    <3>4. counted \in Nat
      BY <3>3 DEF Calls
    <3>5. counted = IF exchange \in {"topic", "headers"} THEN s.delivered
                    ELSE IF s.live THEN Cardinality(Matched(exchange, bindings, s, Len(bindings)))
                    ELSE 0
      BY <3>2
    <3> HIDE DEF counted
    <3>6. t \in Calls
      BY <1>0, <3>4 DEF Calls
    <3>7. /\ t.next = s.next /\ t.live = s.live /\ t.phase = "done" /\ t.bound = s.bound
          /\ t.key = s.key /\ t.headers = s.headers /\ t.given = s.given
          /\ t.delivered = s.delivered /\ t.until = Len(bindings) /\ t.returned = counted
      BY DEF Calls
    <3> HIDE DEF t
    <3>8. \A n : Matched(exchange, bindings, t, n) = Matched(exchange, bindings, s, n)
      BY <3>7 DEF Matched
    <3>9. OnItsWay(exchange, bindings, t)
      BY <1>0, <2>1, <3>1, <3>5, <3>7, <3>8 DEF OnItsWay, HasCopy
    <3> QED BY <3>1, <3>6, <3>9, CallStep
  <2> QED BY <1>4, <2>2, <2>3, <2>4
<1>5. CASE Subscribe \/ BindQueue
  <2>1. BindingArgs \subseteq Args /\ RoutingKeys \subseteq Args
    BY <1>0 DEF BindingArgs, Args, RoutingTypeOK
  <2> QED BY <1>2, <1>5, <2>1 DEF Subscribe, BindQueue
<1>6. CASE PublishEvent \/ PublishMessage
  <2>1. UsedKeys \subseteq RoutingKeys \cup {<<>>} /\ UsedHeaders \subseteq HeaderSets \cup {<<>>}
    BY DEF UsedKeys, UsedHeaders
  <2> QED BY <1>3, <1>6, <2>1 DEF PublishEvent, PublishMessage
<1> QED BY <1>1, <1>4, <1>5, <1>6 DEF RoutingNext, PubSub, Exchanges, Publishing

-----------------------------------------------------------------------------
(* The topic and the assignment of its partitions *)

TopicTypeOK ==
  /\ partitions \in [PartitionIds ->
       Seq([by : Producing, key : TopicKeys, began : Nat, ended : Nat])]
  /\ sent_count \in [Producing -> Nat] /\ stored \in Nat
  /\ routed \in [Producing -> [partition : Nat, key : TopicKeys, began : Nat]]
  /\ members \in 0..Len(MembersInOrder)
  /\ assignments \in [1..Len(MembersInOrder) -> SUBSET PartitionIds]

\* A producer with a partition in hand has the one its key is for.
RoutedByKey ==
  \A c \in Producing :
    /\ routed[c] = NotRouted \/ routed[c].partition \in PartitionsFor(routed[c].key)
    /\ routed[c].began <= stored

\* A message is in the partition of its key, its send ended after it began, and the
\* sends of a partition ended in the order of its log.
StoredByKey ==
  \A p \in PartitionIds :
    /\ \A i \in 1..Len(partitions[p]) :
         /\ p \in PartitionsFor(partitions[p][i].key)
         /\ partitions[p][i].began < partitions[p][i].ended
         /\ partitions[p][i].ended <= stored
    /\ \A i, j \in 1..Len(partitions[p]) :
         i < j => partitions[p][i].ended < partitions[p][j].ended

AssignedByTurns ==
  members > 0 =>
    assignments = [i \in 1..Len(MembersInOrder) |->
      IF i <= members THEN {p \in PartitionIds : p % members = i - 1} ELSE {}]

TopicInv == TopicTypeOK /\ RoutedByKey /\ StoredByKey /\ AssignedByTurns

LEMMA TopicInitInv == ASSUME TopicInit PROVE TopicInv
<1> USE DEF TopicInit
<1>1. NotRouted \in [partition : Nat, key : TopicKeys, began : Nat] /\ NotRouted.began = 0
  BY TopicAssumption DEF NotRouted, TopicKeys
<1>2. TopicTypeOK
  BY <1>1, TopicAssumption DEF TopicTypeOK
<1> QED BY <1>1, <1>2 DEF TopicInv, RoutedByKey, StoredByKey, AssignedByTurns

\* Every key, and no key, has partitions of the topic to go to.
LEMMA PartitionsExist ==
  ASSUME NEW key \in TopicKeys
  PROVE  PartitionsFor(key) \subseteq PartitionIds /\ PartitionIds \subseteq Nat
<1>1. num_partitions \in Nat /\ num_partitions > 0
  BY TopicAssumption
<1>2. PartitionIds \subseteq Nat
  BY <1>1 DEF PartitionIds
<1>3. CASE key = KeyLess
  BY <1>2, <1>3 DEF PartitionsFor
<1>4. CASE key # KeyLess
  <2>1. KeyHash[key] \in Nat
    BY <1>4, TopicAssumption DEF TopicKeys
  <2>2. KeyHash[key] % num_partitions \in 0..(num_partitions - 1)
    BY <1>1, <2>1
  <2> QED BY <1>2, <1>4, <2>2 DEF PartitionsFor, PartitionIds
<1> QED BY <1>3, <1>4

\* Appending puts a message behind those whose sends have ended.
LEMMA AppendStep ==
  ASSUME TopicInv, NEW c \in Producing, AppendToPartition(c)
  PROVE  TopicInv'
<1> DEFINE KeyedMessages == [by : Producing, key : TopicKeys, began : Nat, ended : Nat]
           p == routed[c].partition
           m == [by |-> c, key |-> routed[c].key, began |-> routed[c].began, ended |-> stored + 1]
<1> USE DEF TopicInv
<1>1. /\ routed[c] # NotRouted
      /\ partitions' = [partitions EXCEPT ![p] = Append(partitions[p], m)]
      /\ sent_count' = [sent_count EXCEPT ![c] = sent_count[c] + 1]
      /\ stored' = stored + 1
      /\ routed' = [routed EXCEPT ![c] = NotRouted]
      /\ UNCHANGED <<members, assignments>>
  BY DEF AppendToPartition
<1>2. /\ routed[c].key \in TopicKeys /\ sent_count[c] \in Nat /\ stored \in Nat
      /\ p \in PartitionsFor(routed[c].key) /\ p \in PartitionIds
      /\ routed[c].began \in Nat /\ routed[c].began <= stored
  BY <1>1, PartitionsExist DEF RoutedByKey, TopicTypeOK
<1>3. m \in KeyedMessages /\ partitions[p] \in Seq(KeyedMessages)
  <2>1. stored + 1 \in Nat
    BY <1>2
  <2>2. m \in KeyedMessages
    BY <1>2, <2>1
  <2> HIDE DEF p, m
  <2> QED BY <1>2, <2>2 DEF TopicTypeOK
<1>4. NotRouted \in [partition : Nat, key : TopicKeys, began : Nat] /\ NotRouted.began = 0
  BY TopicAssumption DEF NotRouted, TopicKeys
<1>5. TopicTypeOK'
  <2> HIDE DEF p, m
  <2>1. Append(partitions[p], m) \in Seq(KeyedMessages)
    BY <1>3
  <2>2. partitions' \in [PartitionIds -> Seq(KeyedMessages)]
    BY <1>1, <2>1 DEF TopicTypeOK
  <2>3. sent_count' \in [Producing -> Nat]
    <3>1. sent_count[c] + 1 \in Nat
      BY <1>2
    <3> QED BY <1>1, <3>1 DEF TopicTypeOK
  <2>4. routed' \in [Producing -> [partition : Nat, key : TopicKeys, began : Nat]]
    BY <1>1, <1>4 DEF TopicTypeOK
  <2>5. stored' \in Nat
    BY <1>1, <1>2
  <2> HIDE DEF KeyedMessages
  <2>6. /\ members' \in 0..Len(MembersInOrder)
        /\ assignments' \in [1..Len(MembersInOrder) -> SUBSET PartitionIds]
    BY <1>1 DEF TopicTypeOK
  <2> QED BY <2>2, <2>3, <2>4, <2>5, <2>6 DEF TopicTypeOK, KeyedMessages
<1>6. RoutedByKey'
  <2>1. \A d \in Producing : routed'[d] = IF d = c THEN NotRouted ELSE routed[d]
    BY <1>1 DEF TopicTypeOK
  <2>2. \A d \in Producing : routed[d].began \in Nat /\ routed[d].began <= stored
    BY DEF RoutedByKey, TopicTypeOK
  <2>3. \A d \in Producing : routed'[d].began <= stored'
    BY <1>1, <1>2, <1>4, <2>1, <2>2
  <2>4. ASSUME NEW d \in Producing
        PROVE  routed'[d] = NotRouted \/ routed'[d].partition \in PartitionsFor(routed'[d].key)
    BY <2>1 DEF RoutedByKey
  <2> QED BY <2>3, <2>4 DEF RoutedByKey, PartitionsFor, PartitionIds
<1>7. AssignedByTurns'
  BY <1>1 DEF AssignedByTurns
<1>8. /\ partitions'[p] = Append(partitions[p], m)
      /\ \A q \in PartitionIds : q # p => partitions'[q] = partitions[q]
  BY <1>1, <1>2 DEF TopicTypeOK
<1> DEFINE n == Len(partitions[p])
<1>10. /\ n \in Nat /\ Len(partitions'[p]) = n + 1 /\ partitions'[p][n + 1] = m
       /\ \A i \in 1..n : partitions'[p][i] = partitions[p][i]
       /\ \A i \in 1..(n + 1) : i \in 1..n \/ i = n + 1
  <2> HIDE DEF m, p
  <2> QED BY <1>3, <1>8
<1>11. m.began < m.ended /\ m.ended = stored + 1 /\ p \in PartitionsFor(m.key)
  BY <1>2
<1>12. \A q \in PartitionIds : \A i \in 1..Len(partitions[q]) :
         /\ partitions[q][i].began \in Nat /\ partitions[q][i].ended \in Nat
         /\ q \in PartitionsFor(partitions[q][i].key)
         /\ partitions[q][i].began < partitions[q][i].ended
         /\ partitions[q][i].ended <= stored
  <2>1. ASSUME NEW q \in PartitionIds, NEW i \in 1..Len(partitions[q])
        PROVE  partitions[q][i].began \in Nat /\ partitions[q][i].ended \in Nat
    <3>1. partitions[q] \in Seq(KeyedMessages)
      BY DEF TopicTypeOK
    <3>2. partitions[q][i] \in KeyedMessages
      BY <3>1, ElementOfSeq
    <3> QED BY <3>2
  <2> QED BY <2>1 DEF StoredByKey
<1> HIDE DEF m, p, n
<1>13. ASSUME NEW q \in PartitionIds PROVE
        /\ \A i \in 1..Len(partitions'[q]) :
             /\ q \in PartitionsFor(partitions'[q][i].key)
             /\ partitions'[q][i].began < partitions'[q][i].ended
             /\ partitions'[q][i].ended <= stored'
        /\ \A i, j \in 1..Len(partitions'[q]) :
             i < j => partitions'[q][i].ended < partitions'[q][j].ended
  <2>1. CASE q # p
    <3>1. partitions'[q] = partitions[q]
      BY <1>8, <2>1
    <3>2. \A i \in 1..Len(partitions[q]) : partitions[q][i].ended <= stored'
      BY <1>1, <1>2, <1>12
    <3> QED BY <1>12, <3>1, <3>2 DEF StoredByKey
  <2>2. CASE q = p
    <3>1. ASSUME NEW i \in 1..Len(partitions'[p]) PROVE
            /\ p \in PartitionsFor(partitions'[p][i].key)
            /\ partitions'[p][i].began < partitions'[p][i].ended
            /\ partitions'[p][i].ended <= stored'
      <4>1. CASE i \in 1..n
        BY <1>1, <1>2, <1>10, <1>12, <4>1 DEF n
      <4>2. CASE i = n + 1
        BY <1>1, <1>2, <1>10, <1>11, <4>2
      <4> QED BY <1>10, <4>1, <4>2
    <3>2. ASSUME NEW i \in 1..Len(partitions'[p]), NEW j \in 1..Len(partitions'[p]), i < j
          PROVE  partitions'[p][i].ended < partitions'[p][j].ended
      <4>1. i \in 1..n
        BY <1>10, <3>2
      <4>2. CASE j \in 1..n
        BY <1>2, <1>10, <3>2, <4>1, <4>2 DEF n, StoredByKey
      <4>3. CASE j = n + 1
        <5>1. partitions[p][i].ended \in Nat /\ partitions[p][i].ended <= stored
          BY <1>2, <1>12, <4>1 DEF n
        <5>2. partitions'[p][i] = partitions[p][i] /\ partitions'[p][j] = m
          BY <1>10, <4>1, <4>3
        <5> QED BY <1>2, <1>11, <5>1, <5>2
      <4> QED BY <1>10, <4>2, <4>3
    <3> QED BY <2>2, <3>1, <3>2
  <2> QED BY <2>1, <2>2
<1>14. StoredByKey'
  BY <1>13 DEF StoredByKey, PartitionsFor, PartitionIds
<1> QED BY <1>5, <1>6, <1>7, <1>14

LEMMA TopicStep == ASSUME TopicInv, [TopicNext]_topicVars PROVE TopicInv'
<1> USE DEF TopicInv
<1>1. CASE UNCHANGED topicVars
  BY <1>1 DEF topicVars, TopicTypeOK, RoutedByKey, StoredByKey, AssignedByTurns
<1>2. ASSUME NEW c \in Producing, GetPartition(c) PROVE TopicInv'
  <2>0. PICK key \in TopicKeys : \E p \in PartitionsFor(key) :
          routed' = [routed EXCEPT ![c] = [partition |-> p, key |-> key, began |-> stored]]
    BY <1>2 DEF GetPartition
  <2>1. PICK p \in PartitionsFor(key) :
          routed' = [routed EXCEPT ![c] = [partition |-> p, key |-> key, began |-> stored]]
    BY <2>0
  <2>2. UNCHANGED <<partitions, sent_count, stored, members, assignments>>
    BY <1>2 DEF GetPartition
  <2>3. p \in Nat
    BY PartitionsExist
  <2>4. TopicTypeOK'
    BY <2>1, <2>2, <2>3 DEF TopicTypeOK
  <2>5. RoutedByKey'
    <3>1. \A d \in Producing :
            routed'[d] = IF d = c THEN [partition |-> p, key |-> key, began |-> stored]
                                  ELSE routed[d]
      BY <2>1 DEF TopicTypeOK
    <3>2. PartitionsFor(key)' = PartitionsFor(key) /\ stored' = stored /\ stored \in Nat
      BY <2>2 DEF TopicTypeOK, PartitionsFor, PartitionIds
    <3>3. \A d \in Producing : routed'[d].began <= stored
      BY <3>1, <3>2 DEF RoutedByKey
    <3>4. ASSUME NEW d \in Producing
          PROVE  routed'[d] = NotRouted \/ routed'[d].partition \in PartitionsFor(routed'[d].key)
      BY <3>1 DEF RoutedByKey
    <3> QED BY <3>2, <3>3, <3>4 DEF RoutedByKey, PartitionsFor, PartitionIds
  <2>6. StoredByKey' /\ AssignedByTurns'
    BY <2>2 DEF StoredByKey, AssignedByTurns
  <2> QED BY <2>4, <2>5, <2>6
<1>3. ASSUME NEW n \in 1..Len(MembersInOrder), AssignPartitions(n) PROVE TopicInv'
  <2>1. /\ members' = n
        /\ assignments' = [i \in 1..Len(MembersInOrder) |->
             IF i <= n THEN {p \in PartitionIds : p % n = i - 1} ELSE {}]
        /\ UNCHANGED <<partitions, sent_count, stored, routed>>
    BY <1>3 DEF AssignPartitions
  <2>2. AssignedByTurns'
    BY <2>1 DEF AssignedByTurns
  <2>3. TopicTypeOK'
    <3>1. members' \in 0..Len(MembersInOrder)
      BY <2>1, TopicAssumption
    <3>2. assignments' \in [1..Len(MembersInOrder) -> SUBSET PartitionIds]
      BY <2>1
    <3> QED BY <2>1, <3>1, <3>2 DEF TopicTypeOK
  <2>4. RoutedByKey' /\ StoredByKey'
    BY <2>1 DEF RoutedByKey, StoredByKey
  <2> QED BY <2>2, <2>3, <2>4
<1> QED BY <1>1, <1>2, <1>3, AppendStep DEF TopicNext, SendKeyed

\* There is one number with a given remainder in every stretch of n.
LEMMA SameRemainder ==
  ASSUME NEW n \in Nat, n > 0, NEW p \in Nat, NEW d \in Int, p + d \in Nat,
         (p % n) + d \in 0..(n - 1)
  PROVE  (p + d) % n = (p % n) + d
<1> DEFINE q == p \div n
           r == p % n
<1>1. q \in Nat /\ r \in Nat /\ p = n * q + r
  OBVIOUS
<1> HIDE DEF q, r
<1>2. p + d = n * q + (r + d) /\ r + d \in 0..(n - 1)
  BY <1>1 DEF r
<1>3. (n * q + (r + d)) % n = r + d
  BY <1>1, <1>2
<1> QED BY <1>1, <1>2, <1>3 DEF r

\* Taking turns gives no member more than one partition over another's.
LEMMA EvenTurns ==
  ASSUME NEW n \in Nat, n > 0, NEW i \in 1..n, NEW j \in 1..n, NEW N \in Nat
  PROVE  Cardinality({p \in 0..(N - 1) : p % n = i - 1})
           <= Cardinality({p \in 0..(N - 1) : p % n = j - 1}) + 1
<1> DEFINE A == {p \in 0..(N - 1) : p % n = i - 1}
           B == {p \in 0..(N - 1) : p % n = j - 1}
<1>1. /\ IsFiniteSet(A) /\ IsFiniteSet(B)
      /\ Cardinality(A) \in Nat /\ Cardinality(B) \in Nat
  <2>1. IsFiniteSet(0..(N - 1))
    BY FS_Interval
  <2>2. A \subseteq 0..(N - 1) /\ B \subseteq 0..(N - 1)
    OBVIOUS
  <2> HIDE DEF A, B
  <2> QED BY <2>1, <2>2, FS_Subset, FS_CardinalityType
<1>2. CASE j <= i
  <2> DEFINE f == [p \in A |-> p + (j - i)]
  <2>1. ASSUME NEW p \in A PROVE f[p] \in B
    <3>1. p \in Nat /\ p % n = i - 1 /\ p <= N - 1
      OBVIOUS
    <3>2. p % n <= p
      BY <3>1
    <3>3. p + (j - i) \in Nat /\ (p % n) + (j - i) \in 0..(n - 1) /\ p + (j - i) <= N - 1
      BY <1>2, <3>1, <3>2
    <3>4. (p + (j - i)) % n = (p % n) + (j - i)
      BY <3>1, <3>3, SameRemainder
    <3>5. (p + (j - i)) % n = j - 1
      BY <3>1, <3>4
    <3> QED BY <3>3, <3>5
  <2>2. f \in Injection(A, B)
    <3>1. \A p, q \in A : f[p] = f[q] => p = q
      OBVIOUS
    <3> HIDE DEF A, B
    <3>2. f \in [A -> B]
      BY <2>1
    <3> QED BY <3>1, <3>2 DEF Injection, IsInjective
  <2> HIDE DEF A, B, f
  <2>3. Cardinality(A) <= Cardinality(B)
    BY <1>1, <2>2, FS_Injection
  <2> QED BY <1>1, <2>3 DEF A, B
<1>3. CASE i < j
  <2> DEFINE C == A \ {i - 1}
             f == [p \in C |-> p + (j - i - n)]
  <2>1. ASSUME NEW p \in C PROVE f[p] \in B
    <3>1. p \in Nat /\ p % n = i - 1 /\ p <= N - 1 /\ p # i - 1
      OBVIOUS
    <3>2. p >= n
      <4>1. CASE p < n
        <5>1. p % n = p
          BY <3>1, <4>1
        <5> QED BY <3>1, <5>1
      <4> QED BY <3>1, <4>1
    <3>3. p + (j - i - n) \in Nat /\ p + (j - i - n) <= N - 1
      BY <1>3, <3>1, <3>2
    <3>4. (p - n) % n = p % n /\ p - n \in Nat
      <4> DEFINE q == p \div n
                 r == p % n
      <4>1. q \in Nat /\ r \in 0..(n - 1) /\ p = n * q + r
        BY <3>1
      <4> HIDE DEF q, r
      <4>2. p - n = n * (q - 1) + r /\ p - n \in Nat
        BY <3>1, <3>2, <4>1
      <4>3. (n * (q - 1) + r) % n = r
        BY <4>1, <4>2
      <4> QED BY <4>2, <4>3 DEF r
    <3>5. ((p - n) % n) + (j - i) \in 0..(n - 1) /\ (p - n) + (j - i) \in Nat
      BY <1>3, <3>1, <3>4
    <3>6. ((p - n) + (j - i)) % n = ((p - n) % n) + (j - i)
      BY <3>4, <3>5, SameRemainder
    <3>7. p + (j - i - n) = (p - n) + (j - i)
      BY <3>1
    <3>8. (p + (j - i - n)) % n = j - 1
      BY <3>1, <3>4, <3>6, <3>7
    <3> QED BY <3>3, <3>8
  <2>2. f \in Injection(C, B)
    <3>1. \A p, q \in C : f[p] = f[q] => p = q
      OBVIOUS
    <3> HIDE DEF A, B, C
    <3>2. f \in [C -> B]
      BY <2>1
    <3> QED BY <3>1, <3>2 DEF Injection, IsInjective
  <2>3. IsFiniteSet(C) /\ Cardinality(A) <= Cardinality(C) + 1 /\ Cardinality(C) \in Nat
    <3> HIDE DEF A
    <3>1. CASE i - 1 \in A
      <4>1. IsFiniteSet(C) /\ Cardinality(C) = Cardinality(A) - 1
        BY <1>1, <3>1, FS_RemoveElement
      <4> HIDE DEF C
      <4>2. Cardinality(C) \in Nat
        BY <4>1, FS_CardinalityType
      <4> QED BY <1>1, <4>1, <4>2
    <3>2. CASE i - 1 \notin A
      <4>1. C = A
        BY <3>2
      <4> QED BY <1>1, <4>1
    <3> QED BY <3>1, <3>2
  <2> HIDE DEF A, B, C, f
  <2>4. Cardinality(C) <= Cardinality(B)
    BY <1>1, <2>2, FS_Injection
  <2>5. Cardinality(A) <= Cardinality(B) + 1
    BY <1>1, <2>3, <2>4
  <2> QED BY <2>5 DEF A, B
<1> QED BY <1>2, <1>3

LEMMA TopicInvHolds == ASSUME TopicInv PROVE OrderPerKey
<1> USE DEF TopicInv
<1>1. ASSUME NEW p \in PartitionIds, NEW q \in PartitionIds,
             NEW i \in DOMAIN partitions[p], NEW j \in DOMAIN partitions[q],
             partitions[p][i].key = partitions[q][j].key, partitions[p][i].key # KeyLess
      PROVE  p = q /\ (partitions[p][i].ended <= partitions[q][j].began => i < j)
  <2>1. DOMAIN partitions[p] = 1..Len(partitions[p]) /\ DOMAIN partitions[q] = 1..Len(partitions[q])
    BY DEF TopicTypeOK
  <2>2. p = q
    BY <1>1, <2>1 DEF StoredByKey, PartitionsFor
  <2> DEFINE a == partitions[p][i]
             b == partitions[p][j]
  <2>3. /\ i \in 1..Len(partitions[p]) /\ j \in 1..Len(partitions[p])
        /\ a.ended \in Nat /\ b.began \in Nat /\ b.ended \in Nat
    <3>1. partitions[p] \in Seq([by : Producing, key : TopicKeys, began : Nat, ended : Nat])
      BY DEF TopicTypeOK
    <3>2. /\ a \in [by : Producing, key : TopicKeys, began : Nat, ended : Nat]
          /\ b \in [by : Producing, key : TopicKeys, began : Nat, ended : Nat]
      BY <2>1, <2>2, <3>1, ElementOfSeq
    <3> QED BY <2>1, <2>2, <3>2
  <2>4. b.began < b.ended /\ (j < i => b.ended < a.ended)
    BY <2>3 DEF StoredByKey
  <2> HIDE DEF a, b
  <2>5. a.ended <= b.began => i # j /\ ~(j < i)
    BY <2>3, <2>4 DEF a, b
  <2>6. i \in Int /\ j \in Int
    BY <2>3
  <2> QED BY <2>2, <2>5, <2>6 DEF a, b
<1>2. ASSUME members > 0
      PROVE  /\ \A p \in PartitionIds : Cardinality({i \in DOMAIN assignments : p \in assignments[i]}) = 1
             /\ \A i, j \in 1..members :
                  Cardinality(assignments[i]) <= Cardinality(assignments[j]) + 1
  <2>1. /\ members \in Nat /\ members <= Len(MembersInOrder) /\ Len(MembersInOrder) \in Nat
        /\ num_partitions \in Nat
    BY TopicAssumption DEF TopicTypeOK
  <2>2. assignments = [i \in 1..Len(MembersInOrder) |->
          IF i <= members THEN {p \in PartitionIds : p % members = i - 1} ELSE {}]
    BY <1>2 DEF AssignedByTurns
  <2>3. \A i \in 1..members : assignments[i] = {p \in 0..(num_partitions - 1) : p % members = i - 1}
    BY <2>1, <2>2 DEF PartitionIds
  <2>4. ASSUME NEW p \in PartitionIds
        PROVE  Cardinality({i \in DOMAIN assignments : p \in assignments[i]}) = 1
    <3>1. p \in Nat
      BY <2>1 DEF PartitionIds
    <3>2. p % members \in 0..(members - 1)
      BY <1>2, <2>1, <3>1
    <3> DEFINE r == p % members
    <3>3. r + 1 \in 1..members /\ r + 1 \in 1..Len(MembersInOrder)
      BY <1>2, <2>1, <3>2
    <3>4. \A i \in 1..Len(MembersInOrder) : p \in assignments[i] <=> i <= members /\ r = i - 1
      BY <2>2
    <3> HIDE DEF r
    <3>5. r \in Nat
      BY <3>2, <2>1, <1>2 DEF r
    <3>6. {i \in DOMAIN assignments : p \in assignments[i]} = {r + 1}
      BY <2>1, <2>2, <3>3, <3>4, <3>5
    <3> QED BY <3>6, FS_Singleton
  <2>5. ASSUME NEW i \in 1..members, NEW j \in 1..members
        PROVE  Cardinality(assignments[i]) <= Cardinality(assignments[j]) + 1
    <3>1. Cardinality({p \in 0..(num_partitions - 1) : p % members = i - 1})
            <= Cardinality({p \in 0..(num_partitions - 1) : p % members = j - 1}) + 1
      BY <1>2, <2>1, EvenTurns
    <3> QED BY <2>3, <3>1
  <2> QED BY <2>4, <2>5
<1> QED BY <1>1, <1>2 DEF OrderPerKey

\* Whatever is bound, published or assigned in the course of a publish: it passes over no
\* binding that was there when it was called and matches, and puts nothing through others;
\* a topic exchange gives a queue at most one copy; and the messages of a key keep their
\* partition and, as far as their sends do not overlap, their order.
THEOREM MessagesGoWhereBound == Spec => []GoWhereBound
<1> DEFINE Kept == RoutingInv /\ TopicInv
<1>1. Init => Kept
  BY RoutingInitInv, TopicInitInv DEF Init
<1>2. Kept /\ [Next]_mcVars => Kept'
  BY OneSystemSteps, RoutingStep, TopicStep
<1>3. Kept => GoWhereBound
  BY TopicInvHolds, RoutedRightly DEF GoWhereBound
<1> HIDE DEF Kept
<1> QED BY <1>1, <1>2, <1>3, PTL DEF Spec

-----------------------------------------------------------------------------
(* The log of a partition and its consumer group *)

Records(n) == [offset : 0..n - 1, key : Keys \cup {NoKey}]

\* Offsets grow along the log, and are the positions until something is compacted.
LogOrdered ==
  /\ \A i, j \in 1..Len(log) : i < j => log[i].offset < log[j].offset
  /\ Len(log) <= next_offset
  /\ ~Compacted => \A i \in 1..Len(log) : log[i].offset = i - 1

\* All in front of what a poll is to fetch, or to handle, has been with a handler,
\* and what it has fetched is a stretch of offsets.
BatchFollows(c) ==
  /\ polling[c] = "fetching" => 0..from_offset[c] - 1 \subseteq seen
  /\ polling[c] \in {"handling", "committing"} =>
       \A i \in 1..Len(batch[c]) :
         /\ batch[c][i].offset = batch[c][1].offset + (i - 1)
         /\ 0..batch[c][1].offset - 1 \subseteq seen

CommitsAcked ==
  \A c \in Pollers : polling[c] = "committing" => batch[c] # <<>> /\ batch[c][1].offset \in acked

KafkaInv ==
  /\ KafkaTypeOK /\ LogOrdered /\ CommitsAcked /\ CommitFollowsWork
  /\ ~Compacted => \A c \in Pollers : BatchFollows(c)

\* What the type invariant says, field by field.
LEMMA KafkaTyped ==
  KafkaTypeOK <=>
    /\ next_offset \in 0..MaxOffset
    /\ log \in Seq(Records(next_offset))
    /\ committed \in 0..next_offset
    /\ owner \in Pollers
    /\ polling \in [Pollers -> {"idle", "fetching", "handling", "committing"}]
    /\ from_offset \in [Pollers -> 0..next_offset]
    /\ batch \in [Pollers -> Seq(Records(next_offset))]
    /\ acked \subseteq seen
    /\ seen \subseteq 0..next_offset - 1
    /\ rebalances \in 0..MaxRebalances
    /\ nacks \in 0..MaxNacks
BY DEF KafkaTypeOK, Records

LEMMA KafkaBounds ==
  /\ MaxOffset \in Nat /\ max_records \in Nat /\ MaxRebalances \in Nat /\ MaxNacks \in Nat
  /\ KafkaTypeOK => next_offset \in Nat /\ rebalances \in Nat /\ nacks \in Nat
BY KafkaAssumption DEF KafkaTypeOK

LEMMA KafkaInitInv == ASSUME KafkaInit PROVE KafkaInv
<1> USE DEF KafkaInit
<1>0. MaxOffset \in Nat /\ MaxRebalances \in Nat /\ MaxNacks \in Nat
  BY KafkaAssumption
<1>1. KafkaTypeOK
  BY <1>0 DEF KafkaTypeOK
<1>2. LogOrdered
  BY DEF LogOrdered
<1>3. CommitsAcked /\ CommitFollowsWork
  BY DEF CommitsAcked, CommitFollowsWork
<1>4. \A c \in Pollers : BatchFollows(c)
  BY DEF BatchFollows
<1> QED BY <1>1, <1>2, <1>3, <1>4 DEF KafkaInv

\* A record of a log is one of a longer log.
LEMMA RecordsGrow ==
  ASSUME NEW n \in Nat, NEW s, s \in Seq(Records(n))
  PROVE  s \in Seq(Records(n + 1))
<1>1. Records(n) \subseteq Records(n + 1)
  BY DEF Records
<1>2. \A i \in 1..Len(s) : s[i] \in Records(n)
  BY ElementOfSeq
<1>3. s \in [1..Len(s) -> Records(n + 1)] /\ Len(s) \in Nat
  BY <1>1, <1>2
<1> QED BY <1>3, SeqDef

\* Appending keeps offsets and positions together.
LEMMA ProduceStep ==
  ASSUME KafkaInv, NEW k \in Keys \cup {NoKey}, Produce(k)
  PROVE  KafkaInv'
<1> DEFINE r == [offset |-> next_offset, key |-> k]
           n == next_offset
<1>1. /\ n < MaxOffset /\ log' = Append(log, r) /\ next_offset' = n + 1
      /\ UNCHANGED <<committed, owner, polling, from_offset, batch, acked, seen, rebalances, nacks>>
  BY DEF Produce, pollVars
<1>2. /\ n \in Nat /\ MaxOffset \in Nat
      /\ log \in Seq(Records(n)) /\ batch \in [Pollers -> Seq(Records(n))]
      /\ n + 1 \in 0..MaxOffset
  BY <1>1, KafkaTyped, KafkaAssumption DEF KafkaInv
<1>3. r \in Records(n + 1) /\ log \in Seq(Records(n + 1))
  <2>1. n \in 0..(n + 1) - 1
    BY <1>2
  <2>2. log \in Seq(Records(n + 1))
    BY <1>2, RecordsGrow
  <2> QED BY <2>1, <2>2 DEF Records
<1>4. batch \in [Pollers -> Seq(Records(n + 1))]
  <2>1. \A c \in Pollers : batch[c] \in Seq(Records(n + 1))
    BY <1>2, RecordsGrow
  <2> QED BY <1>2, <2>1
<1> HIDE DEF r
<1>5. log' \in Seq(Records(n + 1))
  BY <1>1, <1>3
<1>6. KafkaTypeOK'
  <2>1. KafkaTypeOK
    BY DEF KafkaInv
  <2>2. /\ committed \in 0..n + 1 /\ from_offset \in [Pollers -> 0..n + 1]
        /\ seen \subseteq 0..(n + 1) - 1
    BY <1>2, <2>1 DEF KafkaTypeOK
  <2>3. log' \in Seq([offset : 0..next_offset' - 1, key : Keys \cup {NoKey}])
    BY <1>1, <1>5 DEF Records
  <2>4. batch' \in [Pollers -> Seq([offset : 0..next_offset' - 1, key : Keys \cup {NoKey}])]
    BY <1>1, <1>4 DEF Records
  <2> QED BY <1>1, <1>2, <2>1, <2>2, <2>3, <2>4 DEF KafkaTypeOK
<1>7. /\ Len(log') = Len(log) + 1 /\ Len(log) \in Nat
      /\ log'[Len(log) + 1] = r /\ r.offset = n
      /\ \A i \in 1..Len(log) : log'[i] = log[i] /\ log[i].offset \in 0..n - 1
  <2>1. \A i \in 1..Len(log) : log[i] \in Records(n)
    BY <1>2, ElementOfSeq
  <2> QED BY <1>1, <1>2, <1>3, <2>1 DEF Records, r
<1>8. Compacted' <=> Compacted
  BY <1>1, <1>2, <1>7 DEF Compacted
<1>9. LogOrdered'
  <2>1. ASSUME NEW i \in 1..Len(log'), NEW j \in 1..Len(log'), i < j
        PROVE  log'[i].offset < log'[j].offset
    <3>1. i \in 1..Len(log) /\ (j \in 1..Len(log) \/ j = Len(log) + 1)
      BY <1>7, <2>1
    <3> QED BY <1>2, <1>7, <2>1, <3>1 DEF KafkaInv, LogOrdered
  <2>2. Len(log') <= next_offset'
    BY <1>1, <1>2, <1>7 DEF KafkaInv, LogOrdered
  <2>3. ASSUME ~Compacted', NEW i \in 1..Len(log') PROVE log'[i].offset = i - 1
    <3>1. Len(log) = n
      BY <1>2, <1>7, <1>8, <2>3 DEF Compacted, KafkaInv, LogOrdered
    <3>2. i \in 1..Len(log) \/ i = Len(log) + 1
      BY <1>7
    <3>3. i \in 1..Len(log) => log[i].offset = i - 1 /\ log'[i] = log[i]
      BY <1>7, <1>8, <2>3 DEF KafkaInv, LogOrdered
    <3>4. log'[Len(log) + 1].offset = (Len(log) + 1) - 1
      BY <1>2, <1>7, <3>1
    <3> QED BY <3>2, <3>3, <3>4
  <2> QED BY <2>1, <2>2, <2>3 DEF LogOrdered
<1>10. CommitsAcked' /\ CommitFollowsWork'
  BY <1>1, <1>8 DEF KafkaInv, CommitsAcked, CommitFollowsWork
<1>11. ~Compacted' => \A c \in Pollers : BatchFollows(c)'
  BY <1>1, <1>8 DEF KafkaInv, BatchFollows
<1> QED BY <1>6, <1>9, <1>10, <1>11 DEF KafkaInv

LEMMA UpTo ==
  ASSUME NEW n \in Nat
  PROVE  IsFiniteSet(1..n) /\ Cardinality(1..n) = n
BY FS_Interval

\* Compaction leaves some of the records, in their order, and fewer than there were.
LEMMA KeepOnlyStep ==
  ASSUME KafkaInv, NEW kept, kept \subseteq DOMAIN log, KeepOnly(kept)
  PROVE  KafkaInv'
<1> DEFINE n == Cardinality(kept)
           recs == Records(next_offset)
<1>1. PICK index \in [1..n -> kept] :
        /\ \A i, j \in DOMAIN index : i < j => index[i] < index[j]
        /\ log' = [i \in DOMAIN index |-> log[index[i]]]
  BY DEF KeepOnly
<1>2. /\ kept # DOMAIN log
      /\ UNCHANGED <<next_offset, committed, owner, polling, from_offset, batch, acked, seen,
                     rebalances, nacks>>
  BY DEF KeepOnly, pollVars
<1>3. log \in Seq(recs) /\ DOMAIN log = 1..Len(log) /\ Len(log) \in Nat /\ next_offset \in Nat
      /\ KafkaTypeOK
  BY KafkaTyped, KafkaAssumption DEF KafkaInv
<1>4. n \in Nat /\ n < Len(log)
  <2>1. IsFiniteSet(1..Len(log)) /\ Cardinality(1..Len(log)) = Len(log)
    BY <1>3, UpTo
  <2>2. n <= Len(log) /\ n \in Nat /\ n # Len(log)
    BY <1>2, <1>3, <2>1, FS_Subset, FS_CardinalityType
  <2> QED BY <1>3, <2>2
<1>5. \A i \in 1..n : index[i] \in 1..Len(log)
  BY <1>1, <1>3
<1>6. log' \in Seq(recs) /\ Len(log') = n
  <2>1. \A i \in 1..Len(log) : log[i] \in recs
    BY <1>3, ElementOfSeq
  <2> HIDE DEF n, recs
  <2>2. log' \in [1..n -> recs]
    BY <1>1, <1>5, <2>1
  <2>3. log' \in Seq(recs) /\ DOMAIN log' = 1..n
    BY <1>4, <2>2, SeqDef
  <2>4. Len(log') \in Nat /\ 1..n = 1..Len(log')
    BY <2>3
  <2> QED BY <1>4, <2>3, <2>4
<1>7. \A i \in 1..n : log'[i] = log[index[i]]
  BY <1>1
<1>8. KafkaTypeOK'
  BY <1>2, <1>3, <1>6 DEF KafkaTypeOK, Records
<1>9. Compacted'
  BY <1>2, <1>3, <1>4, <1>6 DEF Compacted, KafkaInv, LogOrdered
<1>10. LogOrdered'
  <2>1. ASSUME NEW i \in 1..n, NEW j \in 1..n, i < j PROVE log'[i].offset < log'[j].offset
    BY <1>1, <1>5, <1>7, <2>1 DEF KafkaInv, LogOrdered
  <2>2. Len(log') <= next_offset'
    BY <1>2, <1>3, <1>4, <1>6 DEF KafkaInv, LogOrdered
  <2> QED BY <1>6, <1>9, <2>1, <2>2 DEF LogOrdered
<1>11. CommitsAcked' /\ CommitFollowsWork'
  BY <1>2, <1>9 DEF KafkaInv, CommitsAcked, CommitFollowsWork
<1> QED BY <1>8, <1>9, <1>10, <1>11 DEF KafkaInv

\* What a fetch returns begins at the committed offset, as long as nothing has
\* been compacted.
LEMMA SliceIs ==
  ASSUME NEW s, NEW S, s \in Seq(S), NEW first \in Nat, NEW max \in Nat
  PROVE  LET last == IF first + max < Len(s) THEN first + max ELSE Len(s)
             part == SubSeq(s, first + 1, last)
         IN  /\ part \in Seq(S)
             /\ \A i \in 1..Len(part) : first + i \in 1..Len(s) /\ part[i] = s[first + i]
<1> DEFINE last == IF first + max < Len(s) THEN first + max ELSE Len(s)
           m == first + 1
<1>1. m \in Int /\ last \in Int /\ Len(s) \in Nat /\ last <= Len(s) /\ m >= 1
  OBVIOUS
<1>2. \A i \in m..last : i \in 1..Len(s) /\ s[i] \in S
  BY <1>1
<1>3. m + 0 = first + 1
  OBVIOUS
<1> HIDE DEF last, m
<1> DEFINE part == SubSeq(s, m, last)
<1>4. /\ part \in Seq(S) /\ Len(part) = IF m <= last THEN last - m + 1 ELSE 0
      /\ \A i \in 1..last - m + 1 : part[i] = s[m + i - 1]
  BY <1>1, <1>2, SubSeqProperties
<1> HIDE DEF part
<1>5. ASSUME NEW i \in 1..Len(part) PROVE first + i \in 1..Len(s) /\ part[i] = s[first + i]
  <2>1. m <= last /\ Len(part) = last - m + 1
    BY <1>1, <1>4
  <2>2. i \in 1..last - m + 1 /\ m + i - 1 = first + i /\ first + i >= 1 /\ first + i <= last
    BY <1>1, <1>3, <2>1
  <2>3. part[i] = s[m + i - 1]
    BY <1>4, <2>2
  <2>4. first + i \in 1..Len(s)
    BY <1>1, <2>2
  <2> QED BY <2>2, <2>3, <2>4
<1> QED BY <1>4, <1>5 DEF part, m, last

LEMMA FetchStep ==
  ASSUME KafkaInv, NEW c \in Pollers, Fetch(c)
  PROVE  KafkaInv'
<1> DEFINE recs == Records(next_offset)
           first == from_offset[c]
           part == Slice(first)
<1>1. /\ polling[c] = "fetching" /\ batch' = [batch EXCEPT ![c] = part]
      /\ polling' = [polling EXCEPT ![c] = "handling"]
      /\ UNCHANGED <<log, next_offset, committed, owner, from_offset, acked, seen, rebalances, nacks>>
  BY DEF Fetch, logVars
<1>2. /\ log \in Seq(recs) /\ next_offset \in Nat /\ first \in Nat /\ max_records \in Nat
      /\ polling \in [Pollers -> {"idle", "fetching", "handling", "committing"}]
      /\ batch \in [Pollers -> Seq(recs)] /\ KafkaTypeOK
  BY KafkaTyped, KafkaAssumption DEF KafkaInv
<1>3. part \in Seq(recs) /\ \A i \in 1..Len(part) : first + i \in 1..Len(log) /\ part[i] = log[first + i]
  <2> HIDE DEF recs, first
  <2> QED BY <1>2, SliceIs DEF Slice
<1> HIDE DEF part
<1>4. KafkaTypeOK'
  <2>1. batch' \in [Pollers -> Seq(recs)]
    BY <1>1, <1>2, <1>3
  <2> QED BY <1>1, <1>2, <2>1 DEF KafkaTypeOK, Records
<1>5. LogOrdered' /\ CommitFollowsWork' /\ (Compacted' <=> Compacted)
  BY <1>1 DEF KafkaInv, LogOrdered, CommitFollowsWork, Compacted
<1>6. CommitsAcked'
  BY <1>1, <1>2 DEF KafkaInv, CommitsAcked
<1>7. ASSUME ~Compacted, NEW d \in Pollers PROVE BatchFollows(d)'
  <2>1. BatchFollows(d)
    BY <1>7 DEF KafkaInv
  <2>2. CASE d # c
    BY <1>1, <1>2, <2>1, <2>2 DEF BatchFollows
  <2>3. CASE d = c
    <3>1. 0..first - 1 \subseteq seen /\ \A i \in 1..Len(log) : log[i].offset = i - 1
      BY <1>1, <1>7, <2>1, <2>3 DEF BatchFollows, KafkaInv, LogOrdered
    <3>2. batch'[c] = part /\ polling'[c] = "handling" /\ seen' = seen
      BY <1>1, <1>2
    <3>3. ASSUME NEW i \in 1..Len(part)
          PROVE  /\ part[i].offset = part[1].offset + (i - 1)
                 /\ 0..part[1].offset - 1 \subseteq seen
      <4>1. Len(part) \in Nat /\ 1 \in 1..Len(part)
        BY <1>3
      <4>2. part[i].offset = (first + i) - 1 /\ part[1].offset = (first + 1) - 1
        BY <1>3, <3>1, <4>1
      <4>3. part[1].offset = first
        BY <1>2, <4>2
      <4>4. (first + i) - 1 = first + (i - 1)
        <5> HIDE DEF first
        <5> QED BY <1>2, <4>1
      <4>5. 0..part[1].offset - 1 \subseteq seen
        BY <3>1, <4>3
      <4> QED BY <4>2, <4>3, <4>4, <4>5
    <3> QED BY <2>3, <3>2, <3>3 DEF BatchFollows
  <2> QED BY <2>2, <2>3
<1> QED BY <1>4, <1>5, <1>6, <1>7 DEF KafkaInv

\* What is left of a batch once its head is dealt with.
LEMMA TailIs ==
  ASSUME NEW s, NEW S, s \in Seq(S), s # <<>>
  PROVE  /\ Tail(s) \in Seq(S) /\ Len(Tail(s)) = Len(s) - 1 /\ Len(s) \in Nat \ {0}
         /\ \A i \in 1..Len(Tail(s)) : i + 1 \in 1..Len(s) /\ Tail(s)[i] = s[i + 1]
         /\ Head(s) = s[1] /\ s[1] \in S
BY HeadTailProperties, EmptySeq, ElementOfSeq

\* The head of a batch is a record that has been produced.
LEMMA HeadIs ==
  ASSUME KafkaInv, NEW c \in Pollers, batch[c] # <<>>
  PROVE  /\ next_offset \in Nat
         /\ batch[c] \in Seq(Records(next_offset)) /\ Len(batch[c]) \in Nat \ {0}
         /\ Head(batch[c]) = batch[c][1] /\ batch[c][1].offset \in 0..next_offset - 1
<1>1. batch[c] \in Seq(Records(next_offset)) /\ next_offset \in Nat
  BY KafkaTyped, KafkaAssumption DEF KafkaInv
<1>2. Head(batch[c]) = batch[c][1] /\ batch[c][1] \in Records(next_offset)
      /\ Len(batch[c]) \in Nat \ {0}
  BY <1>1, TailIs
<1> QED BY <1>1, <1>2 DEF Records

LEMMA RebalanceStep ==
  ASSUME KafkaInv, NEW c \in Pollers, Rebalance(c)
  PROVE  KafkaInv'
<1>1. /\ owner' = c /\ rebalances < MaxRebalances /\ rebalances' = rebalances + 1
      /\ UNCHANGED <<log, next_offset, committed, polling, from_offset, batch, acked, seen, nacks>>
  BY DEF Rebalance, logVars, pollVars
<1>2. KafkaTypeOK'
  <2>0. KafkaTypeOK
    BY DEF KafkaInv
  <2>1. rebalances + 1 \in 0..MaxRebalances
    BY <1>1, <2>0, KafkaBounds
  <2> QED BY <1>1, <2>0, <2>1 DEF KafkaTypeOK
<1>3. LogOrdered' /\ CommitsAcked' /\ CommitFollowsWork' /\ (Compacted' <=> Compacted)
  BY <1>1 DEF KafkaInv, LogOrdered, CommitsAcked, CommitFollowsWork, Compacted
<1>4. ~Compacted => \A d \in Pollers : BatchFollows(d)'
  BY <1>1 DEF KafkaInv, BatchFollows
<1> QED BY <1>2, <1>3, <1>4 DEF KafkaInv

LEMMA BeginPollStep ==
  ASSUME KafkaInv, NEW c \in Pollers, BeginPoll(c)
  PROVE  KafkaInv'
<1>1. /\ polling' = [polling EXCEPT ![c] = "fetching"]
      /\ from_offset' = [from_offset EXCEPT ![c] = committed]
      /\ UNCHANGED <<log, next_offset, committed, owner, batch, acked, seen, rebalances, nacks>>
  BY DEF BeginPoll, logVars
<1>2. KafkaTypeOK
  BY DEF KafkaInv
<1>3. KafkaTypeOK'
  BY <1>1, <1>2 DEF KafkaTypeOK
<1>4. LogOrdered' /\ CommitFollowsWork' /\ (Compacted' <=> Compacted)
  BY <1>1 DEF KafkaInv, LogOrdered, CommitFollowsWork, Compacted
<1>5. CommitsAcked'
  BY <1>1, <1>2 DEF KafkaInv, CommitsAcked, KafkaTypeOK
<1>6. ASSUME ~Compacted, NEW d \in Pollers PROVE BatchFollows(d)'
  <2>1. BatchFollows(d)
    BY <1>6 DEF KafkaInv
  <2>2. CASE d # c
    BY <1>1, <1>2, <2>1, <2>2 DEF BatchFollows, KafkaTypeOK
  <2>3. CASE d = c
    <3>1. 0..committed - 1 \subseteq seen
      BY <1>2, <1>6, KafkaAssumption DEF KafkaInv, CommitFollowsWork, KafkaTypeOK
    <3>2. polling'[c] = "fetching" /\ from_offset'[c] = committed /\ seen' = seen
      BY <1>1, <1>2 DEF KafkaTypeOK
    <3> QED BY <2>3, <3>1, <3>2 DEF BatchFollows
  <2> QED BY <2>2, <2>3
<1> QED BY <1>3, <1>4, <1>5, <1>6 DEF KafkaInv

LEMMA HandlerAcksStep ==
  ASSUME KafkaInv, NEW c \in Pollers, HandlerAcks(c)
  PROVE  KafkaInv'
<1> DEFINE o == Head(batch[c]).offset
<1>1. /\ polling[c] = "handling" /\ batch[c] # <<>>
      /\ acked' = acked \cup {o} /\ seen' = seen \cup {o}
      /\ polling' = [polling EXCEPT ![c] = "committing"]
      /\ UNCHANGED <<log, next_offset, committed, owner, from_offset, batch, rebalances, nacks>>
  BY DEF HandlerAcks, logVars
<1>2. KafkaTypeOK /\ o = batch[c][1].offset /\ o \in 0..next_offset - 1
  BY <1>1, HeadIs DEF KafkaInv
<1> HIDE DEF o
<1>3. KafkaTypeOK'
  BY <1>1, <1>2 DEF KafkaTypeOK
<1>4. LogOrdered' /\ CommitFollowsWork' /\ (Compacted' <=> Compacted)
  BY <1>1 DEF KafkaInv, LogOrdered, CommitFollowsWork, Compacted
<1>5. CommitsAcked'
  BY <1>1, <1>2 DEF KafkaInv, CommitsAcked, KafkaTypeOK
<1>6. ASSUME ~Compacted, NEW d \in Pollers PROVE BatchFollows(d)'
  <2>1. BatchFollows(d)
    BY <1>6 DEF KafkaInv
  <2>2. polling'[d] \in {"handling", "committing"} <=> polling[d] \in {"handling", "committing"}
    BY <1>1, <1>2 DEF KafkaTypeOK
  <2>3. polling'[d] = "fetching" <=> polling[d] = "fetching"
    BY <1>1, <1>2 DEF KafkaTypeOK
  <2> QED BY <1>1, <2>1, <2>2, <2>3 DEF BatchFollows
<1> QED BY <1>3, <1>4, <1>5, <1>6 DEF KafkaInv

\* Past the head of a batch, the next message is the one after it.
LEMMA TailFollows ==
  ASSUME KafkaInv, NEW c \in Pollers, BatchFollows(c), batch[c] # <<>>,
         polling[c] \in {"handling", "committing"}, NEW given, seen \subseteq given,
         batch[c][1].offset \in given
  PROVE  LET rest == Tail(batch[c])
         IN  \A i \in 1..Len(rest) : /\ rest[i].offset = rest[1].offset + (i - 1)
                                     /\ 0..rest[1].offset - 1 \subseteq given
<1> DEFINE b == batch[c]
           rest == Tail(b)
           o == b[1].offset
<1>1. o \in Nat /\ b \in Seq(Records(next_offset))
  BY HeadIs
<1>2. \A i \in 1..Len(b) : b[i].offset = o + (i - 1) /\ 0..o - 1 \subseteq seen
  BY DEF BatchFollows
<1>3. /\ Len(b) \in Nat /\ Len(rest) = Len(b) - 1
      /\ \A i \in 1..Len(rest) : i + 1 \in 1..Len(b) /\ rest[i] = b[i + 1]
  BY <1>1, TailIs
<1>4. o \in given
  OBVIOUS
<1> HIDE DEF b, rest, o
<1>5. ASSUME NEW i \in 1..Len(rest)
      PROVE  rest[i].offset = rest[1].offset + (i - 1) /\ 0..rest[1].offset - 1 \subseteq given
  <2>1. 1 \in 1..Len(rest) /\ i \in Int
    BY <1>3
  <2>2. rest[i].offset = o + ((i + 1) - 1) /\ rest[1].offset = o + ((1 + 1) - 1)
    BY <1>2, <1>3, <2>1
  <2>3. 0..o - 1 \subseteq seen
    BY <1>2, <1>3
  <2>4. rest[1].offset = o + 1 /\ rest[i].offset = o + i
    BY <1>1, <2>1, <2>2
  <2>5. 0..(o + 1) - 1 \subseteq given
    BY <1>1, <1>4, <2>3
  <2> QED BY <1>1, <2>1, <2>4, <2>5
<1> QED BY <1>5 DEF rest, b

LEMMA HandlerNacksStep ==
  ASSUME KafkaInv, NEW c \in Pollers, HandlerNacks(c)
  PROVE  KafkaInv'
<1> DEFINE o == Head(batch[c]).offset
           rest == Tail(batch[c])
<1>1. /\ polling[c] = "handling" /\ batch[c] # <<>> /\ nacks < MaxNacks
      /\ nacks' = nacks + 1 /\ seen' = seen \cup {o}
      /\ batch' = [batch EXCEPT ![c] = rest]
      /\ UNCHANGED <<log, next_offset, committed, owner, polling, from_offset, acked, rebalances>>
  BY DEF HandlerNacks, logVars
<1>2. /\ KafkaTypeOK /\ o = batch[c][1].offset /\ o \in 0..next_offset - 1
      /\ batch[c] \in Seq(Records(next_offset))
  BY <1>1, HeadIs DEF KafkaInv
<1>3. rest \in Seq(Records(next_offset))
  BY <1>1, <1>2, TailIs
<1>4. KafkaTypeOK'
  <2>1. batch' \in [Pollers -> Seq(Records(next_offset))]
    BY <1>1, <1>2, <1>3, KafkaTyped
  <2>2. nacks + 1 \in 0..MaxNacks
    BY <1>1, <1>2, KafkaBounds DEF KafkaTypeOK
  <2>3. o \in 0..next_offset - 1
    BY <1>2
  <2> HIDE DEF o, rest
  <2> QED BY <1>1, <1>2, <2>1, <2>2, <2>3 DEF KafkaTypeOK, Records
<1>5. LogOrdered' /\ CommitFollowsWork' /\ (Compacted' <=> Compacted)
  BY <1>1 DEF KafkaInv, LogOrdered, CommitFollowsWork, Compacted
<1>6. CommitsAcked'
  BY <1>1, <1>2 DEF KafkaInv, CommitsAcked, KafkaTypeOK
<1>7. ASSUME ~Compacted, NEW d \in Pollers PROVE BatchFollows(d)'
  <2>1. BatchFollows(d)
    BY <1>7 DEF KafkaInv
  <2>2. CASE d # c
    <3>1. batch'[d] = batch[d]
      BY <1>1, <1>2, <2>2 DEF KafkaTypeOK
    <3> QED BY <1>1, <2>1, <3>1 DEF BatchFollows
  <2>3. CASE d = c
    <3>1. batch'[c] = rest
      BY <1>1, <1>2 DEF KafkaTypeOK
    <3>2. \A i \in 1..Len(rest) : /\ rest[i].offset = rest[1].offset + (i - 1)
                                  /\ 0..rest[1].offset - 1 \subseteq seen'
      <4>1. seen \subseteq seen' /\ batch[c][1].offset \in seen' /\ BatchFollows(c)
            /\ polling[c] \in {"handling", "committing"} /\ batch[c] # <<>>
        BY <1>1, <1>2, <2>1, <2>3
      <4> QED BY <4>1, TailFollows
    <3> HIDE DEF rest
    <3> QED BY <1>1, <2>3, <3>1, <3>2 DEF BatchFollows
  <2> QED BY <2>2, <2>3
<1> QED BY <1>4, <1>5, <1>6, <1>7 DEF KafkaInv

LEMMA CommitStep ==
  ASSUME KafkaInv, NEW c \in Pollers, Commit(c)
  PROVE  KafkaInv'
<1> DEFINE o == Head(batch[c]).offset
           rest == Tail(batch[c])
<1>1. /\ polling[c] = "committing" /\ committed' = o + 1
      /\ batch' = [batch EXCEPT ![c] = rest]
      /\ polling' = [polling EXCEPT ![c] = "handling"]
      /\ UNCHANGED <<log, next_offset, owner, from_offset, acked, seen, rebalances, nacks>>
  BY DEF Commit, logVars
<1>2. batch[c] # <<>> /\ batch[c][1].offset \in acked
  BY <1>1 DEF KafkaInv, CommitsAcked
<1>3. /\ KafkaTypeOK /\ o = batch[c][1].offset /\ o \in 0..next_offset - 1 /\ o \in acked
      /\ batch[c] \in Seq(Records(next_offset)) /\ next_offset \in Nat
  BY <1>2, HeadIs DEF KafkaInv
<1>4. rest \in Seq(Records(next_offset))
  BY <1>2, <1>3, TailIs
<1>5. KafkaTypeOK'
  <2>1. batch' \in [Pollers -> Seq(Records(next_offset))]
    BY <1>1, <1>3, <1>4, KafkaTyped
  <2>2. o + 1 \in 0..next_offset
    BY <1>3
  <2> HIDE DEF o, rest
  <2> QED BY <1>1, <1>3, <2>1, <2>2 DEF KafkaTypeOK, Records
<1>6. LogOrdered' /\ (Compacted' <=> Compacted)
  BY <1>1 DEF KafkaInv, LogOrdered, Compacted
<1>7. CommitsAcked'
  BY <1>1, <1>3 DEF KafkaInv, CommitsAcked, KafkaTypeOK
<1>8. CommitFollowsWork'
  <2>1. o \in seen
    BY <1>3 DEF KafkaTypeOK
  <2>2. ~Compacted => 0..o - 1 \subseteq seen
    <3>1. ~Compacted => BatchFollows(c)
      BY DEF KafkaInv
    <3>2. 1 \in 1..Len(batch[c])
      BY <1>2, HeadIs
    <3> QED BY <1>1, <1>3, <3>1, <3>2 DEF BatchFollows
  <2> HIDE DEF o
  <2> QED BY <1>1, <1>3, <1>6, <2>1, <2>2 DEF CommitFollowsWork
<1>9. ASSUME ~Compacted, NEW d \in Pollers PROVE BatchFollows(d)'
  <2>1. BatchFollows(d)
    BY <1>9 DEF KafkaInv
  <2>2. CASE d # c
    <3>1. batch'[d] = batch[d] /\ polling'[d] = polling[d]
      BY <1>1, <1>3, <2>2 DEF KafkaTypeOK
    <3> QED BY <1>1, <2>1, <3>1 DEF BatchFollows
  <2>3. CASE d = c
    <3>1. batch'[c] = rest /\ polling'[c] = "handling"
      BY <1>1, <1>3 DEF KafkaTypeOK
    <3>2. \A i \in 1..Len(rest) : /\ rest[i].offset = rest[1].offset + (i - 1)
                                  /\ 0..rest[1].offset - 1 \subseteq seen
      <4>1. batch[c][1].offset \in seen
        BY <1>2, <1>3 DEF KafkaTypeOK
      <4> QED BY <1>1, <1>2, <2>1, <2>3, <4>1, TailFollows
    <3> HIDE DEF rest
    <3> QED BY <1>1, <2>3, <3>1, <3>2 DEF BatchFollows
  <2> QED BY <2>2, <2>3
<1> QED BY <1>5, <1>6, <1>7, <1>8, <1>9 DEF KafkaInv

LEMMA EndPollStep ==
  ASSUME KafkaInv, NEW c \in Pollers, EndPoll(c)
  PROVE  KafkaInv'
<1>1. /\ polling' = [polling EXCEPT ![c] = "idle"]
      /\ from_offset' = [from_offset EXCEPT ![c] = 0]
      /\ UNCHANGED <<log, next_offset, committed, owner, batch, acked, seen, rebalances, nacks>>
  BY DEF EndPoll, logVars
<1>2. KafkaTypeOK
  BY DEF KafkaInv
<1>3. KafkaTypeOK'
  <2>1. 0 \in 0..next_offset
    BY <1>2, KafkaBounds
  <2> QED BY <1>1, <1>2, <2>1 DEF KafkaTypeOK
<1>4. LogOrdered' /\ CommitFollowsWork' /\ (Compacted' <=> Compacted)
  BY <1>1 DEF KafkaInv, LogOrdered, CommitFollowsWork, Compacted
<1>5. CommitsAcked'
  BY <1>1, <1>2 DEF KafkaInv, CommitsAcked, KafkaTypeOK
<1>6. ASSUME ~Compacted, NEW d \in Pollers PROVE BatchFollows(d)'
  <2>1. BatchFollows(d)
    BY <1>6 DEF KafkaInv
  <2>2. CASE d # c
    BY <1>1, <1>2, <2>1, <2>2 DEF BatchFollows, KafkaTypeOK
  <2>3. CASE d = c
    <3>1. polling'[c] = "idle"
      BY <1>1, <1>2 DEF KafkaTypeOK
    <3> QED BY <2>3, <3>1 DEF BatchFollows
  <2> QED BY <2>2, <2>3
<1> QED BY <1>3, <1>4, <1>5, <1>6 DEF KafkaInv

LEMMA KafkaStep == ASSUME KafkaInv, [KafkaNext]_kafkaVars PROVE KafkaInv'
<1>1. ASSUME NEW k \in Keys \cup {NoKey}, Produce(k) PROVE KafkaInv'
  BY <1>1, ProduceStep
<1>2. CASE Compact
  BY <1>2, KeepOnlyStep DEF Compact
<1>3. ASSUME NEW c \in Pollers, Rebalance(c) \/ Poll(c) PROVE KafkaInv'
  BY <1>3, RebalanceStep, BeginPollStep, FetchStep, HandlerAcksStep, HandlerNacksStep,
     CommitStep, EndPollStep DEF Poll
<1>4. CASE UNCHANGED kafkaVars
  BY <1>4 DEF kafkaVars, pollVars, KafkaInv, KafkaTypeOK, LogOrdered, CommitsAcked,
              CommitFollowsWork, Compacted, BatchFollows
<1> QED BY <1>1, <1>2, <1>3, <1>4 DEF KafkaNext

\* The consumers of a group and one partition's log, through polls that overlap
\* because the partition changed hands, handlers that fail, and compaction: what
\* is committed was acknowledged, and until the log is compacted all in front of
\* it has been through a handler.
THEOREM LogIsKept == Spec => []LogKept
<1>1. Init => KafkaInv
  BY KafkaInitInv DEF Init
<1>2. KafkaInv /\ [Next]_mcVars => KafkaInv'
  BY KafkaStep, OneSystemSteps
<1>3. KafkaInv => LogKept
  BY DEF KafkaInv, LogKept
<1> QED BY <1>1, <1>2, <1>3, PTL DEF Spec

\* Max of a set of integers that has a bound is its greatest member.
LEMMA GreatestMember ==
  ASSUME NEW P \in SUBSET Int, P # {}, NEW n \in Int, \A m \in P : m <= n
  PROVE  Max(P) \in P /\ \A m \in P : m <= Max(P)
<1> DEFINE Q == {n - m : m \in P}
<1>1. Q \in SUBSET Nat /\ Q # {}
  <2>1. \A m \in P : n - m \in Nat
    OBVIOUS
  <2> QED BY <2>1
<1>2. PICK q \in Q : \A r \in Q : q <= r
  BY <1>1, LeastMember
<1>3. PICK g \in P : q = n - g
  BY <1>2
<1>4. \A m \in P : n - m \in Q
  OBVIOUS
<1>5. \A m \in P : g >= m
  <2> SUFFICES ASSUME NEW m \in P PROVE g >= m
    OBVIOUS
  <2>1. n - g <= n - m
    BY <1>2, <1>3, <1>4
  <2> QED BY <1>3, <2>1
<1>6. Max(P) \in P /\ \A m \in P : Max(P) >= m
  BY <1>5 DEF Max
<1> QED BY <1>6

\* An increasing sequence of as many members as a finite set of positions has
\* holds them all.
LEMMA AllKept ==
  ASSUME NEW n \in Nat, NEW kept \in SUBSET (1..n),
         NEW index \in [1..Cardinality(kept) -> kept],
         \A i, j \in DOMAIN index : i < j => index[i] < index[j]
  PROVE  \A k \in kept : \E i \in DOMAIN index : index[i] = k
<1> DEFINE D == 1..Cardinality(kept)
<1>1. IsFiniteSet(kept) /\ Cardinality(kept) \in Nat
  BY UpTo, FS_Subset, FS_CardinalityType
<1>2. IsFiniteSet(D) /\ Cardinality(D) = Cardinality(kept)
  BY <1>1, UpTo
<1>3. \A i, j \in D : index[i] = index[j] => i = j
  <2> SUFFICES ASSUME NEW i \in D, NEW j \in D, index[i] = index[j], i # j
               PROVE  FALSE
    OBVIOUS
  <2>1. index[i] \in 1..n /\ index[j] \in 1..n /\ i \in DOMAIN index /\ j \in DOMAIN index
    OBVIOUS
  <2>2. i < j \/ j < i
    BY <1>1
  <2>3. index[i] < index[j] \/ index[j] < index[i]
    BY <2>1, <2>2
  <2> QED BY <2>1, <2>3
<1> HIDE DEF D
<1>4. index \in [D -> kept]
  BY DEF D
<1>5. index \in Injection(D, kept)
  BY <1>3, <1>4 DEF Injection, IsInjective
<1>6. index \in Surjection(D, kept)
  BY <1>1, <1>2, <1>5, FS_Injection
<1> QED BY <1>4, <1>6 DEF Surjection

\* The latest offset of a key does not fall if every record of the key is still
\* in the log or has one behind it.
LEMMA LatestStays ==
  ASSUME NEW S, NEW T, NEW n \in Nat, S \subseteq -1..n, T \subseteq -1..n,
         \A x \in S : \E y \in T : x <= y
  PROVE  Max({-1} \cup S) <= Max({-1} \cup T)
<1> DEFINE A == {-1} \cup S
           B == {-1} \cup T
<1>1. /\ A \in SUBSET Int /\ A # {} /\ \A m \in A : m <= n
      /\ B \in SUBSET Int /\ B # {} /\ \A m \in B : m <= n
  OBVIOUS
<1>2. /\ Max(A) \in A /\ \A m \in A : m <= Max(A)
      /\ Max(B) \in B /\ \A m \in B : m <= Max(B)
  <2> HIDE DEF A, B
  <2>1. n \in Int
    OBVIOUS
  <2>2. Max(A) \in A /\ \A m \in A : m <= Max(A)
    BY <1>1, <2>1, GreatestMember
  <2>3. Max(B) \in B /\ \A m \in B : m <= Max(B)
    BY <1>1, <2>1, GreatestMember
  <2> QED BY <2>2, <2>3
<1>3. \E y \in B : Max(A) <= y
  <2>1. Max(A) = -1 \/ Max(A) \in S
    BY <1>2
  <2>2. -1 \in B /\ T \subseteq B /\ -1 <= -1
    OBVIOUS
  <2> HIDE DEF A
  <2> QED BY <2>1, <2>2
<1>4. PICK y \in B : Max(A) <= y
  BY <1>3
<1>5. Max(A) \in Int /\ Max(B) \in Int /\ y \in Int /\ y <= Max(B)
  BY <1>1, <1>2
<1> QED BY <1>4, <1>5

LEMMA OffsetOf ==
  ASSUME NEW n \in Nat, NEW s, s \in Seq(Records(n)), NEW i \in 1..Len(s)
  PROVE  s[i].offset \in 0..n - 1
<1>1. s[i] \in Records(n)
  BY ElementOfSeq
<1> QED BY <1>1 DEF Records

\* A step keeps a record of every key at least as late, whatever the log's order.
LEMMA LatestKept ==
  ASSUME KafkaInv, KafkaInv', next_offset <= next_offset',
         NEW k, \A i \in 1..Len(log) : log[i].key = k =>
                  \E j \in 1..Len(log') : log'[j].key = k /\ log[i].offset <= log'[j].offset
  PROVE  LatestOf(k) <= LatestOf(k)'
<1> DEFINE S == {log[i].offset : i \in {j \in DOMAIN log : log[j].key = k}}
           T == {log'[i].offset : i \in {j \in DOMAIN log' : log'[j].key = k}}
<1>1. /\ log \in Seq(Records(next_offset)) /\ DOMAIN log = 1..Len(log)
      /\ log' \in Seq(Records(next_offset')) /\ DOMAIN log' = 1..Len(log')
      /\ next_offset \in Nat /\ next_offset' \in Nat
  <2>1. KafkaTypeOK /\ KafkaTypeOK' /\ MaxOffset \in Nat
    BY KafkaBounds DEF KafkaInv
  <2>2. next_offset \in Nat /\ next_offset' \in Nat
    BY <2>1 DEF KafkaTypeOK
  <2>3. log \in Seq(Records(next_offset)) /\ log' \in Seq(Records(next_offset'))
    BY <2>1 DEF KafkaTypeOK, Records
  <2> QED BY <2>2, <2>3
<1>2. /\ \A i \in 1..Len(log) : log[i].offset \in 0..next_offset - 1
      /\ \A i \in 1..Len(log') : log'[i].offset \in 0..next_offset' - 1
  BY <1>1, OffsetOf
<1>3. S \subseteq -1..next_offset' /\ T \subseteq -1..next_offset'
  BY <1>1, <1>2
<1>4. \A x \in S : \E y \in T : x <= y
  BY <1>1
<1> HIDE DEF S, T
<1>5. Max({-1} \cup S) <= Max({-1} \cup T)
  BY <1>1, <1>3, <1>4, LatestStays
<1> QED BY <1>5 DEF S, T, LatestOf

LEMMA CompactKeepsLatest ==
  ASSUME KafkaInv, KafkaInv', Compact, NEW k \in Keys
  PROVE  LatestOf(k) <= LatestOf(k)'
<1> DEFINE kept == {i \in DOMAIN log : log[i].key = NoKey \/ IsLatest(i)}
<1>1. PICK index \in [1..Cardinality(kept) -> kept] :
        /\ \A i, j \in DOMAIN index : i < j => index[i] < index[j]
        /\ log' = [i \in DOMAIN index |-> log[index[i]]]
  BY DEF Compact, KeepOnly
<1>2. log \in Seq(Records(next_offset)) /\ DOMAIN log = 1..Len(log) /\ Len(log) \in Nat
      /\ next_offset \in Nat /\ next_offset' = next_offset
  BY KafkaTyped, KafkaBounds DEF KafkaInv, Compact, KeepOnly
<1>3. DOMAIN log' = 1..Len(log') /\ DOMAIN log' = DOMAIN index
  <2>1. log' \in Seq(Records(next_offset'))
    BY DEF KafkaInv, KafkaTypeOK, Records
  <2>2. DOMAIN log' = DOMAIN index
    BY <1>1
  <2>3. DOMAIN log' = 1..Len(log')
    BY <2>1
  <2> QED BY <2>2, <2>3
<1>4. kept \in SUBSET (1..Len(log))
  BY <1>2
<1>5. \A i \in kept : \E j \in 1..Len(log') : log'[j] = log[i]
  <2> HIDE DEF kept
  <2>1. \A i \in kept : \E j \in DOMAIN index : index[j] = i
    BY <1>1, <1>2, <1>4, AllKept
  <2> QED BY <1>1, <1>3, <2>1
<1>6. ASSUME NEW i \in 1..Len(log), log[i].key = k
      PROVE  \E j \in 1..Len(log') : log'[j].key = k /\ log[i].offset <= log'[j].offset
  <2> DEFINE P == {j \in 1..Len(log) : log[j].key = k}
             last == Max(P)
  <2>1. last \in P /\ \A j \in P : j <= last
    <3>1. P \in SUBSET Int /\ P # {} /\ \A j \in P : j <= Len(log)
      BY <1>2, <1>6
    <3> HIDE DEF P
    <3>2. Len(log) \in Int
      BY <1>2
    <3> QED BY <3>1, <3>2, GreatestMember
  <2> HIDE DEF last
  <2>2. last \in kept
    BY <1>2, <2>1 DEF IsLatest
  <2>3. log[i].offset <= log[last].offset
    <3>1. i <= last /\ last \in 1..Len(log) /\ log[i].offset \in 0..next_offset - 1
      BY <1>2, <1>6, <2>1, OffsetOf
    <3>2. i < last => log[i].offset < log[last].offset
      BY <3>1 DEF KafkaInv, LogOrdered
    <3>3. log[last].offset \in 0..next_offset - 1
      BY <1>2, <3>1, OffsetOf
    <3> QED BY <1>2, <3>1, <3>2, <3>3
  <2>4. log[last].key = k
    BY <2>1
  <2> QED BY <1>5, <2>2, <2>3, <2>4
<1> QED BY <1>2, <1>6, LatestKept

LEMMA ProduceKeepsLatest ==
  ASSUME KafkaInv, KafkaInv', NEW r \in Keys \cup {NoKey}, Produce(r), NEW k \in Keys
  PROVE  LatestOf(k) <= LatestOf(k)'
<1> DEFINE rec == [offset |-> next_offset, key |-> r]
<1>1. log' = Append(log, rec) /\ next_offset' = next_offset + 1
  BY DEF Produce
<1>2. log \in Seq(Records(next_offset)) /\ next_offset \in Nat
  BY KafkaTyped, KafkaBounds DEF KafkaInv
<1> HIDE DEF rec
<1>3. /\ Len(log') = Len(log) + 1 /\ Len(log) \in Nat
      /\ \A i \in 1..Len(log) : log'[i] = log[i]
  BY <1>1, <1>2, AppendProperties
<1>4. ASSUME NEW i \in 1..Len(log), log[i].key = k
      PROVE  \E j \in 1..Len(log') : log'[j].key = k /\ log[i].offset <= log'[j].offset
  <2>1. log[i].offset \in 0..next_offset - 1
    BY <1>2, OffsetOf
  <2>2. log[i].offset <= log[i].offset
    BY <1>2, <2>1
  <2>3. i \in 1..Len(log') /\ log'[i] = log[i]
    BY <1>3
  <2> QED BY <1>4, <2>2, <2>3
<1> QED BY <1>1, <1>2, <1>4, LatestKept

LEMMA LatestStep ==
  ASSUME KafkaInv, KafkaInv', [KafkaNext]_kafkaVars
  PROVE  [/\ \A k \in Keys : LatestOf(k) <= LatestOf(k)'
          /\ \A i, j \in DOMAIN log' : i < j => log'[i].offset < log'[j].offset]_kafkaVars
<1>1. \A i, j \in DOMAIN log' : i < j => log'[i].offset < log'[j].offset
  <2>1. log' \in Seq(Records(next_offset'))
    BY DEF KafkaInv, KafkaTypeOK, Records
  <2> QED BY <2>1 DEF KafkaInv, LogOrdered
<1>2. ASSUME NEW k \in Keys, KafkaNext PROVE LatestOf(k) <= LatestOf(k)'
  <2>1. CASE log' = log /\ next_offset' = next_offset
    <3>1. log \in Seq(Records(next_offset)) /\ next_offset \in Nat
      BY KafkaTyped, KafkaBounds DEF KafkaInv
    <3>2. ASSUME NEW i \in 1..Len(log), log[i].key = k
          PROVE  \E j \in 1..Len(log') : log'[j].key = k /\ log[i].offset <= log'[j].offset
      <4>1. log[i].offset \in 0..next_offset - 1
        BY <3>1, OffsetOf
      <4>2. log[i].offset <= log[i].offset
        BY <3>1, <4>1
      <4> QED BY <2>1, <3>2, <4>2
    <3> QED BY <2>1, <3>1, <3>2, LatestKept
  <2>2. CASE Compact
    BY <2>2, CompactKeepsLatest
  <2>3. ASSUME NEW r \in Keys \cup {NoKey}, Produce(r) PROVE LatestOf(k) <= LatestOf(k)'
    BY <2>3, ProduceKeepsLatest
  <2>4. ASSUME NEW c \in Pollers, Rebalance(c) \/ Poll(c)
        PROVE  log' = log /\ next_offset' = next_offset
    BY <2>4 DEF Rebalance, Poll, BeginPoll, Fetch, HandlerAcks, HandlerNacks, Commit,
                EndPoll, logVars
  <2> QED BY <1>2, <2>1, <2>2, <2>3, <2>4 DEF KafkaNext
<1> QED BY <1>1, <1>2

\* Compaction never loses the latest message of a key, and no step puts the log
\* out of order, while messages are appended and read.
THEOREM CompactionIsSafe == Spec => CompactionKeepsLatest
<1>1. Init => KafkaInv
  BY KafkaInitInv DEF Init
<1>2. KafkaInv /\ [Next]_mcVars => KafkaInv'
  BY KafkaStep, OneSystemSteps
<1>3. KafkaInv /\ KafkaInv' /\ [Next]_mcVars =>
        [/\ \A k \in Keys : LatestOf(k) <= LatestOf(k)'
         /\ \A i, j \in DOMAIN log' : i < j => log'[i].offset < log'[j].offset]_kafkaVars
  BY LatestStep, OneSystemSteps
<1> QED BY <1>1, <1>2, <1>3, PTL DEF Spec, CompactionKeepsLatest

-----------------------------------------------------------------------------
(* The RabbitMQ queue *)

\* What is removed from a sequence leaves one place; the rest moves up.
LEMMA TakenOut ==
  ASSUME NEW S, NEW l \in Seq(S), NEW e, Contains(l, e)
  PROVE  \E n \in 1..Len(l) :
           /\ l[n] = e
           /\ RemoveFirst(l, e) \in Seq(S)
           /\ Len(RemoveFirst(l, e)) = Len(l) - 1
           /\ \A i \in 1..Len(l) - 1 :
                RemoveFirst(l, e)[i] = IF i <= n - 1 THEN l[i] ELSE l[i + 1]
<1> DEFINE I == {i \in 1..Len(l) : l[i] = e}
           n == Min(I)
           before == SubSeq(l, 1, n - 1)
           right == SubSeq(l, n + 1, Len(l))
<1>1. I # {} /\ I \subseteq Nat
  BY DEF Contains
<1>2. n \in 1..Len(l) /\ l[n] = e
  <2>1. PICK k \in I : \A m \in I : k <= m
    BY <1>1, LeastMember
  <2>2. n = k \/ (n \in I /\ \A m \in I : n <= m)
    BY <2>1 DEF Min
  <2> QED BY <2>1, <2>2
<1>3. RemoveFirst(l, e) = before \o right
  BY <1>1 DEF Contains, RemoveFirst, RemoveAt, SelectInSeq
<1> HIDE DEF n
<1>4. /\ before \in Seq(S) /\ Len(before) = n - 1
      /\ \A i \in 1..n - 1 : before[i] = l[i]
  BY <1>2, SubSeqProperties, ElementOfSeq
<1>5. /\ right \in Seq(S) /\ Len(right) = Len(l) - n
      /\ \A i \in 1..Len(l) - n : right[i] = l[n + i]
  BY <1>2, SubSeqProperties, ElementOfSeq
<1> HIDE DEF before, right
<1>6. /\ before \o right \in Seq(S)
      /\ Len(before \o right) = (n - 1) + (Len(l) - n)
      /\ \A i \in 1..(n - 1) + (Len(l) - n) :
           (before \o right)[i] = IF i <= n - 1 THEN before[i] ELSE right[i - (n - 1)]
  <2>1. /\ before \o right \in Seq(S)
        /\ Len(before \o right) = Len(before) + Len(right)
        /\ \A i \in 1..Len(before) + Len(right) :
             (before \o right)[i] = IF i <= Len(before) THEN before[i] ELSE right[i - Len(before)]
    BY <1>4, <1>5, ConcatProperties
  <2> QED BY <1>4, <1>5, <2>1
<1>7. ASSUME NEW i \in 1..Len(l) - 1
      PROVE  (before \o right)[i] = IF i <= n - 1 THEN l[i] ELSE l[i + 1]
  <2>1. (before \o right)[i] = IF i <= n - 1 THEN before[i] ELSE right[i - (n - 1)]
    BY <1>2, <1>6
  <2>2. i <= n - 1 => before[i] = l[i]
    BY <1>2, <1>4
  <2>3. ~(i <= n - 1) => right[i - (n - 1)] = l[i + 1]
    <3> SUFFICES ASSUME ~(i <= n - 1) PROVE right[i - (n - 1)] = l[i + 1]
      OBVIOUS
    <3> DEFINE k == i - (n - 1)
    <3>1. k \in 1..Len(l) - n /\ n + k = i + 1
      BY <1>2
    <3> HIDE DEF k
    <3>2. right[k] = l[n + k]
      BY <1>5, <3>1
    <3> QED BY <3>1, <3>2 DEF k
  <2> QED BY <2>1, <2>2, <2>3
<1> DEFINE rest == RemoveFirst(l, e)
<1>8. /\ rest \in Seq(S) /\ Len(rest) = Len(l) - 1
      /\ \A i \in 1..Len(l) - 1 : rest[i] = IF i <= n - 1 THEN l[i] ELSE l[i + 1]
  BY <1>2, <1>3, <1>6, <1>7
<1> HIDE DEF rest
<1> QED BY <1>2, <1>8 DEF rest


\* What a sequence holds, and how many times, as the queue's operations change it.
LEMMA HoldsAppended ==
  ASSUME NEW S, NEW l \in Seq(S), NEW e \in S, Once(l), e \notin Range(l)
  PROVE  /\ Append(l, e) \in Seq(S) /\ Len(Append(l, e)) = Len(l) + 1
         /\ Range(Append(l, e)) = Range(l) \cup {e} /\ Once(Append(l, e))
<1> DEFINE b == Append(l, e)
<1>1. /\ b \in Seq(S) /\ Len(b) = Len(l) + 1 /\ b[Len(l) + 1] = e
      /\ \A i \in 1..Len(l) : b[i] = l[i]
  BY AppendProperties
<1>2. Len(l) \in Nat /\ DOMAIN l = 1..Len(l) /\ DOMAIN b = 1..Len(l) + 1
  BY <1>1
<1>3. \A i \in 1..Len(l) : l[i] # e
  BY <1>2 DEF Range
<1> HIDE DEF b
<1>4. \A i \in 1..Len(l) + 1 : i \in 1..Len(l) \/ i = Len(l) + 1
  BY <1>2
<1>5. Once(b)
  BY <1>1, <1>3, <1>4 DEF Once
<1>6. Range(b) = Range(l) \cup {e}
  <2>1. Len(l) + 1 \in DOMAIN b /\ DOMAIN l \subseteq DOMAIN b
    BY <1>2
  <2> QED BY <1>1, <1>2, <1>4, <2>1 DEF Range
<1> QED BY <1>1, <1>5, <1>6 DEF b

LEMMA HoldsTail ==
  ASSUME NEW S, NEW l \in Seq(S), l # <<>>, Once(l)
  PROVE  /\ Tail(l) \in Seq(S) /\ Len(Tail(l)) = Len(l) - 1 /\ Len(l) \in Nat
         /\ Head(l) \in S /\ Head(l) \in Range(l)
         /\ Range(Tail(l)) = Range(l) \ {Head(l)} /\ Once(Tail(l))
<1> DEFINE t == Tail(l)
<1>1. /\ t \in Seq(S) /\ Len(t) = Len(l) - 1 /\ Len(l) \in Nat \ {0}
      /\ \A i \in 1..Len(t) : i + 1 \in 1..Len(l) /\ t[i] = l[i + 1]
      /\ Head(l) = l[1] /\ l[1] \in S
  BY TailIs
<1>2. DOMAIN l = 1..Len(l) /\ DOMAIN t = 1..Len(t)
  BY <1>1
<1> HIDE DEF t
<1>3. Once(t)
  BY <1>1 DEF Once
<1>4. \A i \in 1..Len(l) : i = 1 \/ (i - 1 \in 1..Len(t) /\ (i - 1) + 1 = i)
  BY <1>1
<1>5. ASSUME NEW i \in 1..Len(t) PROVE t[i] \in Range(l) /\ t[i] # l[1]
  <2>1. i + 1 \in 1..Len(l) /\ i + 1 # 1 /\ 1 \in 1..Len(l)
    BY <1>1
  <2> QED BY <1>1, <1>2, <2>1 DEF Once, Range
<1>6. ASSUME NEW i \in 1..Len(l), l[i] # l[1] PROVE l[i] \in Range(t)
  <2>1. i - 1 \in 1..Len(t) /\ t[i - 1] = l[i]
    BY <1>1, <1>4, <1>6
  <2> QED BY <1>2, <2>1 DEF Range
<1>7. Range(t) = Range(l) \ {l[1]}
  BY <1>2, <1>5, <1>6 DEF Range
<1>8. 1 \in DOMAIN l
  BY <1>1, <1>2
<1> QED BY <1>1, <1>3, <1>7, <1>8 DEF t, Range

LEMMA HoldsRemoved ==
  ASSUME NEW S, NEW l \in Seq(S), NEW e, e \in Range(l), Once(l)
  PROVE  /\ RemoveFirst(l, e) \in Seq(S) /\ Len(RemoveFirst(l, e)) = Len(l) - 1
         /\ Range(RemoveFirst(l, e)) = Range(l) \ {e} /\ Once(RemoveFirst(l, e))
<1> DEFINE r == RemoveFirst(l, e)
<1>0. DOMAIN l = 1..Len(l) /\ Len(l) \in Nat
  OBVIOUS
<1>1. PICK n \in 1..Len(l) :
        /\ l[n] = e /\ r \in Seq(S) /\ Len(r) = Len(l) - 1
        /\ \A i \in 1..Len(l) - 1 : r[i] = IF i <= n - 1 THEN l[i] ELSE l[i + 1]
  <2>1. Contains(l, e)
    BY <1>0 DEF Contains, Range
  <2> QED BY <2>1, TakenOut
<1>2. DOMAIN r = 1..Len(l) - 1
  BY <1>1
<1> HIDE DEF r
<1> DEFINE from(i) == IF i <= n - 1 THEN i ELSE i + 1
<1>3. \A i \in 1..Len(l) - 1 : from(i) \in 1..Len(l) /\ from(i) # n /\ r[i] = l[from(i)]
  BY <1>0, <1>1
<1>4. \A i, j \in 1..Len(l) - 1 : from(i) = from(j) => i = j
  BY <1>0
<1>5. \A k \in 1..Len(l) : k # n => \E i \in 1..Len(l) - 1 : from(i) = k
  <2> SUFFICES ASSUME NEW k \in 1..Len(l), k # n PROVE \E i \in 1..Len(l) - 1 : from(i) = k
    OBVIOUS
  <2>1. CASE k < n
    <3>1. k \in 1..Len(l) - 1 /\ from(k) = k
      BY <1>0, <2>1
    <3> QED BY <3>1
  <2>2. CASE k > n
    <3>1. k - 1 \in 1..Len(l) - 1 /\ from(k - 1) = k
      BY <1>0, <2>2
    <3> QED BY <3>1
  <2> QED BY <1>0, <2>1, <2>2
<1> HIDE DEF from
<1>6. Once(r)
  BY <1>1, <1>3, <1>4 DEF Once
<1>7. ASSUME NEW i \in DOMAIN r PROVE r[i] \in Range(l) /\ r[i] # e
  BY <1>0, <1>1, <1>2, <1>3 DEF Once, Range
<1>8. ASSUME NEW k \in DOMAIN l, l[k] # e PROVE l[k] \in Range(r)
  <2>1. PICK i \in 1..Len(l) - 1 : from(i) = k
    BY <1>0, <1>1, <1>5, <1>8
  <2> QED BY <1>2, <1>3, <2>1 DEF Range
<1>9. Range(r) = Range(l) \ {e}
  BY <1>7, <1>8 DEF Range
<1> QED BY <1>1, <1>6, <1>9 DEF r

LEMMA HoldsJoined ==
  ASSUME NEW S, NEW l \in Seq(S), NEW k \in Seq(S), Once(l), Once(k),
         Range(l) \cap Range(k) = {}
  PROVE  /\ l \o k \in Seq(S) /\ Len(l \o k) = Len(l) + Len(k)
         /\ Range(l \o k) = Range(l) \cup Range(k) /\ Once(l \o k)
<1> DEFINE b == l \o k
<1>1. /\ b \in Seq(S) /\ Len(b) = Len(l) + Len(k)
      /\ \A i \in 1..Len(l) + Len(k) : b[i] = IF i <= Len(l) THEN l[i] ELSE k[i - Len(l)]
  BY ConcatProperties
<1>2. /\ Len(l) \in Nat /\ Len(k) \in Nat /\ DOMAIN l = 1..Len(l) /\ DOMAIN k = 1..Len(k)
      /\ DOMAIN b = 1..Len(l) + Len(k)
  BY <1>1
<1> HIDE DEF b
<1>3. ASSUME NEW i \in 1..Len(l) + Len(k)
      PROVE  \/ i \in 1..Len(l) /\ b[i] = l[i] /\ b[i] \in Range(l)
             \/ i - Len(l) \in 1..Len(k) /\ b[i] = k[i - Len(l)] /\ b[i] \in Range(k)
  <2>1. CASE i <= Len(l)
    <3>1. i \in 1..Len(l) /\ b[i] = l[i]
      BY <1>1, <1>2, <2>1
    <3> QED BY <1>2, <3>1 DEF Range
  <2>2. CASE ~(i <= Len(l))
    <3>1. i - Len(l) \in 1..Len(k) /\ b[i] = k[i - Len(l)]
      BY <1>1, <1>2, <2>2
    <3> QED BY <1>2, <3>1 DEF Range
  <2> QED BY <2>1, <2>2
<1>4. ASSUME NEW i \in 1..Len(l) + Len(k), NEW j \in 1..Len(l) + Len(k), b[i] = b[j]
      PROVE  i = j
  <2>1. CASE i \in 1..Len(l) /\ b[i] = l[i] /\ b[i] \in Range(l)
    <3>1. j \in 1..Len(l) /\ b[j] = l[j]
      BY <1>3, <1>4, <2>1
    <3> QED BY <1>4, <2>1, <3>1 DEF Once
  <2>2. CASE i - Len(l) \in 1..Len(k) /\ b[i] = k[i - Len(l)] /\ b[i] \in Range(k)
    <3>1. j - Len(l) \in 1..Len(k) /\ b[j] = k[j - Len(l)]
      BY <1>3, <1>4, <2>2
    <3>2. i - Len(l) = j - Len(l)
      BY <1>4, <2>2, <3>1 DEF Once
    <3> QED BY <1>2, <3>2
  <2> QED BY <1>3, <2>1, <2>2
<1>5. Once(b)
  BY <1>1, <1>4 DEF Once
<1>6. Range(b) = Range(l) \cup Range(k)
  <2>1. Range(b) \subseteq Range(l) \cup Range(k)
    BY <1>2, <1>3 DEF Range
  <2>2. ASSUME NEW i \in 1..Len(l) PROVE l[i] \in Range(b)
    <3>1. i \in 1..Len(l) + Len(k) /\ b[i] = l[i]
      BY <1>1, <1>2
    <3> QED BY <1>2, <3>1 DEF Range
  <2>3. ASSUME NEW i \in 1..Len(k) PROVE k[i] \in Range(b)
    <3> DEFINE j == i + Len(l)
    <3>1. j \in 1..Len(l) + Len(k) /\ ~(j <= Len(l)) /\ j - Len(l) = i
      BY <1>2
    <3> HIDE DEF j
    <3>2. b[j] = k[i]
      BY <1>1, <3>1
    <3> QED BY <1>2, <3>1, <3>2 DEF Range
  <2>4. Range(l) \subseteq Range(b) /\ Range(k) \subseteq Range(b)
    BY <1>2, <2>2, <2>3 DEF Range
  <2> QED BY <2>1, <2>4
<1> QED BY <1>1, <1>5, <1>6 DEF b

LEMMA HoldsReversed ==
  ASSUME NEW S, NEW l \in Seq(S), Once(l)
  PROVE  /\ Reverse(l) \in Seq(S) /\ Len(Reverse(l)) = Len(l)
         /\ Range(Reverse(l)) = Range(l) /\ Once(Reverse(l))
<1> DEFINE r == Reverse(l)
           n == Len(l)
<1>1. n \in Nat /\ DOMAIN l = 1..n /\ \A i \in 1..n : l[i] \in S
  BY ElementOfSeq
<1> HIDE DEF n
<1>2. \A i \in 1..n : (n - i) + 1 \in 1..n /\ (n - ((n - i) + 1)) + 1 = i
  BY <1>1
<1>3. r = [i \in 1..n |-> l[(n - i) + 1]]
  BY DEF Reverse, n
<1>4. \A i \in 1..n : r[i] = l[(n - i) + 1]
  BY <1>3
<1>5. r \in Seq(S) /\ DOMAIN r = 1..n
  <2>1. r \in [1..n -> S]
    BY <1>1, <1>2, <1>3
  <2> QED BY <1>1, <2>1, SeqDef
<1>6. Len(r) = n
  <2>1. Len(r) \in Nat /\ 1..Len(r) = 1..n
    BY <1>5
  <2> QED BY <1>1, <2>1
<1> HIDE DEF r
<1>7. ASSUME NEW i \in 1..n, NEW j \in 1..n, r[i] = r[j] PROVE i = j
  <2>1. (n - i) + 1 = (n - j) + 1
    BY <1>2, <1>4, <1>7 DEF Once, n
  <2> QED BY <1>1, <2>1
<1>8. Range(r) = Range(l)
  <2>1. \A i \in 1..n : r[i] \in Range(l)
    BY <1>1, <1>2, <1>4 DEF Range
  <2>2. \A i \in 1..n : l[i] \in Range(r)
    <3> SUFFICES ASSUME NEW i \in 1..n PROVE l[i] \in Range(r)
      OBVIOUS
    <3>1. PICK j \in 1..n : (n - j) + 1 = i
      BY <1>2
    <3> QED BY <1>4, <1>5, <3>1 DEF Range
  <2> QED BY <1>1, <1>5, <2>1, <2>2 DEF Range
<1> QED BY <1>5, <1>6, <1>7, <1>8 DEF r, n, Once

InBroker == Range(pending) \cup Range(unacked) \cup Range(dlq)
Answered == {m \in Messages : answers[m] # {}}
Settled  == {m \in Messages : "true" \in answers[m] /\ m \notin InBroker}

\* A message is in one place of the broker, once.
Apart ==
  /\ Once(pending) /\ Once(unacked) /\ Once(dlq)
  /\ Range(pending) \cap Range(unacked) = {} /\ Range(pending) \cap Range(dlq) = {}
  /\ Range(unacked) \cap Range(dlq) = {}

\* Whatever is not dead-lettered has a retry left, a message out with a consumer
\* included, and one that was never put has used none.
RetriesLeft ==
  /\ \A m \in Range(pending) \cup Range(unacked) : retries[m] < max_retries
  /\ \A m \in Range(dlq) : "exception" \in answers[m] \/ retries[m] >= max_retries
  /\ \A m \in Messages : m \notin InBroker /\ answers[m] = {} => retries[m] = 0

QueueTypes ==
  /\ pending \in Seq(Messages) /\ unacked \in Seq(Messages) /\ dlq \in Seq(Messages)
  /\ retries \in [Messages -> 0..max_retries]
  /\ enqueued_count \in Nat /\ acked_count \in Nat /\ nacked_count \in Nat

QueueInv ==
  /\ QueueTypes /\ Apart /\ RetriesLeft
  /\ enqueued_count = Len(pending) + Len(unacked) + Len(dlq) + acked_count
  /\ acked_count <= Cardinality(Settled)

\* The verdict a consumer acts on was given of the message it holds.
ConsumersKept ==
  /\ disconnects \in Nat
  /\ at \in [Consumers -> {"out", "polling", "got", "settling"}]
  /\ holding \in [Consumers -> Messages \cup {NoMessage}]
  /\ verdict \in [Consumers -> {"none", "true", "false", "exception"}]
  /\ count \in [Consumers -> Nat]
  /\ answers \in [Messages -> SUBSET {"true", "false", "exception"}]
  /\ IsFiniteSet(Answered)
  /\ \A c \in Consumers :
       /\ at[c] \in {"got", "settling"} => holding[c] \in Messages
       /\ at[c] = "settling" => verdict[c] \in answers[holding[c]]

RabbitInv == QueueInv /\ ConsumersKept

LEMMA BrokerHolds ==
  ASSUME QueueTypes, Apart
  PROVE  /\ Range(pending \o unacked \o dlq) = InBroker
         /\ Once(pending \o unacked \o dlq) /\ pending \o unacked \o dlq \in Seq(Messages)
<1> DEFINE both == pending \o unacked
<1>1. both \in Seq(Messages) /\ Once(both) /\ Range(both) = Range(pending) \cup Range(unacked)
  BY HoldsJoined DEF QueueTypes, Apart
<1> HIDE DEF both
<1>2. Range(both) \cap Range(dlq) = {}
  BY <1>1 DEF Apart
<1>3. dlq \in Seq(Messages) /\ Once(dlq)
  BY DEF QueueTypes, Apart
<1>4. /\ both \o dlq \in Seq(Messages) /\ Once(both \o dlq)
      /\ Range(both \o dlq) = Range(both) \cup Range(dlq)
  BY <1>1, <1>2, <1>3, HoldsJoined
<1> QED BY <1>1, <1>4 DEF InBroker, both

LEMMA SettledFinite ==
  ASSUME ConsumersKept
  PROVE  IsFiniteSet(Settled) /\ Cardinality(Settled) \in Nat
<1>1. Settled \subseteq Answered /\ IsFiniteSet(Answered)
  BY DEF ConsumersKept, Settled, Answered
<1> QED BY <1>1, FS_Subset, FS_CardinalityType

\* Members of a sequence of messages are messages, and its length is a number.
LEMMA HoldsMessages ==
  ASSUME NEW l \in Seq(Messages)
  PROVE  Range(l) \subseteq Messages /\ Len(l) \in Nat
BY ElementOfSeq DEF Range

LEMMA AckKeeps ==
  ASSUME RabbitInv, NEW m \in Messages, Ack(m), "true" \in answers[m], answers' = answers
  PROVE  QueueInv'
<1>1. /\ QueueTypes /\ Apart /\ RetriesLeft
      /\ UNCHANGED <<pending, dlq, retries, enqueued_count, nacked_count>>
  BY DEF RabbitInv, QueueInv, Ack
<1>2. CASE m \notin Range(unacked)
  <2>1. UNCHANGED <<unacked, acked_count>>
    BY <1>2 DEF Ack
  <2> QED BY <1>1, <2>1 DEF RabbitInv, QueueInv, QueueTypes, Apart, RetriesLeft, Settled, InBroker
<1>3. CASE m \in Range(unacked)
  <2>1. unacked' = RemoveFirst(unacked, m) /\ acked_count' = acked_count + 1
    BY <1>3 DEF Ack
  <2>2. /\ unacked' \in Seq(Messages) /\ Len(unacked') = Len(unacked) - 1
        /\ Range(unacked') = Range(unacked) \ {m} /\ Once(unacked')
    BY <1>1, <1>3, <2>1, HoldsRemoved DEF QueueTypes, Apart
  <2>3. QueueTypes' /\ Apart'
    BY <1>1, <2>1, <2>2 DEF QueueTypes, Apart
  <2>4. InBroker' = InBroker \ {m} /\ m \in InBroker
    BY <1>1, <1>3, <2>2 DEF InBroker, Apart
  <2>5. RetriesLeft'
    BY <1>1, <2>2, <2>4 DEF RetriesLeft
  <2>6. enqueued_count' = Len(pending') + Len(unacked') + Len(dlq') + acked_count'
    <3>1. Len(pending) \in Nat /\ Len(unacked) \in Nat /\ Len(dlq) \in Nat /\ acked_count \in Nat
      BY <1>1, HoldsMessages DEF QueueTypes
    <3>2. enqueued_count = Len(pending) + Len(unacked) + Len(dlq) + acked_count
      BY DEF RabbitInv, QueueInv
    <3> QED BY <1>1, <2>1, <2>2, <3>1, <3>2
  <2>7. Settled' = Settled \cup {m} /\ m \notin Settled
    BY <2>4 DEF Settled
  <2>8. Cardinality(Settled') = Cardinality(Settled) + 1 /\ Cardinality(Settled) \in Nat
    BY <2>7, SettledFinite, FS_AddElement DEF RabbitInv
  <2>9. acked_count' <= Cardinality(Settled')
    BY <1>1, <2>1, <2>8 DEF RabbitInv, QueueInv, QueueTypes
  <2> QED BY <2>3, <2>5, <2>6, <2>9 DEF QueueInv
<1> QED BY <1>2, <1>3

LEMMA NackKeeps ==
  ASSUME RabbitInv, NEW m \in Messages, NEW requeue \in BOOLEAN, Nack(m, requeue),
         ~requeue => "exception" \in answers[m], answers' = answers
  PROVE  QueueInv'
<1>1. /\ QueueTypes /\ Apart /\ RetriesLeft
      /\ UNCHANGED <<enqueued_count, acked_count>>
  BY DEF RabbitInv, QueueInv, Nack
<1>2. CASE m \notin Range(unacked)
  <2>1. UNCHANGED <<pending, unacked, dlq, retries, nacked_count>>
    BY <1>2 DEF Nack
  <2> QED BY <1>1, <2>1 DEF RabbitInv, QueueInv, QueueTypes, Apart, RetriesLeft, Settled, InBroker
<1>3. CASE m \in Range(unacked)
  <2>1. /\ unacked' = RemoveFirst(unacked, m) /\ nacked_count' = nacked_count + 1
        /\ retries' = [retries EXCEPT ![m] = @ + 1]
        /\ IF requeue /\ retries'[m] < max_retries
           THEN pending' = <<m>> \o pending /\ dlq' = dlq
           ELSE dlq' = Append(dlq, m) /\ pending' = pending
    BY <1>3 DEF Nack
  <2>2. /\ unacked' \in Seq(Messages) /\ Len(unacked') = Len(unacked) - 1
        /\ Range(unacked') = Range(unacked) \ {m} /\ Once(unacked')
    BY <1>1, <1>3, <2>1, HoldsRemoved DEF QueueTypes, Apart
  <2>3. m \notin Range(pending) /\ m \notin Range(dlq)
    BY <1>1, <1>3 DEF Apart
  <2>4. /\ retries[m] \in Nat /\ retries[m] < max_retries /\ max_retries \in Nat
        /\ retries'[m] = retries[m] + 1 /\ \A k \in Messages : k # m => retries'[k] = retries[k]
        /\ retries' \in [Messages -> 0..max_retries]
    <3>1. max_retries \in Nat /\ retries \in [Messages -> 0..max_retries]
      BY <1>1, RabbitAssumption DEF QueueTypes
    <3>2. retries[m] < max_retries /\ retries[m] \in 0..max_retries
      BY <1>1, <1>3, <3>1 DEF RetriesLeft
    <3> QED BY <2>1, <3>1, <3>2
  <2>5. /\ Len(pending) \in Nat /\ Len(unacked) \in Nat /\ Len(dlq) \in Nat
        /\ Range(pending) \subseteq Messages /\ Range(unacked) \subseteq Messages
        /\ Range(dlq) \subseteq Messages
    BY <1>1, HoldsMessages DEF QueueTypes
  <2>6. CASE requeue /\ retries'[m] < max_retries
    <3> DEFINE one == <<m>>
    <3>1. pending' = one \o pending /\ dlq' = dlq
      BY <2>1, <2>6
    <3>2. one \in Seq(Messages) /\ Once(one) /\ Range(one) = {m} /\ Len(one) = 1
      BY DEF Once, Range
    <3> HIDE DEF one
    <3>3. /\ pending' \in Seq(Messages) /\ Len(pending') = Len(pending) + 1
          /\ Range(pending') = Range(pending) \cup {m} /\ Once(pending')
      <4>1. Range(one) \cap Range(pending) = {} /\ Once(pending) /\ pending \in Seq(Messages)
        BY <1>1, <2>3, <3>2 DEF QueueTypes, Apart
      <4> DEFINE b == one \o pending
      <4>2. /\ b \in Seq(Messages) /\ Len(b) = Len(one) + Len(pending)
            /\ Range(b) = Range(one) \cup Range(pending) /\ Once(b)
        BY <3>2, <4>1, HoldsJoined
      <4>3. pending' = b
        BY <3>1
      <4> HIDE DEF b
      <4> QED BY <2>5, <3>2, <4>2, <4>3
    <3>4. QueueTypes' /\ Apart'
      <4>1. QueueTypes'
        BY <1>1, <2>1, <2>2, <2>4, <3>1, <3>3 DEF QueueTypes
      <4>2. Apart'
        BY <1>1, <2>2, <2>3, <3>1, <3>3 DEF Apart
      <4> QED BY <4>1, <4>2
    <3>5. InBroker' = InBroker
      BY <1>3, <2>2, <3>1, <3>3 DEF InBroker
    <3>6. RetriesLeft'
      BY <1>1, <1>3, <2>2, <2>3, <2>4, <2>5, <2>6, <3>1, <3>3, <3>5 DEF RetriesLeft, InBroker
    <3>7. Settled' = Settled
      BY <3>5 DEF Settled
    <3> QED BY <1>1, <2>2, <2>5, <3>1, <3>3, <3>4, <3>6, <3>7 DEF RabbitInv, QueueInv, QueueTypes
  <2>7. CASE ~(requeue /\ retries'[m] < max_retries)
    <3>1. dlq' = Append(dlq, m) /\ pending' = pending
      BY <2>1, <2>7
    <3>2. /\ dlq' \in Seq(Messages) /\ Len(dlq') = Len(dlq) + 1
          /\ Range(dlq') = Range(dlq) \cup {m} /\ Once(dlq')
      BY <1>1, <2>3, <3>1, HoldsAppended DEF QueueTypes, Apart
    <3>3. QueueTypes' /\ Apart'
      BY <1>1, <2>1, <2>2, <2>3, <2>4, <3>1, <3>2 DEF QueueTypes, Apart
    <3>4. InBroker' = InBroker
      BY <1>3, <2>2, <3>1, <3>2 DEF InBroker
    <3>5. "exception" \in answers[m] \/ retries'[m] >= max_retries
      BY <2>4, <2>7
    <3>6. RetriesLeft'
      BY <1>1, <1>3, <2>2, <2>3, <2>4, <2>5, <3>1, <3>2, <3>4, <3>5 DEF RetriesLeft, InBroker
    <3>7. Settled' = Settled
      BY <3>4 DEF Settled
    <3> QED BY <1>1, <2>2, <2>5, <3>1, <3>2, <3>3, <3>6, <3>7 DEF RabbitInv, QueueInv, QueueTypes
  <2> QED BY <2>6, <2>7
<1> QED BY <1>2, <1>3

LEMMA RequeueKeeps ==
  ASSUME RabbitInv, RequeueUnacked, answers' = answers
  PROVE  QueueInv'
<1>1. /\ QueueTypes /\ Apart /\ RetriesLeft
      /\ pending' = Reverse(unacked) \o pending /\ unacked' = <<>>
      /\ UNCHANGED <<dlq, retries, enqueued_count, acked_count, nacked_count>>
  BY DEF RabbitInv, QueueInv, RequeueUnacked
<1> DEFINE back == Reverse(unacked)
<1>2. /\ back \in Seq(Messages) /\ Len(back) = Len(unacked)
      /\ Range(back) = Range(unacked) /\ Once(back) /\ pending' = back \o pending
  BY <1>1, HoldsReversed DEF QueueTypes, Apart
<1> HIDE DEF back
<1>3. /\ pending' \in Seq(Messages) /\ Len(pending') = Len(unacked) + Len(pending)
      /\ Range(pending') = Range(unacked) \cup Range(pending) /\ Once(pending')
  <2>1. Range(back) \cap Range(pending) = {} /\ Once(pending) /\ pending \in Seq(Messages)
    BY <1>1, <1>2 DEF QueueTypes, Apart
  <2> DEFINE b == back \o pending
  <2>2. /\ b \in Seq(Messages) /\ Len(b) = Len(back) + Len(pending)
        /\ Range(b) = Range(back) \cup Range(pending) /\ Once(b)
    BY <1>2, <2>1, HoldsJoined
  <2>3. pending' = b
    BY <1>2
  <2> HIDE DEF b
  <2> QED BY <1>2, <2>2, <2>3
<1>4. unacked' \in Seq(Messages) /\ Len(unacked') = 0 /\ Range(unacked') = {} /\ Once(unacked')
  BY <1>1 DEF Range, Once
<1>5. QueueTypes' /\ Apart'
  BY <1>1, <1>3, <1>4 DEF QueueTypes, Apart
<1>6. InBroker' = InBroker
  BY <1>1, <1>3, <1>4 DEF InBroker
<1>7. RetriesLeft'
  BY <1>1, <1>3, <1>4, <1>6 DEF RetriesLeft
<1>8. Settled' = Settled
  BY <1>6 DEF Settled
<1>9. Len(pending) \in Nat /\ Len(unacked) \in Nat /\ Len(dlq) \in Nat
  BY <1>1, HoldsMessages DEF QueueTypes
<1> QED BY <1>1, <1>3, <1>4, <1>5, <1>7, <1>8, <1>9 DEF RabbitInv, QueueInv, QueueTypes

LEMMA PutKeeps ==
  ASSUME RabbitInv, NEW m \in Messages, Put(m)
  PROVE  QueueInv'
<1>1. /\ QueueTypes /\ Apart /\ RetriesLeft
      /\ pending' = Append(pending, m) /\ enqueued_count' = enqueued_count + 1
      /\ answers[m] = {}
      /\ UNCHANGED <<unacked, dlq, retries, acked_count, nacked_count, answers>>
  BY DEF RabbitInv, QueueInv, Put, NeverPut, consumerVars
<1>2. m \notin InBroker
  BY <1>1, BrokerHolds DEF Put, NeverPut
<1>3. /\ pending' \in Seq(Messages) /\ Len(pending') = Len(pending) + 1
      /\ Range(pending') = Range(pending) \cup {m} /\ Once(pending')
  BY <1>1, <1>2, HoldsAppended DEF QueueTypes, Apart, InBroker
<1>4. QueueTypes' /\ Apart'
  BY <1>1, <1>2, <1>3 DEF QueueTypes, Apart, InBroker
<1>5. InBroker' = InBroker \cup {m}
  BY <1>1, <1>3 DEF InBroker
<1>6. RetriesLeft'
  <2>1. retries[m] = 0 /\ max_retries > 0
    BY <1>1, <1>2, RabbitAssumption DEF RetriesLeft
  <2> QED BY <1>1, <1>3, <1>5, <2>1 DEF RetriesLeft
<1>7. Settled' = Settled
  BY <1>1, <1>5 DEF Settled
<1>8. Len(pending) \in Nat /\ Len(unacked) \in Nat /\ Len(dlq) \in Nat
  BY <1>1, HoldsMessages DEF QueueTypes
<1> QED BY <1>1, <1>3, <1>4, <1>6, <1>7, <1>8 DEF RabbitInv, QueueInv, QueueTypes

LEMMA TakeKeeps ==
  ASSUME RabbitInv, pending # <<>>, pending' = Tail(pending),
         unacked' = Append(unacked, Head(pending)),
         UNCHANGED <<dlq, retries, enqueued_count, acked_count, nacked_count, answers>>
  PROVE  QueueInv' /\ Head(pending) \in Messages
<1>1. QueueTypes /\ Apart /\ RetriesLeft
  BY DEF RabbitInv, QueueInv
<1> DEFINE m == Head(pending)
<1>2. /\ pending' \in Seq(Messages) /\ Len(pending') = Len(pending) - 1 /\ Len(pending) \in Nat
      /\ m \in Messages /\ m \in Range(pending)
      /\ Range(pending') = Range(pending) \ {m} /\ Once(pending')
  BY <1>1, HoldsTail DEF QueueTypes, Apart
<1> HIDE DEF m
<1>3. m \notin Range(unacked) /\ m \notin Range(dlq)
  BY <1>1, <1>2 DEF Apart
<1>4. /\ unacked' \in Seq(Messages) /\ Len(unacked') = Len(unacked) + 1
      /\ Range(unacked') = Range(unacked) \cup {m} /\ Once(unacked')
  BY <1>1, <1>2, <1>3, HoldsAppended DEF QueueTypes, Apart, m
<1>5. QueueTypes' /\ Apart'
  BY <1>1, <1>2, <1>3, <1>4 DEF QueueTypes, Apart
<1>6. InBroker' = InBroker
  BY <1>2, <1>4 DEF InBroker
<1>7. RetriesLeft'
  BY <1>1, <1>2, <1>4, <1>6 DEF RetriesLeft
<1>8. Settled' = Settled
  BY <1>6 DEF Settled
<1>9. Len(unacked) \in Nat /\ Len(dlq) \in Nat
  BY <1>1, HoldsMessages DEF QueueTypes
<1> QED BY <1>1, <1>2, <1>4, <1>5, <1>7, <1>8, <1>9 DEF RabbitInv, QueueInv, QueueTypes, m

\* What handlers say only adds to what they have said.
LEMMA HandleKeeps ==
  ASSUME RabbitInv, NEW m \in Messages, NEW v \in {"true", "false", "exception"},
         answers' = [answers EXCEPT ![m] = @ \cup {v}], UNCHANGED queueVars
  PROVE  /\ QueueInv' /\ IsFiniteSet(Answered') /\ v \in answers'[m]
         /\ answers' \in [Messages -> SUBSET {"true", "false", "exception"}]
         /\ \A k \in Messages : answers[k] \subseteq answers'[k]
<1>1. answers \in [Messages -> SUBSET {"true", "false", "exception"}] /\ IsFiniteSet(Answered)
  BY DEF RabbitInv, ConsumersKept
<1>2. /\ answers' \in [Messages -> SUBSET {"true", "false", "exception"}]
      /\ \A k \in Messages : answers[k] \subseteq answers'[k]
      /\ \A k \in Messages : k # m => answers'[k] = answers[k]
      /\ v \in answers'[m]
  BY <1>1
<1>3. Answered' = Answered \cup {m}
  BY <1>2 DEF Answered
<1>4. IsFiniteSet(Answered')
  BY <1>1, <1>3, FS_AddElement
<1>5. UNCHANGED <<pending, unacked, dlq, retries, enqueued_count, acked_count, nacked_count>>
  BY DEF queueVars
<1>6. InBroker' = InBroker /\ QueueTypes' /\ Apart'
  BY <1>5 DEF RabbitInv, QueueInv, QueueTypes, Apart, InBroker
<1>7. RetriesLeft'
  <2>1. RetriesLeft /\ Range(dlq) \subseteq Messages
    BY HoldsMessages DEF RabbitInv, QueueInv, QueueTypes
  <2>2. \A k \in Range(dlq) : answers[k] \subseteq answers'[k]
    BY <1>2, <2>1
  <2>3. \A k \in Messages : answers'[k] = {} => answers[k] = {}
    BY <1>2
  <2> QED BY <1>5, <1>6, <2>1, <2>2, <2>3 DEF RetriesLeft
<1>8. Settled \subseteq Settled' /\ Settled' \subseteq Answered'
  BY <1>2, <1>6 DEF Settled, Answered
<1>9. Cardinality(Settled) <= Cardinality(Settled')
      /\ Cardinality(Settled) \in Nat /\ Cardinality(Settled') \in Nat
  BY <1>4, <1>8, FS_Subset, FS_CardinalityType
<1>10. acked_count' <= Cardinality(Settled') /\ acked_count \in Nat
  BY <1>5, <1>9 DEF RabbitInv, QueueInv, QueueTypes
<1>11. enqueued_count' = Len(pending') + Len(unacked') + Len(dlq') + acked_count'
  BY <1>5 DEF RabbitInv, QueueInv
<1> QED BY <1>2, <1>4, <1>6, <1>7, <1>10, <1>11 DEF QueueInv

LEMMA RabbitInitInv == ASSUME RabbitInit PROVE RabbitInv
<1> USE DEF RabbitInit
<1>0. max_retries \in Nat
  BY RabbitAssumption
<1>1. QueueTypes /\ Apart
  BY <1>0 DEF QueueTypes, Apart, Once, Range
<1>2. RetriesLeft
  BY <1>0 DEF RetriesLeft, InBroker, Range
<1>3. Answered = {} /\ Settled = {}
  BY DEF Answered, Settled
<1>4. IsFiniteSet(Answered) /\ Cardinality(Settled) = 0
  BY <1>3, FS_EmptySet
<1>5. ConsumersKept
  BY <1>4 DEF ConsumersKept
<1>6. Len(pending) = 0 /\ Len(unacked) = 0 /\ Len(dlq) = 0
  OBVIOUS
<1> QED BY <1>1, <1>2, <1>4, <1>5, <1>6 DEF RabbitInv, QueueInv

\* Consumers that stay out of a handler's answers keep their verdicts.
LEMMA LeaveKeeps ==
  ASSUME ConsumersKept, NEW c \in Consumers, Leave(c), disconnects' \in Nat
  PROVE  ConsumersKept' /\ answers' = answers
<1>1. /\ at' = [at EXCEPT ![c] = "out"]
      /\ holding' = [holding EXCEPT ![c] = NoMessage]
      /\ verdict' = [verdict EXCEPT ![c] = "none"]
      /\ count' = [count EXCEPT ![c] = 0] /\ answers' = answers
  BY DEF Leave
<1>2. Answered' = Answered
  BY <1>1 DEF Answered
<1> QED BY <1>1, <1>2 DEF ConsumersKept

LEMMA GetStep == ASSUME RabbitInv, NEW c \in Consumers, Get(c) PROVE RabbitInv'
<1>1. disconnects' = disconnects /\ ConsumersKept /\ disconnects \in Nat
  BY DEF Get, RabbitInv, ConsumersKept
<1>2. CASE pending = <<>>
  <2>1. Leave(c) /\ UNCHANGED queueVars
    BY <1>2 DEF Get
  <2>2. ConsumersKept' /\ answers' = answers
    BY <1>1, <2>1, LeaveKeeps
  <2> QED BY <2>1, <2>2 DEF RabbitInv, queueVars, QueueInv, QueueTypes, Apart, RetriesLeft,
                            Settled, InBroker
<1>3. CASE pending # <<>>
  <2>1. /\ pending' = Tail(pending) /\ unacked' = Append(unacked, Head(pending))
        /\ at' = [at EXCEPT ![c] = "got"]
        /\ holding' = [holding EXCEPT ![c] = Head(pending)]
        /\ UNCHANGED <<dlq, retries, enqueued_count, acked_count, nacked_count, verdict, count,
                       answers>>
    BY <1>3 DEF Get
  <2>2. QueueInv' /\ Head(pending) \in Messages
    BY <1>3, <2>1, TakeKeeps
  <2>3. Answered' = Answered
    BY <2>1 DEF Answered
  <2>4. ConsumersKept'
    BY <1>1, <2>1, <2>2, <2>3 DEF ConsumersKept
  <2> QED BY <2>2, <2>4 DEF RabbitInv
<1> QED BY <1>2, <1>3

LEMMA PutBackStep == ASSUME RabbitInv, NEW c \in Consumers, PutBack(c) PROVE RabbitInv'
<1>1. /\ Nack(holding[c], TRUE) /\ Leave(c) /\ disconnects' = disconnects /\ ConsumersKept
      /\ disconnects \in Nat /\ holding[c] \in Messages
  BY DEF PutBack, RabbitInv, ConsumersKept
<1>2. ConsumersKept' /\ answers' = answers
  BY <1>1, LeaveKeeps
<1>3. QueueInv'
  BY <1>1, <1>2, NackKeeps
<1> QED BY <1>2, <1>3 DEF RabbitInv

LEMMA HandleStep == ASSUME RabbitInv, NEW c \in Consumers, Handle(c) PROVE RabbitInv'
<1> DEFINE m == holding[c]
<1>1. m \in Messages /\ ConsumersKept
  BY DEF Handle, RabbitInv, ConsumersKept
<1>2. PICK v \in {"true", "false", "exception"} :
        /\ verdict' = [verdict EXCEPT ![c] = v]
        /\ answers' = [answers EXCEPT ![m] = @ \cup {v}]
        /\ at' = [at EXCEPT ![c] = "settling"]
        /\ UNCHANGED <<queueVars, holding, count, disconnects>>
  BY DEF Handle
<1>3. /\ QueueInv' /\ IsFiniteSet(Answered') /\ v \in answers'[m]
      /\ answers' \in [Messages -> SUBSET {"true", "false", "exception"}]
      /\ \A k \in Messages : answers[k] \subseteq answers'[k]
  <2> HIDE DEF m
  <2> QED BY <1>1, <1>2, HandleKeeps
<1>4. /\ at' \in [Consumers -> {"out", "polling", "got", "settling"}]
      /\ verdict' \in [Consumers -> {"none", "true", "false", "exception"}]
      /\ holding' = holding /\ count' = count /\ disconnects' = disconnects
  BY <1>1, <1>2 DEF ConsumersKept
<1>5. ASSUME NEW d \in Consumers
      PROVE  /\ at'[d] \in {"got", "settling"} => holding'[d] \in Messages
             /\ at'[d] = "settling" => verdict'[d] \in answers'[holding'[d]]
  <2>1. CASE d = c
    BY <1>1, <1>2, <1>3, <1>4, <2>1 DEF ConsumersKept
  <2>2. CASE d # c
    BY <1>1, <1>2, <1>3, <1>4, <2>2 DEF ConsumersKept
  <2> QED BY <2>1, <2>2
<1>6. ConsumersKept'
  BY <1>1, <1>3, <1>4, <1>5 DEF ConsumersKept
<1> QED BY <1>3, <1>6 DEF RabbitInv

LEMMA SettleStep == ASSUME RabbitInv, NEW c \in Consumers, Settle(c) PROVE RabbitInv'
<1> DEFINE m == holding[c]
<1>1. /\ m \in Messages /\ verdict[c] \in answers[m] /\ ConsumersKept
      /\ verdict[c] \in {"true", "false", "exception"}
  BY DEF Settle, RabbitInv, ConsumersKept
<1>2. /\ verdict[c] = "true" => Ack(m)
      /\ verdict[c] = "false" => Nack(m, TRUE)
      /\ verdict[c] = "exception" => Nack(m, FALSE)
      /\ answers' = answers
  BY DEF Settle
<1>3. QueueInv'
  <2> HIDE DEF m
  <2>1. CASE verdict[c] = "true"
    BY <1>1, <1>2, <2>1, AckKeeps
  <2>2. CASE verdict[c] = "false"
    BY <1>1, <1>2, <2>2, NackKeeps
  <2>3. CASE verdict[c] = "exception"
    BY <1>1, <1>2, <2>3, NackKeeps
  <2> QED BY <1>1, <2>1, <2>2, <2>3
<1>4. /\ at' = [at EXCEPT ![c] = "polling"]
      /\ holding' = [holding EXCEPT ![c] = NoMessage]
      /\ verdict' = [verdict EXCEPT ![c] = "none"]
      /\ count' = [count EXCEPT ![c] = @ + 1] /\ disconnects' = disconnects
  BY DEF Settle
<1>5. Answered' = Answered
  BY <1>2 DEF Answered
<1>6. ConsumersKept'
  BY <1>1, <1>2, <1>4, <1>5 DEF ConsumersKept
<1> QED BY <1>3, <1>6 DEF RabbitInv

LEMMA DisconnectStep == ASSUME RabbitInv, NEW c \in Consumers, Disconnect(c) PROVE RabbitInv'
<1>1. RequeueUnacked /\ Leave(c) /\ disconnects' = disconnects + 1 /\ ConsumersKept
  BY DEF Disconnect, RabbitInv
<1>2. disconnects' \in Nat
  BY <1>1 DEF ConsumersKept
<1>3. ConsumersKept' /\ answers' = answers
  BY <1>1, <1>2, LeaveKeeps
<1>4. QueueInv'
  BY <1>1, <1>3, RequeueKeeps
<1> QED BY <1>3, <1>4 DEF RabbitInv

LEMMA RabbitStep == ASSUME RabbitInv, [RabbitNext]_rabbitVars PROVE RabbitInv'
<1>1. ASSUME NEW m \in Messages, Put(m) PROVE RabbitInv'
  <2>1. QueueInv'
    BY <1>1, PutKeeps
  <2>2. UNCHANGED <<at, holding, verdict, count, answers, disconnects>>
    BY <1>1 DEF Put, consumerVars
  <2>3. ConsumersKept'
    BY <2>2 DEF RabbitInv, ConsumersKept, Answered
  <2> QED BY <2>1, <2>3 DEF RabbitInv
<1>2. ASSUME NEW c \in Consumers, StartConsuming(c) PROVE RabbitInv'
  <2>1. /\ at' = [at EXCEPT ![c] = "polling"]
        /\ UNCHANGED <<pending, unacked, dlq, retries, enqueued_count, acked_count, nacked_count,
                       holding, verdict, count, answers, disconnects>>
    BY <1>2 DEF StartConsuming, queueVars
  <2>2. QueueInv' /\ Answered' = Answered
    BY <2>1 DEF RabbitInv, QueueInv, QueueTypes, Apart, RetriesLeft, Settled, InBroker, Answered
  <2>3. ConsumersKept'
    BY <2>1, <2>2 DEF RabbitInv, ConsumersKept
  <2> QED BY <2>2, <2>3 DEF RabbitInv
<1>3. ASSUME NEW c \in Consumers, Consume(c) \/ Disconnect(c) PROVE RabbitInv'
  BY <1>2, <1>3, GetStep, PutBackStep, HandleStep, SettleStep, DisconnectStep DEF Consume
<1>4. CASE UNCHANGED rabbitVars
  BY <1>4 DEF rabbitVars, RabbitInv, QueueInv, QueueTypes, Apart, RetriesLeft, Settled, InBroker,
              ConsumersKept, Answered
<1> QED BY <1>1, <1>3, <1>4 DEF RabbitNext

LEMMA RabbitInvHolds == ASSUME RabbitInv PROVE QueueKept
<1>1. QueueTypes /\ Apart /\ RetriesLeft /\ ConsumersKept
  BY DEF RabbitInv, QueueInv
<1>2. RabbitTypeOK
  BY <1>1 DEF RabbitTypeOK, QueueTypes, ConsumersKept
<1> DEFINE all == pending \o unacked \o dlq
<1>3. Range(all) = InBroker /\ Once(all) /\ all \in Seq(Messages)
  BY <1>1, BrokerHolds
<1>4. IsInjective(all)
  <2> HIDE DEF all
  <2>1. DOMAIN all = 1..Len(all)
    BY <1>3
  <2> QED BY <1>3, <2>1 DEF IsInjective, Once
<1>5. Conserved
  BY <1>4 DEF Conserved, RabbitInv, QueueInv
<1>6. AckedWasHandled
  <2>1. Settled = {m \in Messages : "true" \in answers[m] /\ m \notin Range(all)}
    BY <1>3 DEF Settled
  <2>2. acked_count <= Cardinality(Settled)
    BY DEF RabbitInv, QueueInv
  <2> QED BY <2>1, <2>2 DEF AckedWasHandled
<1>7. RetryBudget
  BY <1>1 DEF RetryBudget, RetriesLeft, Range
<1> QED BY <1>2, <1>5, <1>6, <1>7 DEF QueueKept

\* A queue with its dead letters and any number of consumers: a message is in
\* one place once, the counts agree, what is gone was acknowledged by a handler,
\* and only what failed too often or raised is dead-lettered.
THEOREM QueueIsKept == Spec => []QueueKept
<1>1. Init => RabbitInv
  BY RabbitInitInv DEF Init
<1>2. RabbitInv /\ [Next]_mcVars => RabbitInv'
  BY RabbitStep, OneSystemSteps
<1>3. RabbitInv => QueueKept
  BY RabbitInvHolds
<1> QED BY <1>1, <1>2, <1>3, PTL DEF Spec

-----------------------------------------------------------------------------
(* The priority queue and the delay queue *)

Entries == [key : Nat, seq : Nat, pushed : Nat]

TimedTypeOK ==
  /\ heap \subseteq Entries /\ IsFiniteSet(heap) /\ left \in Seq(Entries)
  /\ sequence \in Nat /\ clock \in Nat
  /\ stamp \in [Pollsters -> Nat] /\ \A p \in Pollsters : stamp[p] <= clock

\* An entry has a number of its own, in the heap or handed out.
Numbered ==
  /\ \A e \in heap : e.seq < sequence /\ e.pushed <= Len(left)
  /\ \A i \in 1..Len(left) : left[i].seq < sequence
  /\ \A e, f \in heap : e.seq = f.seq => e = f
  /\ \A i, j \in 1..Len(left) : left[i].seq = left[j].seq => i = j
  /\ \A e \in heap : \A i \in 1..Len(left) : e.seq # left[i].seq

\* An entry still in the heap comes after those that left since it was pushed.
HeapComesAfter ==
  \A e \in heap : \A i \in 1..Len(left) : e.pushed < i => Before2(left[i], e)

LeftInOrder ==
  \A i, j \in 1..Len(left) : i < j /\ left[j].pushed < i => Before2(left[i], left[j])

TimedInv ==
  /\ TimedTypeOK /\ Numbered /\ HeapComesAfter /\ LeftInOrder
  /\ Cardinality(heap) + Len(left) = sequence
  /\ which = "delay" => \A i \in 1..Len(left) : left[i].key <= clock

LEMMA TimedInitInv == ASSUME TimedInit PROVE TimedInv
<1>1. heap = {} /\ left = <<>> /\ sequence = 0 /\ clock = 0 /\ stamp = [p \in Pollsters |-> 0]
  BY DEF TimedInit
<1>2. IsFiniteSet(heap) /\ Cardinality(heap) = 0 /\ Len(left) = 0
  BY <1>1, FS_EmptySet
<1> QED BY <1>1, <1>2 DEF TimedInv, TimedTypeOK, Numbered, HeapComesAfter, LeftInOrder

\* A set of numbered entries that is not empty has a least one.
LEMMA LeastEntry ==
  ASSUME NEW H \in SUBSET Entries, H # {}, \A e, f \in H : e.seq = f.seq => e = f
  PROVE  Least(H) \in H /\ \A f \in H \ {Least(H)} : Before2(Least(H), f)
<1> DEFINE keys == {e.key : e \in H}
<1>1. \A e \in H : e.key \in Nat /\ e.seq \in Nat
  BY DEF Entries
<1>2. PICK k \in keys : \A l \in keys : k <= l
  <2>1. keys \in SUBSET Nat /\ keys # {}
    BY <1>1
  <2> HIDE DEF keys
  <2> QED BY <2>1, LeastMember
<1> DEFINE seqs == {e.seq : e \in {f \in H : f.key = k}}
<1>3. PICK s \in seqs : \A t \in seqs : s <= t
  <2>1. seqs \in SUBSET Nat /\ seqs # {}
    BY <1>1, <1>2
  <2> HIDE DEF seqs
  <2> QED BY <2>1, LeastMember
<1>4. PICK e \in H : e.key = k /\ e.seq = s
  BY <1>3
<1>5. \A f \in H \ {e} : Before2(e, f)
  <2> SUFFICES ASSUME NEW f \in H, f # e PROVE Before2(e, f)
    OBVIOUS
  <2>1. f.key \in keys /\ (f.key = k => f.seq \in seqs) /\ f.seq # e.seq
    BY <1>4
  <2>2. k <= f.key /\ (f.key = k => s <= f.seq) /\ k \in Nat /\ s \in Nat
    BY <1>1, <1>2, <1>3, <1>4, <2>1
  <2> QED BY <1>1, <1>4, <2>1, <2>2 DEF Before2
<1> QED BY <1>5 DEF Least

\* What happens when some of the entries leave in order, and all that stay come
\* after them.
LEMMA LeaveInOrder ==
  ASSUME TimedInv, NEW gone \in SUBSET heap, NEW ready \in [1..Cardinality(gone) -> gone],
         \A i, j \in DOMAIN ready : i < j => Before2(ready[i], ready[j]),
         \A e \in gone : \A f \in heap \ gone : Before2(e, f),
         which = "delay" => \A e \in gone : e.key <= clock,
         heap' = heap \ gone, left' = left \o ready,
         UNCHANGED <<which, sequence, clock, stamp>>
  PROVE  TimedInv'
<1> DEFINE n == Len(left)
           m == Cardinality(gone)
<1>1. /\ heap \subseteq Entries /\ IsFiniteSet(heap) /\ left \in Seq(Entries) /\ n \in Nat
      /\ sequence \in Nat /\ clock \in Nat
  BY DEF TimedInv, TimedTypeOK
<1>2. /\ IsFiniteSet(gone) /\ m \in Nat /\ Cardinality(heap) \in Nat
      /\ IsFiniteSet(heap') /\ Cardinality(heap') = Cardinality(heap) - m
  <2>1. IsFiniteSet(gone) /\ m \in Nat /\ Cardinality(heap) \in Nat
    BY <1>1, FS_Subset, FS_CardinalityType
  <2>2. heap \cap gone = gone
    OBVIOUS
  <2>3. IsFiniteSet(heap \ gone) /\ Cardinality(heap \ gone) = Cardinality(heap) - m
    BY <1>1, <2>1, <2>2, FS_Difference
  <2> QED BY <2>1, <2>3
<1>3. /\ left' \in Seq(Entries) /\ Len(left') = n + m
      /\ \A i \in 1..n + m : left'[i] = IF i <= n THEN left[i] ELSE ready[i - n]
  <2>1. ready \in Seq(Entries) /\ Len(ready) = m
    <3>1. gone \subseteq Entries
      BY <1>1
    <3> HIDE DEF m
    <3>2. ready \in [1..m -> Entries]
      BY <3>1 DEF m
    <3>3. ready \in Seq(Entries) /\ DOMAIN ready = 1..m
      BY <1>2, <3>2, SeqDef
    <3>4. Len(ready) \in Nat /\ 1..Len(ready) = 1..m
      BY <3>3
    <3> QED BY <1>2, <3>3, <3>4
  <2> HIDE DEF m
  <2> DEFINE b == left \o ready
  <2>2. /\ b \in Seq(Entries) /\ Len(b) = Len(left) + Len(ready)
        /\ \A i \in 1..Len(left) + Len(ready) :
             b[i] = IF i <= Len(left) THEN left[i] ELSE ready[i - Len(left)]
    BY <1>1, <2>1, ConcatProperties
  <2>3. left' = b
    OBVIOUS
  <2> HIDE DEF b
  <2> QED BY <2>1, <2>2, <2>3
<1>4. \A i \in 1..m : ready[i] \in gone
  OBVIOUS
<1>5. \A i, j \in 1..m : i < j => Before2(ready[i], ready[j])
  OBVIOUS
<1> HIDE DEF n, m
\* Where a place of the longer history is in what it was made of.
<1>6. ASSUME NEW i \in 1..n + m
      PROVE  \/ i \in 1..n /\ left'[i] = left[i]
             \/ i - n \in 1..m /\ left'[i] = ready[i - n] /\ left'[i] \in gone /\ i > n
  <2>1. CASE i <= n
    <3>1. i \in 1..n
      BY <1>1, <1>2, <2>1
    <3> QED BY <1>3, <2>1, <3>1
  <2>2. CASE ~(i <= n)
    <3>1. i - n \in 1..m /\ i > n
      BY <1>1, <1>2, <2>2
    <3> QED BY <1>3, <1>4, <2>2, <3>1
  <2> QED BY <2>1, <2>2
<1>7. /\ \A e \in heap : e.seq < sequence /\ e.pushed <= n
      /\ \A i \in 1..n : left[i].seq < sequence
      /\ \A e, f \in heap : e.seq = f.seq => e = f
      /\ \A i, j \in 1..n : left[i].seq = left[j].seq => i = j
      /\ \A e \in heap : \A i \in 1..n : e.seq # left[i].seq
  BY DEF TimedInv, Numbered, n
<1>8. \A e \in heap : \A i \in 1..n : e.pushed < i => Before2(left[i], e)
  BY DEF TimedInv, HeapComesAfter, n
<1>9. \A e \in Entries : ~Before2(e, e)
  BY DEF Before2, Entries
<1>10. \A i, j \in 1..m : ready[i] = ready[j] => i = j
  <2> SUFFICES ASSUME NEW i \in 1..m, NEW j \in 1..m, ready[i] = ready[j], i # j PROVE FALSE
    OBVIOUS
  <2>1. ready[i] \in Entries /\ (i < j \/ j < i)
    BY <1>1, <1>2, <1>4
  <2> QED BY <1>5, <1>9, <2>1
<1>11. TimedTypeOK'
  BY <1>1, <1>2, <1>3 DEF TimedInv, TimedTypeOK
<1>12. Numbered'
  <2>1. ASSUME NEW e \in heap' PROVE e.seq < sequence' /\ e.pushed <= Len(left')
    <3>1. e \in heap /\ e.seq < sequence /\ e.pushed <= n /\ e.pushed \in Nat
      BY <1>1, <1>7 DEF Entries
    <3> QED BY <1>1, <1>2, <1>3, <3>1
  <2>2. ASSUME NEW i \in 1..n + m PROVE left'[i].seq < sequence'
    BY <1>6, <1>7
  <2>3. ASSUME NEW i \in 1..n + m, NEW j \in 1..n + m, left'[i].seq = left'[j].seq PROVE i = j
    <3>1. CASE i \in 1..n /\ left'[i] = left[i]
      <4>1. j \in 1..n /\ left'[j] = left[j]
        BY <1>6, <1>7, <2>3, <3>1
      <4> QED BY <1>7, <2>3, <3>1, <4>1
    <3>2. CASE i - n \in 1..m /\ left'[i] = ready[i - n] /\ left'[i] \in gone
      <4>1. j - n \in 1..m /\ left'[j] = ready[j - n] /\ left'[j] \in gone
        BY <1>6, <1>7, <2>3, <3>2
      <4>2. ready[i - n] = ready[j - n]
        BY <1>7, <2>3, <3>2, <4>1
      <4>3. i - n = j - n
        BY <1>10, <3>2, <4>1, <4>2
      <4> QED BY <1>1, <4>3
    <3> QED BY <1>6, <3>1, <3>2
  <2>4. ASSUME NEW e \in heap', NEW i \in 1..n + m PROVE e.seq # left'[i].seq
    BY <1>6, <1>7
  <2>5. \A e, f \in heap' : e.seq = f.seq => e = f
    BY <1>7
  <2> QED BY <1>3, <2>1, <2>2, <2>3, <2>4, <2>5 DEF Numbered
<1>13. HeapComesAfter'
  <2> SUFFICES ASSUME NEW e \in heap', NEW i \in 1..n + m, e.pushed < i
               PROVE  Before2(left'[i], e)
    BY <1>3 DEF HeapComesAfter, Before2
  <2> QED BY <1>6, <1>8
<1>14. LeftInOrder'
  <2> SUFFICES ASSUME NEW i \in 1..n + m, NEW j \in 1..n + m, i < j, left'[j].pushed < i
               PROVE  Before2(left'[i], left'[j])
    BY <1>3 DEF LeftInOrder, Before2
  <2>1. CASE j \in 1..n /\ left'[j] = left[j]
    <3>1. i \in 1..n /\ left'[i] = left[i]
      <4>1. i \in 1..n /\ i <= n
        BY <1>1, <1>2, <2>1
      <4> QED BY <1>3, <4>1
    <3> QED BY <2>1, <3>1 DEF TimedInv, LeftInOrder, n
  <2>2. CASE j - n \in 1..m /\ left'[j] = ready[j - n] /\ left'[j] \in gone
    <3>1. CASE i \in 1..n /\ left'[i] = left[i]
      BY <1>8, <2>2, <3>1
    <3>2. CASE i - n \in 1..m /\ left'[i] = ready[i - n]
      <4>1. i - n < j - n
        BY <1>1, <1>2
      <4> QED BY <1>5, <2>2, <3>2, <4>1
    <3> QED BY <1>6, <3>1, <3>2
  <2> QED BY <1>6, <2>1, <2>2
<1>15. Cardinality(heap') + Len(left') = sequence'
  <2>1. Cardinality(heap) + n = sequence
    BY DEF TimedInv, n
  <2> QED BY <1>1, <1>2, <1>3, <2>1
<1>16. which' = "delay" => \A i \in 1..n + m : left'[i].key <= clock'
  <2>1. which = "delay" => \A i \in 1..n : left[i].key <= clock
    BY DEF TimedInv, n
  <2> QED BY <1>6, <2>1
<1> QED BY <1>3, <1>11, <1>12, <1>13, <1>14, <1>15, <1>16 DEF TimedInv

LEMMA PushStep ==
  ASSUME TimedInv, NEW key \in Nat, Push(key), UNCHANGED <<which, left, clock, stamp>>
  PROVE  TimedInv'
<1> DEFINE e == [key |-> key, seq |-> sequence, pushed |-> Len(left)]
<1>1. heap' = heap \cup {e} /\ sequence' = sequence + 1
  BY DEF Push
<1>2. /\ TimedTypeOK /\ Numbered /\ HeapComesAfter /\ LeftInOrder
      /\ sequence \in Nat /\ Len(left) \in Nat /\ left \in Seq(Entries) /\ heap \subseteq Entries
  BY DEF TimedInv, TimedTypeOK
<1>3. e \in Entries /\ e.seq = sequence /\ e.pushed = Len(left)
  BY <1>2 DEF Entries
<1> HIDE DEF e
<1>4. e \notin heap
  BY <1>2, <1>3 DEF Numbered
<1>5. IsFiniteSet(heap') /\ Cardinality(heap') = Cardinality(heap) + 1 /\ Cardinality(heap) \in Nat
  <2>1. IsFiniteSet(heap)
    BY <1>2 DEF TimedTypeOK
  <2> QED BY <1>1, <1>4, <2>1, FS_AddElement, FS_CardinalityType
<1>6. TimedTypeOK'
  BY <1>1, <1>2, <1>3, <1>5 DEF TimedTypeOK
<1>7. /\ \A f \in heap : f.seq < sequence /\ f.pushed <= Len(left) /\ f.seq \in Nat
      /\ \A i \in 1..Len(left) : left[i].seq < sequence /\ left[i].seq \in Nat
  <2>1. \A i \in 1..Len(left) : left[i] \in Entries
    BY <1>2, ElementOfSeq
  <2> QED BY <1>2, <2>1 DEF Numbered, Entries
<1>8. Numbered'
  <2>1. \A f \in heap' : f.seq < sequence' /\ f.pushed <= Len(left')
    BY <1>1, <1>2, <1>3, <1>7
  <2>2. \A i \in 1..Len(left') : left'[i].seq < sequence'
    BY <1>1, <1>2, <1>7
  <2>3. \A f, g \in heap' : f.seq = g.seq => f = g
    BY <1>1, <1>2, <1>3, <1>7 DEF Numbered
  <2>4. \A f \in heap' : \A i \in 1..Len(left') : f.seq # left'[i].seq
    BY <1>1, <1>2, <1>3, <1>7 DEF Numbered
  <2> QED BY <1>2, <2>1, <2>2, <2>3, <2>4 DEF Numbered
<1>9. HeapComesAfter'
  BY <1>1, <1>2, <1>3 DEF HeapComesAfter, Before2
<1>10. Cardinality(heap') + Len(left') = sequence'
  BY <1>1, <1>2, <1>5 DEF TimedInv
<1> QED BY <1>2, <1>6, <1>8, <1>9, <1>10 DEF TimedInv, LeftInOrder, Before2

LEMMA DequeueStep == ASSUME TimedInv, DequeuePriority PROVE TimedInv'
<1> DEFINE e == Least(heap)
           ready == <<e>>
<1>1. /\ which = "priority" /\ heap # {} /\ heap' = heap \ {e} /\ left' = Append(left, e)
      /\ UNCHANGED <<which, sequence, clock, stamp>>
  BY DEF DequeuePriority
<1>2. heap \in SUBSET Entries /\ left \in Seq(Entries)
  BY DEF TimedInv, TimedTypeOK
<1>3. e \in heap /\ \A f \in heap \ {e} : Before2(e, f)
  <2>1. \A f, g \in heap : f.seq = g.seq => f = g
    BY DEF TimedInv, Numbered
  <2> QED BY <1>1, <1>2, <2>1, LeastEntry
<1> HIDE DEF e
<1>4. left' = left \o ready
  BY <1>1, <1>2, <1>3, AppendIsConcat
<1>5. Cardinality({e}) = 1
  BY FS_Singleton
<1>6. ready \in [1..Cardinality({e}) -> {e}] /\ DOMAIN ready = 1..1
  BY <1>5
<1>7. \A i, j \in DOMAIN ready : i < j => Before2(ready[i], ready[j])
  BY <1>6
<1>8. {e} \in SUBSET heap /\ \A f \in {e} : \A g \in heap \ {e} : Before2(f, g)
  BY <1>3
<1> HIDE DEF ready
<1> QED BY <1>1, <1>4, <1>6, <1>7, <1>8, LeaveInOrder

LEMMA PollDueStep == ASSUME TimedInv, NEW p \in Pollsters, PollDue(p) PROVE TimedInv'
<1> DEFINE due == {e \in heap : e.key <= stamp[p]}
<1>1. heap' = heap \ due /\ UNCHANGED <<which, sequence, clock, stamp>>
  BY DEF PollDue
<1>2. PICK ready \in [1..Cardinality(due) -> due] :
        /\ \A i, j \in DOMAIN ready : i < j => Before2(ready[i], ready[j])
        /\ left' = left \o ready
  BY DEF PollDue
<1>3. heap \subseteq Entries /\ stamp[p] \in Nat /\ stamp[p] <= clock /\ clock \in Nat
  BY DEF TimedInv, TimedTypeOK
<1>4. due \in SUBSET heap
  OBVIOUS
<1>5. \A e \in due : \A f \in heap \ due : Before2(e, f)
  BY <1>3 DEF Before2, Entries
<1>6. \A e \in due : e.key <= clock
  BY <1>3 DEF Entries
<1> HIDE DEF due
<1> QED BY <1>1, <1>2, <1>4, <1>5, <1>6, LeaveInOrder

LEMMA TimedStep == ASSUME TimedInv, [TimedNext]_timedVars PROVE TimedInv'
<1>1. ASSUME NEW p \in Priorities, EnqueuePriority(p) PROVE TimedInv'
  <2>1. p \in Nat
    BY TimedAssumption
  <2> QED BY <1>1, <2>1, PushStep DEF EnqueuePriority
<1>2. CASE DequeuePriority
  BY <1>2, DequeueStep
<1>3. ASSUME NEW p \in Pollsters, NEW next, ReadClock(p, next) PROVE TimedInv'
  <2>1. stamp' = [stamp EXCEPT ![p] = clock] /\ UNCHANGED <<which, heap, sequence, left, clock>>
    BY <1>3 DEF ReadClock
  <2>2. TimedTypeOK'
    BY <2>1 DEF TimedInv, TimedTypeOK
  <2> QED BY <2>1, <2>2 DEF TimedInv, Numbered, HeapComesAfter, LeftInOrder, Before2
<1>4. ASSUME NEW p \in Pollsters, EnqueueDelayed(p) PROVE TimedInv'
  <2>1. PICK d \in Delays : Push(stamp[p] + d)
    BY <1>4 DEF EnqueueDelayed
  <2>2. stamp[p] + d \in Nat
    BY TimedAssumption DEF TimedInv, TimedTypeOK
  <2>3. UNCHANGED <<which, left, clock, stamp>>
    BY <1>4 DEF EnqueueDelayed
  <2> QED BY <2>1, <2>2, <2>3, PushStep
<1>5. ASSUME NEW p \in Pollsters, PollDue(p) PROVE TimedInv'
  BY <1>5, PollDueStep
<1>6. CASE Passes
  <2>1. clock' = clock + 1 /\ UNCHANGED <<which, heap, sequence, left, stamp>>
    BY <1>6 DEF Passes
  <2>2. TimedTypeOK'
    BY <2>1 DEF TimedInv, TimedTypeOK
  <2>3. which' = "delay" => \A i \in 1..Len(left') : left'[i].key <= clock'
    <3>1. /\ \A i \in 1..Len(left) : left[i] \in Entries
          /\ clock \in Nat
      BY ElementOfSeq DEF TimedInv, TimedTypeOK
    <3>2. \A i \in 1..Len(left) : left[i].key \in Nat
      BY <3>1 DEF Entries
    <3> QED BY <2>1, <3>1, <3>2 DEF TimedInv
  <2> QED BY <2>1, <2>2, <2>3 DEF TimedInv, Numbered, HeapComesAfter, LeftInOrder, Before2
<1>7. CASE UNCHANGED timedVars
  BY <1>7 DEF timedVars, TimedInv, TimedTypeOK, Numbered, HeapComesAfter, LeftInOrder, Before2
<1> QED BY <1>1, <1>2, <1>3, <1>4, <1>5, <1>6, <1>7 DEF TimedNext, PriorityOps, DelayOps

\* PriorityQueue and DelayQueue, whatever threads enqueue and poll and however
\* late they act on the clock they read: nothing is lost or handed out twice or
\* early, and what waits is handed out after all that come before it.
THEOREM TimedQueuesKeepOrder == Spec => []UrgentFirstNeverEarly
<1>1. Init => TimedInv
  BY TimedInitInv DEF Init
<1>2. TimedInv /\ [Next]_mcVars => TimedInv'
  BY TimedStep, OneSystemSteps
<1>3. TimedInv => UrgentFirstNeverEarly
  <2> SUFFICES ASSUME TimedInv PROVE UrgentFirstNeverEarly
    OBVIOUS
  <2>1. DOMAIN left = 1..Len(left)
    BY DEF TimedInv, TimedTypeOK
  <2> QED BY <2>1 DEF TimedInv, Numbered, LeftInOrder, UrgentFirstNeverEarly
<1> QED BY <1>1, <1>2, <1>3, PTL DEF Spec

=============================================================================
