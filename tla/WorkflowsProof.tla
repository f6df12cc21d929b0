----------------------------- MODULE WorkflowsProof -----------------------------
(***************************************************************************)
(* Proofs about what is done once, in order or not at all, for any number   *)
(* of threads, messages, orders, steps and jobs: the effects of the         *)
(* exactly-once consumer, the outbox, the row patterns, the HTTP methods,   *)
(* the saga, the pools, the batch processor and the background jobs.        *)
(***************************************************************************)
EXTENDS MCWorkflows, FiniteSetTheorems, SequenceTheorems, NaturalsInduction,
        WellFoundedInduction, FunctionTheorems, TLAPS

\* A step of the whole is one of one system, and none of the others.
LEMMA OneSystemSteps ==
  ASSUME [Next]_mcVars
  PROVE  /\ [DeliveryNext]_deliveryVars /\ [OutboxNext]_outboxVars /\ [RowNext]_rowVars
         /\ [HttpNext]_httpVars /\ [SagaNext]_sagaVars /\ [PoolNext]_poolVars
         /\ [BatchNext]_batchVars /\ [JobsNext]_jobVars
BY DEF Next, mcVars, onceVars, asyncVars, InDelivery, InOutbox, InRows, InHttp, InOnce,
       InSaga, InBatch, InPool, InJobs, InAsync

-----------------------------------------------------------------------------
(* The exactly-once consumer: within the deduplication window a message takes *)
(* effect at most once per consumer thread.                                   *)

\* The threads that stand at a label with message m in hand.
With(m, label) == {c \in Consumers : consumer[c] = label /\ Head(msgs[c]) = m}

DeliveryTypeOK ==
  /\ sending \in [Producers -> {<<>>} \cup (MessageIds \X Nat)]
  /\ topic \in Seq(MessageIds)
  /\ msgs \in [Consumers -> Seq(MessageIds)]
  /\ consumer \in [Consumers -> {"idle", "emptying", "checking", "handling", "marking"}]
  /\ \A c \in Consumers : consumer[c] # "idle" => msgs[c] # <<>>
  /\ seen_ids \subseteq MessageIds
  /\ handled \in [MessageIds -> Nat]

\* Before a message is marked as seen, each of its effects is of a thread that
\* is about to mark it; and the threads that have passed the test for duplicates
\* and not handled it yet are others than those that have.
Within(m) ==
  /\ m \notin seen_ids => handled[m] <= Cardinality(With(m, "marking"))
  /\ handled[m] + Cardinality(With(m, "handling")) <= Cardinality(Consumers)

DeliveryInv == DeliveryTypeOK /\ \A m \in MessageIds \ lapsed : Within(m)

\* The threads at a label are finitely many.
LEMMA WithFinite ==
  ASSUME NEW m, NEW label
  PROVE  IsFiniteSet(With(m, label)) /\ Cardinality(With(m, label)) \in Nat
<1>1. With(m, label) \subseteq Consumers
  BY DEF With
<1> QED BY <1>1, FS_Subset, FS_CardinalityType, DeliveryAssumption

\* What moves no thread towards the handler of m, and takes none from marking m,
\* keeps what is said of m.
LEMMA Undisturbed ==
  ASSUME DeliveryTypeOK, NEW m \in MessageIds, Within(m),
         handled'[m] = handled[m],
         With(m, "handling")' \subseteq With(m, "handling"),
         m \notin seen_ids' => m \notin seen_ids /\ With(m, "marking") \subseteq With(m, "marking")'
  PROVE  Within(m)'
<1>1. Cardinality(With(m, "handling")') <= Cardinality(With(m, "handling"))
  BY WithFinite, FS_Subset
<1>2. Cardinality(With(m, "handling")') \in Nat
  BY WithFinite, FS_Subset, FS_CardinalityType
<1>3. IsFiniteSet(With(m, "marking")')
  <2>1. With(m, "marking")' \subseteq Consumers
    BY DEF With
  <2> QED BY <2>1, FS_Subset, DeliveryAssumption
<1>4. m \notin seen_ids' =>
        Cardinality(With(m, "marking")) <= Cardinality(With(m, "marking")')
  BY <1>3, FS_Subset
<1>5. /\ handled[m] \in Nat
      /\ Cardinality(With(m, "handling")) \in Nat
      /\ Cardinality(With(m, "marking")) \in Nat
      /\ Cardinality(With(m, "marking")') \in Nat
      /\ Cardinality(Consumers) \in Nat
  BY <1>3, WithFinite, FS_CardinalityType, DeliveryAssumption DEF DeliveryTypeOK
<1> QED BY <1>1, <1>2, <1>4, <1>5 DEF Within

\* Nothing has been sent, taken or handled at first.
LEMMA DeliveryInitInv == ASSUME DeliveryInit PROVE DeliveryInv
<1> USE DEF DeliveryInit
<1>1. DeliveryTypeOK
  BY DEF DeliveryTypeOK
<1>2. ASSUME NEW m \in MessageIds PROVE Within(m)
  <2>1. With(m, "handling") = {} /\ With(m, "marking") = {}
    BY DEF With
  <2>2. Cardinality(Consumers) \in Nat
    BY FS_CardinalityType, DeliveryAssumption
  <2>3. Cardinality(With(m, "handling")) = 0 /\ Cardinality(With(m, "marking")) = 0
    BY <2>1, FS_EmptySet
  <2>4. handled[m] = 0
    OBVIOUS
  <2> QED BY <2>2, <2>3, <2>4 DEF Within
<1> QED BY <1>1, <1>2 DEF DeliveryInv

\* The producers and the network only change what is in the queue.
LEMMA ProduceStep ==
  ASSUME DeliveryInv, NEW p \in Producers, Produce(p)
  PROVE  DeliveryInv'
<1> USE DEF DeliveryInv, DeliveryTypeOK
<1>1. UNCHANGED <<msgs, consumer, seen_ids, handled, lapsed>>
  BY DEF Produce, Send, Drop, Receive
<1>2. DeliveryTypeOK'
  <2>1. CASE Drop(p)
    BY <2>1 DEF Drop
  <2>2. CASE Receive(p)
    <3>1. sending[p][1] \in MessageIds
      BY <2>2 DEF Receive
    <3> QED BY <2>2, <3>1 DEF Receive
  <2>3. ASSUME NEW m \in MessageIds, Send(p, m) PROVE DeliveryTypeOK'
    BY <2>3 DEF Send
  <2> QED BY <2>1, <2>2, <2>3 DEF Produce
<1> QED BY <1>1, <1>2 DEF Within, With

\* Copying the queue and emptying it gives no message to a handler.
LEMMA ConsumeStep ==
  ASSUME DeliveryInv, NEW c \in Consumers, Consume(c)
  PROVE  DeliveryInv'
<1> USE DEF DeliveryInv
<1>1. DeliveryTypeOK'
  <2>1. CASE CopyQueue(c)
    BY <2>1 DEF DeliveryTypeOK, CopyQueue
  <2>2. CASE EmptyQueue(c)
    BY <2>2 DEF DeliveryTypeOK, EmptyQueue
  <2> QED BY <2>1, <2>2 DEF Consume
<1>2. ASSUME NEW m \in MessageIds, NEW label \in {"handling", "marking"}
      PROVE  With(m, label)' = With(m, label)
  BY DEF DeliveryTypeOK, Consume, CopyQueue, EmptyQueue, With
<1>3. UNCHANGED <<seen_ids, handled, lapsed>>
  BY DEF Consume, CopyQueue, EmptyQueue
<1> QED BY <1>1, <1>2, <1>3 DEF Within

\* Going on to the next message leaves no handler with it.
LEMMA NextKeepsType ==
  ASSUME DeliveryTypeOK, NEW c \in Consumers, NextMessage(c), consumer[c] # "idle"
  PROVE  /\ msgs' \in [Consumers -> Seq(MessageIds)]
         /\ consumer' \in [Consumers -> {"idle", "emptying", "checking", "handling", "marking"}]
         /\ \A d \in Consumers : consumer'[d] # "idle" => msgs'[d] # <<>>
         /\ \A m, label : label \in {"handling", "marking"} =>
              With(m, label)' = With(m, label) \ {c}
<1>1. msgs[c] \in Seq(MessageIds) /\ msgs[c] # <<>>
  BY DEF DeliveryTypeOK
<1>2. Tail(msgs[c]) \in Seq(MessageIds) /\ (Len(msgs[c]) # 1 => Tail(msgs[c]) # <<>>)
  <2>1. Tail(msgs[c]) \in Seq(MessageIds) /\ Len(Tail(msgs[c])) = Len(msgs[c]) - 1
    BY <1>1, HeadTailProperties
  <2>2. Len(msgs[c]) \in Nat
    BY <1>1
  <2>3. ASSUME Tail(msgs[c]) = <<>> PROVE Len(msgs[c]) = 1
    <3>1. Len(Tail(msgs[c])) = 0
      BY <2>3, EmptySeq, Zenon
    <3> QED BY <2>1, <2>2, <3>1
  <2> QED BY <2>1, <2>3
<1> QED BY <1>1, <1>2 DEF NextMessage, DeliveryTypeOK, With

\* Each step of process keeps the count: a thread that passes the test is one
\* that neither handles nor marks the message.
LEMMA ProcessStep ==
  ASSUME DeliveryInv, NEW c \in Consumers, Process(c)
  PROVE  DeliveryInv'
<1> DEFINE h == Head(msgs[c])
<1> USE DEF DeliveryInv
<1>0. consumer[c] # "idle" /\ h \in MessageIds
  <2>1. consumer[c] # "idle"
    BY DEF Process, IsDuplicate, RunHandler, MarkSeen
  <2>2. msgs[c] \in Seq(MessageIds) /\ msgs[c] # <<>>
    BY <2>1 DEF DeliveryTypeOK
  <2> QED BY <2>1, <2>2
<1>1. ASSUME NextMessage(c), consumer[c] # "marking" \/ h \in seen_ids',
             UNCHANGED <<sending, topic, handled, lapsed>>,
             seen_ids \subseteq seen_ids', seen_ids' \subseteq MessageIds
      PROVE  DeliveryInv'
  <2>1. DeliveryTypeOK'
    BY <1>0, <1>1, NextKeepsType DEF DeliveryTypeOK
  <2>2. ASSUME NEW m \in MessageIds \ lapsed PROVE Within(m)'
    <3>1. With(m, "handling")' \subseteq With(m, "handling")
      BY <1>0, <1>1, NextKeepsType
    <3>2. m \notin seen_ids' => m \notin seen_ids /\ With(m, "marking") \subseteq With(m, "marking")'
      <4>1. m \notin seen_ids' => c \notin With(m, "marking")
        BY <1>1 DEF With
      <4> QED BY <1>0, <1>1, <4>1, NextKeepsType
    <3> QED BY <1>1, <3>1, <3>2, Undisturbed
  <2> QED BY <1>1, <2>1, <2>2
<1>2. ASSUME IsDuplicate(c), h \notin seen_ids PROVE DeliveryInv'
  <2>1. DeliveryTypeOK'
    BY <1>2 DEF IsDuplicate, DeliveryTypeOK
  <2>2. ASSUME NEW m \in MessageIds \ lapsed PROVE Within(m)'
    <3>1. /\ With(m, "marking")' = With(m, "marking")
          /\ m # h => With(m, "handling")' = With(m, "handling")
          /\ m = h => With(m, "handling")' = With(m, "handling") \cup {c}
      BY <1>2 DEF IsDuplicate, DeliveryTypeOK, With
    <3>2. UNCHANGED <<seen_ids, handled>>
      BY <1>2 DEF IsDuplicate
    <3>3. CASE m # h
      BY <3>1, <3>2, <3>3, Undisturbed
    <3>4. CASE m = h
      <4> DEFINE H == With(m, "handling")
                 M == With(m, "marking")
      <4>1. c \notin H /\ c \notin M /\ H \cap M = {} /\ H \cup M \subseteq Consumers \ {c}
        BY <1>2 DEF IsDuplicate, With
      <4>2. IsFiniteSet(H) /\ IsFiniteSet(M) /\ Cardinality(H) \in Nat /\ Cardinality(M) \in Nat
        BY WithFinite
      <4>3. Cardinality(H \cup M) = Cardinality(H) + Cardinality(M)
        BY <4>1, <4>2, FS_Union, FS_EmptySet
      <4>4. /\ Cardinality(Consumers \ {c}) = Cardinality(Consumers) - 1
            /\ IsFiniteSet(Consumers \ {c})
            /\ Cardinality(Consumers) \in Nat
        BY FS_RemoveElement, FS_CardinalityType, DeliveryAssumption
      <4>5. Cardinality(H \cup M) <= Cardinality(Consumers \ {c})
        BY <4>1, <4>4, FS_Subset
      <4>6. Cardinality(H \cup {c}) = Cardinality(H) + 1
        BY <4>1, <4>2, FS_AddElement
      <4>7. m \notin seen_ids /\ handled[m] \in Nat /\ handled[m] <= Cardinality(M)
        BY <1>2, <3>4 DEF Within, DeliveryTypeOK
      <4>8. handled[m] + (Cardinality(H) + 1) <= Cardinality(Consumers)
        BY <4>2, <4>3, <4>4, <4>5, <4>7
      <4> QED BY <3>1, <3>2, <3>4, <4>6, <4>7, <4>8 DEF Within
    <3> QED BY <3>3, <3>4
  <2> QED BY <1>2, <2>1, <2>2 DEF IsDuplicate
<1>3. ASSUME RunHandler(c), handled' # handled \/ ~NextMessage(c) PROVE DeliveryInv'
  <2>0. /\ consumer[c] = "handling"
        /\ handled' = [handled EXCEPT ![h] = @ + 1]
        /\ consumer' = [consumer EXCEPT ![c] = "marking"]
        /\ UNCHANGED <<sends, sending, topic, msgs, seen_ids, lapsed>>
    BY <1>3 DEF RunHandler
  <2>1. DeliveryTypeOK'
    BY <1>0, <2>0 DEF DeliveryTypeOK
  <2>2. ASSUME NEW m \in MessageIds \ lapsed PROVE Within(m)'
    <3> DEFINE H == With(m, "handling")
               M == With(m, "marking")
    <3>1. CASE m # h
      <4>1. H' = H /\ M' = M /\ handled'[m] = handled[m]
        BY <2>0, <3>1 DEF DeliveryTypeOK, With
      <4> QED BY <2>0, <4>1, Undisturbed
    <3>2. CASE m = h
      <4>1. /\ H' = H \ {c} /\ c \in H
            /\ M' = M \cup {c} /\ c \notin M
            /\ handled'[m] = handled[m] + 1
        BY <1>0, <2>0, <3>2 DEF DeliveryTypeOK, With
      <4>2. IsFiniteSet(H) /\ IsFiniteSet(M) /\ Cardinality(H) \in Nat /\ Cardinality(M) \in Nat
        BY WithFinite
      <4>3. Cardinality(H') = Cardinality(H) - 1 /\ Cardinality(M') = Cardinality(M) + 1
        BY <4>1, <4>2, FS_RemoveElement, FS_AddElement
      <4>4. handled[m] \in Nat /\ Cardinality(Consumers) \in Nat
        BY FS_CardinalityType, DeliveryAssumption DEF DeliveryTypeOK
      <4>5. Within(m)
        OBVIOUS
      <4> QED BY <2>0, <4>1, <4>2, <4>3, <4>4, <4>5 DEF Within
    <3> QED BY <3>1, <3>2
  <2> QED BY <2>0, <2>1, <2>2
<1>4. CASE IsDuplicate(c) /\ h \in seen_ids
  BY <1>1, <1>4 DEF IsDuplicate, DeliveryTypeOK
<1>5. CASE RunHandler(c) /\ handled' = handled /\ NextMessage(c)
  BY <1>1, <1>5 DEF RunHandler, DeliveryTypeOK
<1>6. CASE MarkSeen(c)
  BY <1>0, <1>1, <1>6 DEF MarkSeen, DeliveryTypeOK
<1> QED BY <1>2, <1>3, <1>4, <1>5, <1>6 DEF Process

\* A message whose window ends is no longer spoken of.
LEMMA WindowStep ==
  ASSUME DeliveryInv, NEW n \in MessageIds, WindowEnds(n)
  PROVE  DeliveryInv'
<1>1. DeliveryTypeOK'
  BY DEF DeliveryInv, DeliveryTypeOK, WindowEnds
<1>2. ASSUME NEW m \in MessageIds \ lapsed' PROVE Within(m)'
  BY DEF DeliveryInv, Within, With, WindowEnds
<1> QED BY <1>1, <1>2 DEF DeliveryInv

\* The inductive invariant of the consumer and its producers.
THEOREM DeliveryInvariance == DeliverySpec => []DeliveryInv
<1>1. ASSUME DeliveryInv, [DeliveryNext]_deliveryVars PROVE DeliveryInv'
  <2>1. CASE UNCHANGED deliveryVars
    BY <1>1, <2>1 DEF deliveryVars, DeliveryInv, DeliveryTypeOK, Within, With
  <2>2. CASE DeliveryNext
    BY <1>1, <2>2, ProduceStep, ConsumeStep, ProcessStep, WindowStep DEF DeliveryNext
  <2> QED BY <1>1, <2>1, <2>2
<1> QED BY <1>1, DeliveryInitInv, PTL DEF DeliverySpec

\* "At-least-once + idempotent consumer = effectively exactly-once", as far as
\* it goes: a message takes effect at most once per consumer thread, whatever is
\* sent again, lost or delivered twice; with one thread, at most once.
THEOREM EffectsBounded == DeliverySpec => []OnceEach
<1>1. ASSUME DeliveryInv PROVE OnceEach
  <2> SUFFICES ASSUME NEW m \in MessageIds \ lapsed
               PROVE  handled[m] <= Cardinality(Consumers)
    BY DEF OnceEach
  <2>1. Within(m) /\ handled[m] \in Nat
    BY <1>1 DEF DeliveryInv, DeliveryTypeOK
  <2> QED BY <2>1, WithFinite, FS_CardinalityType, DeliveryAssumption DEF Within
<1> QED BY <1>1, DeliveryInvariance, PTL

-----------------------------------------------------------------------------
(* UpsertPattern, UniqueConstraintPattern and OptimisticLockingPattern: one row *)
(* per key, and no update lost.                                                *)

Rows   == Callers \cup {NoRow}
Labels == {"new", "inserting", "naming", "phoning", "upserted", "inserted",
           "duplicate", "found", "updating", "retrying", "updated", "raised"}

RowTypeOK ==
  /\ caller \in [Callers -> Labels]
  /\ row \in [Callers -> Rows]
  /\ email_row \in Rows
  /\ fields \in [Callers -> [name : Rows, phone : Rows]]
  /\ payment \in Rows
  /\ version \in Nat \ {0}
  /\ status \in Rows
  /\ expected \in [Callers -> Nat]
  /\ attempt \in [Callers -> 1..max_attempts]
  /\ others \in [Callers -> Nat]

\* The row of the email is complete as soon as it is in the table, and stays so
\* while it is updated field by field.
EmailRow ==
  /\ email_row # NoRow =>
       fields[email_row].name # NoRow /\ fields[email_row].phone # NoRow
  /\ \A t \in Callers :
       /\ caller[t] \in {"naming", "phoning"} => row[t] # NoRow
       /\ caller[t] \in {"naming", "phoning", "upserted"} => email_row # NoRow

\* The row under the idempotency key is of the one thread that inserted it.
PaymentRow ==
  \A t \in Callers :
    /\ caller[t] = "inserted" => payment = t /\ row[t] = t
    /\ caller[t] \in {"duplicate", "found"} => payment # NoRow
    /\ caller[t] = "found" => row[t] = payment

\* The version counts the successful updates.
VersionCounts ==
  /\ IsFiniteSet(Having("updated"))
  /\ version = 1 + Cardinality(Having("updated"))
  /\ (status = NoRow) = (version = 1)

\* An attempt that is bound to fail has been overtaken by another's update, on
\* top of one for every attempt that failed before.
AttemptsOvertaken ==
  \A t \in Callers :
    /\ caller[t] = "new" => attempt[t] = 1
    /\ caller[t] \in {"updating", "retrying"} => others[t] >= attempt[t] - 1
    /\ caller[t] = "updating" /\ version # expected[t] => others[t] >= attempt[t]
    /\ caller[t] = "raised" => others[t] >= max_attempts

RowInv == RowTypeOK /\ EmailRow /\ PaymentRow /\ VersionCounts /\ AttemptsOvertaken

\* The tables begin empty, the order with its first version.
LEMMA RowInitInv == ASSUME RowInit PROVE RowInv
<1> USE RowAssumption DEF RowInit
<1>1. RowTypeOK
  BY DEF RowTypeOK, Rows, Labels
<1>2. EmailRow /\ PaymentRow /\ AttemptsOvertaken
  BY DEF EmailRow, PaymentRow, AttemptsOvertaken
<1>3. VersionCounts
  <2>1. Having("updated") = {}
    BY DEF Having
  <2> QED BY <2>1, FS_EmptySet DEF VersionCounts
<1> QED BY <1>1, <1>2, <1>3 DEF RowInv

\* A step that leaves the order alone keeps what is said of its version.
LEMMA OrderUntouched ==
  ASSUME VersionCounts, UNCHANGED <<version, status>>, Having("updated")' = Having("updated")
  PROVE  VersionCounts'
BY DEF VersionCounts

\* upsert keeps the invariant.
LEMMA UpsertStep ==
  ASSUME RowInv, NEW t \in Callers, Upsert(t)
  PROVE  RowInv'
<1> USE RowAssumption DEF RowInv, RowTypeOK, Rows, Labels, Becomes
<1>1. CASE GetExisting(t)
  <2>1. Having("updated")' = Having("updated")
    BY <1>1 DEF GetExisting, Having
  <2>2. RowTypeOK' /\ EmailRow'
    BY <1>1 DEF GetExisting, EmailRow
  <2>3. PaymentRow' /\ AttemptsOvertaken'
    BY <1>1 DEF GetExisting, PaymentRow, AttemptsOvertaken
  <2> QED BY <1>1, <2>1, <2>2, <2>3, OrderUntouched DEF GetExisting
<1>2. CASE InsertRow(t)
  <2>1. Having("updated")' = Having("updated")
    BY <1>2 DEF InsertRow, Having
  <2>2. RowTypeOK' /\ EmailRow'
    BY <1>2 DEF InsertRow, EmailRow
  <2>3. PaymentRow' /\ AttemptsOvertaken'
    BY <1>2 DEF InsertRow, PaymentRow, AttemptsOvertaken
  <2> QED BY <1>2, <2>1, <2>2, <2>3, OrderUntouched DEF InsertRow
<1>3. CASE UpdateName(t)
  <2>1. Having("updated")' = Having("updated")
    BY <1>3 DEF UpdateName, Having
  <2>2. RowTypeOK' /\ EmailRow'
    BY <1>3 DEF UpdateName, EmailRow
  <2>3. PaymentRow' /\ AttemptsOvertaken'
    BY <1>3 DEF UpdateName, PaymentRow, AttemptsOvertaken
  <2> QED BY <1>3, <2>1, <2>2, <2>3, OrderUntouched DEF UpdateName
<1>4. CASE UpdatePhone(t)
  <2>1. Having("updated")' = Having("updated")
    BY <1>4 DEF UpdatePhone, Having
  <2>2. RowTypeOK' /\ EmailRow'
    <3>1. row[t] \in Callers
      BY <1>4 DEF UpdatePhone, EmailRow
    <3>2. RowTypeOK'
      BY <1>4, <3>1 DEF UpdatePhone
    <3>3. EmailRow'
      BY <1>4, <3>1 DEF UpdatePhone, EmailRow
    <3> QED BY <3>2, <3>3
  <2>3. PaymentRow' /\ AttemptsOvertaken'
    BY <1>4 DEF UpdatePhone, PaymentRow, AttemptsOvertaken
  <2> QED BY <1>4, <2>1, <2>2, <2>3, OrderUntouched DEF UpdatePhone
<1> QED BY <1>1, <1>2, <1>3, <1>4 DEF Upsert

\* safe_insert_or_get keeps the invariant.
LEMMA SafeInsertStep ==
  ASSUME RowInv, NEW t \in Callers, SafeInsertOrGet(t)
  PROVE  RowInv'
<1> USE RowAssumption DEF RowInv, RowTypeOK, Rows, Labels, Becomes
<1>1. CASE InsertPayment(t)
  <2>1. Having("updated")' = Having("updated")
    BY <1>1 DEF InsertPayment, Having
  <2>2. RowTypeOK' /\ EmailRow'
    BY <1>1 DEF InsertPayment, EmailRow
  <2>3. PaymentRow' /\ AttemptsOvertaken'
    BY <1>1 DEF InsertPayment, PaymentRow, AttemptsOvertaken
  <2> QED BY <1>1, <2>1, <2>2, <2>3, OrderUntouched DEF InsertPayment
<1>2. CASE FindByIdemKey(t)
  <2>1. Having("updated")' = Having("updated")
    BY <1>2 DEF FindByIdemKey, Having
  <2>2. RowTypeOK' /\ EmailRow'
    BY <1>2 DEF FindByIdemKey, EmailRow
  <2>3. PaymentRow' /\ AttemptsOvertaken'
    BY <1>2 DEF FindByIdemKey, PaymentRow, AttemptsOvertaken
  <2> QED BY <1>2, <2>1, <2>2, <2>3, OrderUntouched DEF FindByIdemKey
<1> QED BY <1>1, <1>2 DEF SafeInsertOrGet

\* update_with_retry keeps the invariant: an update that finds its version adds
\* one thread to those that have updated and overtakes all others under way.
LEMMA UpdateStep ==
  ASSUME RowInv, NEW t \in Callers, UpdateWithRetry(t)
  PROVE  RowInv'
<1> USE RowAssumption DEF RowInv, RowTypeOK, Rows, Labels, Becomes
<1>1. CASE ReadVersion(t)
  <2>1. Having("updated")' = Having("updated")
    BY <1>1 DEF ReadVersion, Having
  <2>2. RowTypeOK' /\ EmailRow' /\ PaymentRow'
    BY <1>1 DEF ReadVersion, EmailRow, PaymentRow
  <2>3. AttemptsOvertaken'
    BY <1>1 DEF ReadVersion, AttemptsOvertaken
  <2> QED BY <1>1, <2>1, <2>2, <2>3, OrderUntouched DEF ReadVersion
<1>2. ASSUME UpdateStatus(t), version = expected[t] PROVE RowInv'
  <2>1. Having("updated")' = Having("updated") \cup {t} /\ t \notin Having("updated")
    BY <1>2 DEF UpdateStatus, Having
  <2>2. RowTypeOK' /\ EmailRow' /\ PaymentRow'
    BY <1>2 DEF UpdateStatus, EmailRow, PaymentRow
  <2>3. VersionCounts'
    <3>1. /\ IsFiniteSet(Having("updated")')
          /\ Cardinality(Having("updated")') = Cardinality(Having("updated")) + 1
      BY <2>1, FS_AddElement DEF VersionCounts
    <3>2. version' = version + 1 /\ status' = t
      BY <1>2 DEF UpdateStatus
    <3>3. Cardinality(Having("updated")) \in Nat
      BY FS_CardinalityType DEF VersionCounts
    <3> QED BY <3>1, <3>2, <3>3 DEF VersionCounts
  <2>4. AttemptsOvertaken'
    BY <1>2 DEF UpdateStatus, AttemptsOvertaken
  <2> QED BY <2>2, <2>3, <2>4
<1>3. ASSUME UpdateStatus(t), version # expected[t] PROVE RowInv'
  <2>1. Having("updated")' = Having("updated")
    BY <1>3 DEF UpdateStatus, Having
  <2>2. RowTypeOK' /\ EmailRow' /\ PaymentRow'
    BY <1>3 DEF UpdateStatus, EmailRow, PaymentRow
  <2>3. AttemptsOvertaken'
    BY <1>3 DEF UpdateStatus, AttemptsOvertaken
  <2> QED BY <1>3, <2>1, <2>2, <2>3, OrderUntouched DEF UpdateStatus
<1> QED BY <1>1, <1>2, <1>3 DEF UpdateWithRetry

\* The inductive invariant of the three tables.
THEOREM RowInvariance == RowSpec => []RowInv
<1>1. ASSUME RowInv, [RowNext]_rowVars PROVE RowInv'
  <2>1. CASE UNCHANGED rowVars
    BY <1>1, <2>1
       DEF rowVars, RowInv, RowTypeOK, EmailRow, PaymentRow, VersionCounts, AttemptsOvertaken, Having
  <2>2. CASE RowNext
    BY <1>1, <2>2, UpsertStep, SafeInsertStep, UpdateStep DEF RowNext
  <2> QED BY <1>1, <2>1, <2>2
<1> QED BY <1>1, RowInitInv, PTL DEF RowSpec

\* "Prevents lost updates", and the unique key its duplicates, for any number of
\* threads: every successful update adds one version, nobody gives up without
\* having been overtaken as often as it tried, and everybody who inserts under
\* one key is given the same row.
THEOREM RowsHold == RowSpec => []RowsKept
<1>1. ASSUME RowInv PROVE RowsKept
  <2> USE <1>1 DEF RowInv
  <2>1. Cardinality(Having("inserted")) <= 1
    <3>1. CASE Having("inserted") = {}
      BY <3>1, FS_EmptySet
    <3>2. CASE Having("inserted") # {}
      <4>1. Having("inserted") = {payment}
        BY <3>2 DEF Having, PaymentRow
      <4> QED BY <4>1, FS_Singleton
    <3> QED BY <3>1, <3>2
  <2>2. OneRowPerKey
    BY <2>1 DEF OneRowPerKey, Having, PaymentRow, EmailRow
  <2>3. NoLostUpdate
    BY DEF NoLostUpdate, VersionCounts, AttemptsOvertaken, Having
  <2> QED BY <2>2, <2>3 DEF RowsKept
<1> QED BY <1>1, RowInvariance, PTL

-----------------------------------------------------------------------------
(* TransactionalOutbox *)

\* The relays that have published the event of an order and not marked it yet,
\* and those that have still to publish it.
MarkingIt(o) == {r \in Relays : relay[r] = "marking" /\ Oldest(r, o)}
HavingIt(o)  == {r \in Relays : o \in unsent[r] /\ ~(relay[r] = "marking" /\ Oldest(r, o))}

OutboxTypeOK ==
  /\ orders \subseteq Orders /\ sent \subseteq orders
  /\ outbox \in Seq(Orders)
  /\ published \in [Orders -> Nat]
  /\ unsent \in [Relays -> SUBSET orders]
  /\ relay \in [Relays -> {"idle", "publishing", "marking"}]
  /\ crashes \in Nat

\* Every order has one entry.
OneEntryEach ==
  /\ \A i \in DOMAIN outbox : outbox[i] \in orders
  /\ \A i, j \in DOMAIN outbox : outbox[i] = outbox[j] => i = j

\* The event of an order that is not marked is published once for every relay
\* that is about to mark it and every crash; and with those that have read it and
\* not published it yet that stays within the relays and the crashes for good.
PublishedWithin(o) ==
  /\ o \notin sent => published[o] <= crashes + Cardinality(MarkingIt(o))
  /\ published[o] + Cardinality(HavingIt(o)) <= Cardinality(Relays) + crashes
  /\ published[o] > 0 => o \in orders
  /\ o \in sent \/ MarkingIt(o) # {} => published[o] > 0

OutboxInv == OutboxTypeOK /\ OneEntryEach /\ \A o \in Orders : PublishedWithin(o)

\* A set without one element has at most one element less.
LEMMA OneLess ==
  ASSUME NEW S, IsFiniteSet(S), NEW x
  PROVE  /\ IsFiniteSet(S \ {x}) /\ Cardinality(S \ {x}) \in Nat
         /\ Cardinality(S \ {x}) >= Cardinality(S) - 1
         /\ Cardinality(S \ {x}) <= Cardinality(S)
<1>1. /\ IsFiniteSet(S \ {x})
      /\ Cardinality(S \ {x}) = IF x \in S THEN Cardinality(S) - 1 ELSE Cardinality(S)
  BY FS_RemoveElement
<1>2. Cardinality(S) \in Nat /\ Cardinality(S \ {x}) \in Nat
  BY <1>1, FS_CardinalityType
<1> QED BY <1>1, <1>2

\* Relays of two kinds, none of which is of both, are no more than there are.
LEMMA TwoKinds ==
  ASSUME NEW A \in SUBSET Relays, NEW B \in SUBSET Relays, A \cap B = {}
  PROVE  /\ IsFiniteSet(A) /\ Cardinality(A) \in Nat
         /\ IsFiniteSet(B) /\ Cardinality(B) \in Nat
         /\ Cardinality(Relays) \in Nat
         /\ Cardinality(A) + Cardinality(B) <= Cardinality(Relays)
<1>1. IsFiniteSet(A) /\ IsFiniteSet(B) /\ A \cup B \in SUBSET Relays
  BY FS_Subset, OutboxAssumption
<1>2. Cardinality(A \cup B) = Cardinality(A) + Cardinality(B) - 0
  BY <1>1, FS_Union, FS_EmptySet
<1>3. Cardinality(A \cup B) <= Cardinality(Relays)
  BY <1>1, FS_Subset, OutboxAssumption
<1>4. Cardinality(A) \in Nat /\ Cardinality(B) \in Nat /\ Cardinality(Relays) \in Nat
  BY <1>1, FS_CardinalityType, OutboxAssumption
<1> QED BY <1>1, <1>2, <1>3, <1>4

\* The relays that have published the event of an order are others than those that
\* have still to.
LEMMA RelaysCount ==
  ASSUME NEW o
  PROVE  /\ IsFiniteSet(MarkingIt(o)) /\ Cardinality(MarkingIt(o)) \in Nat
         /\ IsFiniteSet(HavingIt(o)) /\ Cardinality(HavingIt(o)) \in Nat
         /\ Cardinality(Relays) \in Nat
         /\ Cardinality(MarkingIt(o)) + Cardinality(HavingIt(o)) <= Cardinality(Relays)
<1>1. MarkingIt(o) \in SUBSET Relays /\ HavingIt(o) \in SUBSET Relays
  BY DEF MarkingIt, HavingIt
<1>2. MarkingIt(o) \cap HavingIt(o) = {}
  BY DEF MarkingIt, HavingIt
<1> QED BY <1>1, <1>2, TwoKinds

\* No relay has two oldest entries.
LEMMA OldestUnique ==
  ASSUME OutboxTypeOK, OneEntryEach, NEW r \in Relays, NEW o, NEW p, Oldest(r, o), Oldest(r, p)
  PROVE  o = p
<1>1. PICK i \in DOMAIN outbox, j \in DOMAIN outbox : i <= j /\ outbox[i] = o /\ outbox[j] = p
  BY DEF Oldest
<1>2. PICK k \in DOMAIN outbox, l \in DOMAIN outbox : k <= l /\ outbox[k] = p /\ outbox[l] = o
  BY DEF Oldest
<1>3. i = l /\ j = k
  BY <1>1, <1>2 DEF OneEntryEach
<1>4. i \in Nat /\ j \in Nat
  BY <1>1 DEF OutboxTypeOK
<1> QED BY <1>1, <1>2, <1>3, <1>4

\* Nothing is ordered at first.
LEMMA OutboxInitInv == ASSUME OutboxInit PROVE OutboxInv
<1>1. OutboxTypeOK /\ OneEntryEach
  BY DEF OutboxInit, OutboxTypeOK, OneEntryEach
<1>2. ASSUME NEW o \in Orders PROVE PublishedWithin(o)
  <2>1. MarkingIt(o) = {} /\ HavingIt(o) = {}
    BY DEF OutboxInit, MarkingIt, HavingIt
  <2>2. published[o] = 0 /\ crashes = 0 /\ sent = {}
    BY DEF OutboxInit
  <2>3. Cardinality(MarkingIt(o)) = 0 /\ Cardinality(HavingIt(o)) = 0
    BY <2>1, FS_EmptySet
  <2> QED BY <2>1, <2>2, <2>3, RelaysCount DEF PublishedWithin
<1> QED BY <1>1, <1>2 DEF OutboxInv

\* What changes no relay's dealings with an order keeps what is said of it.
LEMMA OrderUndisturbed ==
  ASSUME NEW o \in Orders, PublishedWithin(o),
         MarkingIt(o)' = MarkingIt(o), HavingIt(o)' = HavingIt(o),
         UNCHANGED <<published, sent, crashes>>, orders \subseteq orders'
  PROVE  PublishedWithin(o)'
BY DEF PublishedWithin

\* A new order is in nobody's hands.
LEMMA CreateStep ==
  ASSUME OutboxInv, NEW o \in Orders, CreateOrderWithEvent(o)
  PROVE  OutboxInv'
<1> USE DEF OutboxInv
<1>1. OutboxTypeOK'
  BY DEF CreateOrderWithEvent, OutboxTypeOK
<1>2. /\ Len(outbox') = Len(outbox) + 1 /\ DOMAIN outbox' = 1..Len(outbox')
      /\ DOMAIN outbox = 1..Len(outbox) /\ Len(outbox) \in Nat
      /\ \A i \in 1..Len(outbox) : outbox'[i] = outbox[i]
      /\ outbox'[Len(outbox')] = o /\ o \notin orders
  BY DEF CreateOrderWithEvent, OutboxTypeOK
<1>3. OneEntryEach'
  BY <1>2 DEF CreateOrderWithEvent, OneEntryEach
<1>4. ASSUME NEW r \in Relays, NEW p PROVE Oldest(r, p)' <=> Oldest(r, p)
  <2>1. unsent'[r] = unsent[r] /\ o \notin unsent[r]
    BY <1>2 DEF CreateOrderWithEvent, OutboxTypeOK
  <2>2. \A q \in unsent[r] : \A i \in DOMAIN outbox' : outbox'[i] = q => i \in DOMAIN outbox
    BY <1>2, <2>1
  <2> QED BY <1>2, <2>1, <2>2 DEF Oldest
<1>5. ASSUME NEW p \in Orders PROVE PublishedWithin(p)'
  <2>1. MarkingIt(p)' = MarkingIt(p) /\ HavingIt(p)' = HavingIt(p)
    BY <1>4 DEF CreateOrderWithEvent, MarkingIt, HavingIt
  <2> QED BY <2>1, OrderUndisturbed DEF CreateOrderWithEvent
<1> QED BY <1>1, <1>3, <1>5

\* What a relay reads as unsent has been published only by those about to mark it.
LEMMA ReadUnsentStep ==
  ASSUME OutboxInv, NEW r \in Relays, ReadUnsent(r)
  PROVE  OutboxInv'
<1> USE DEF OutboxInv
<1>1. OutboxTypeOK' /\ OneEntryEach'
  BY DEF ReadUnsent, OutboxTypeOK, OneEntryEach
<1>2. ASSUME NEW p PROVE /\ MarkingIt(p)' = MarkingIt(p)
                         /\ p \in sent => HavingIt(p)' \subseteq HavingIt(p)
  BY DEF ReadUnsent, MarkingIt, HavingIt, Oldest, OutboxTypeOK
<1>3. ASSUME NEW p \in Orders PROVE PublishedWithin(p)'
  <2>1. /\ MarkingIt(p)' \in SUBSET Relays /\ HavingIt(p)' \in SUBSET Relays
        /\ MarkingIt(p)' \cap HavingIt(p)' = {}
    BY DEF MarkingIt, HavingIt
  <2>2. /\ Cardinality(MarkingIt(p)') + Cardinality(HavingIt(p)') <= Cardinality(Relays)
        /\ Cardinality(MarkingIt(p)') \in Nat /\ Cardinality(HavingIt(p)') \in Nat
        /\ Cardinality(Relays) \in Nat
    BY <2>1, TwoKinds
  <2>3. p \in sent => Cardinality(HavingIt(p)') <= Cardinality(HavingIt(p))
    BY <1>2, RelaysCount, FS_Subset
  <2>4. UNCHANGED <<published, sent, crashes, orders>> /\ published[p] \in Nat /\ crashes \in Nat
    BY DEF ReadUnsent, OutboxTypeOK
  <2> QED BY <1>2, <2>2, <2>3, <2>4, RelaysCount DEF PublishedWithin
<1> QED BY <1>1, <1>3

\* The relay that publishes an event had it in hand, and is then about to mark it.
LEMMA PublishStep ==
  ASSUME OutboxInv, NEW r \in Relays, Publish(r)
  PROVE  OutboxInv'
<1> USE DEF OutboxInv
<1> PICK o \in Orders : Oldest(r, o) /\ published' = [published EXCEPT ![o] = @ + 1]
  BY DEF Publish
<1>1. OutboxTypeOK' /\ OneEntryEach'
  BY DEF Publish, OutboxTypeOK, OneEntryEach
<1>2. ASSUME NEW q \in Relays, NEW p PROVE Oldest(q, p)' <=> Oldest(q, p)
  BY DEF Publish, Oldest
<1>3. \A p : Oldest(r, p) => p = o
  BY OldestUnique
<1>4. relay[r] = "publishing" /\ relay' = [relay EXCEPT ![r] = "marking"] /\ UNCHANGED <<unsent, sent, orders, crashes>>
  BY DEF Publish
<1>5. ASSUME NEW p \in Orders, p # o PROVE PublishedWithin(p)'
  <2>1. MarkingIt(p)' = MarkingIt(p) /\ HavingIt(p)' = HavingIt(p)
    BY <1>2, <1>3, <1>4, <1>5 DEF MarkingIt, HavingIt, OutboxTypeOK
  <2>2. published'[p] = published[p]
    BY <1>5 DEF OutboxTypeOK
  <2> QED BY <1>4, <2>1, <2>2 DEF PublishedWithin
<1>6. PublishedWithin(o)'
  <2>1. MarkingIt(o)' = MarkingIt(o) \cup {r} /\ r \notin MarkingIt(o)
    BY <1>2, <1>4 DEF MarkingIt, OutboxTypeOK
  <2>2. HavingIt(o)' = HavingIt(o) \ {r} /\ r \in HavingIt(o)
    BY <1>2, <1>4 DEF HavingIt, OutboxTypeOK, Oldest
  <2>3. /\ Cardinality(MarkingIt(o)') = Cardinality(MarkingIt(o)) + 1
        /\ Cardinality(HavingIt(o)') = Cardinality(HavingIt(o)) - 1
    <3>1. IsFiniteSet(MarkingIt(o)) /\ IsFiniteSet(HavingIt(o))
      BY RelaysCount
    <3>2. Cardinality(MarkingIt(o) \cup {r}) = Cardinality(MarkingIt(o)) + 1
      BY <2>1, <3>1, FS_AddElement
    <3>3. Cardinality(HavingIt(o) \ {r}) = Cardinality(HavingIt(o)) - 1
      BY <2>2, <3>1, FS_RemoveElement
    <3> QED BY <2>1, <2>2, <3>2, <3>3
  <2>4. published'[o] = published[o] + 1 /\ published[o] \in Nat /\ crashes \in Nat /\ o \in orders
    BY DEF OutboxTypeOK, Oldest
  <2> QED BY <1>4, <2>3, <2>4, RelaysCount DEF PublishedWithin
<1> QED BY <1>1, <1>5, <1>6

\* Once it is marked, no relay reads it as unsent.
LEMMA MarkSentStep ==
  ASSUME OutboxInv, NEW r \in Relays, MarkSent(r)
  PROVE  OutboxInv'
<1> USE DEF OutboxInv
<1> PICK o \in Orders : Oldest(r, o) /\ DoneWith(r, o) /\ sent' = sent \cup {o}
  BY DEF MarkSent
<1>1. OutboxTypeOK' /\ OneEntryEach'
  BY DEF DoneWith, OutboxTypeOK, OneEntryEach, Oldest
<1>2. /\ relay[r] = "marking" /\ relay'[r] # "marking" /\ unsent'[r] = unsent[r] \ {o}
      /\ \A q \in Relays \ {r} : unsent'[q] = unsent[q] /\ relay'[q] = relay[q]
      /\ UNCHANGED <<outbox, published, crashes, orders>>
  BY DEF MarkSent, DoneWith, OutboxTypeOK
<1>3. ASSUME NEW q \in Relays \ {r}, NEW p PROVE Oldest(q, p)' <=> Oldest(q, p)
  BY <1>2 DEF Oldest
<1>4. \A p : Oldest(r, p) => p = o
  BY OldestUnique
<1>5. ASSUME NEW p \in Orders, p # o PROVE PublishedWithin(p)'
  <2>1. MarkingIt(p)' = MarkingIt(p) /\ HavingIt(p)' = HavingIt(p)
    BY <1>2, <1>3, <1>4, <1>5 DEF MarkingIt, HavingIt
  <2> QED BY <1>2, <1>5, <2>1 DEF PublishedWithin
<1>6. PublishedWithin(o)'
  <2>1. r \in MarkingIt(o)
    BY <1>2 DEF MarkingIt
  <2>2. HavingIt(o)' = HavingIt(o)
    BY <1>2, <1>3 DEF HavingIt
  <2>3. o \in sent' /\ o \in orders
    BY DEF OutboxTypeOK, Oldest
  <2> QED BY <1>2, <2>1, <2>2, <2>3 DEF PublishedWithin
<1> QED BY <1>1, <1>5, <1>6

\* A relay that dies may leave one event published and not marked, for which there
\* is one crash more.
LEMMA RelayDiesStep ==
  ASSUME OutboxInv, NEW r \in Relays, RelayDies(r)
  PROVE  OutboxInv'
<1> USE DEF OutboxInv
<1>1. OutboxTypeOK' /\ OneEntryEach'
  BY DEF RelayDies, OutboxTypeOK, OneEntryEach
<1>2. /\ relay'[r] = "idle" /\ unsent'[r] = {}
      /\ \A q \in Relays \ {r} : unsent'[q] = unsent[q] /\ relay'[q] = relay[q]
      /\ UNCHANGED <<outbox, published, sent, orders>> /\ crashes' = crashes + 1
  BY DEF RelayDies, OutboxTypeOK
<1>3. ASSUME NEW q \in Relays \ {r}, NEW p PROVE Oldest(q, p)' <=> Oldest(q, p)
  BY <1>2 DEF Oldest
<1>4. ASSUME NEW p \in Orders PROVE PublishedWithin(p)'
  <2>1. MarkingIt(p)' = MarkingIt(p) \ {r} /\ HavingIt(p)' = HavingIt(p) \ {r}
    BY <1>2, <1>3 DEF MarkingIt, HavingIt
  <2>2. /\ Cardinality(MarkingIt(p)') >= Cardinality(MarkingIt(p)) - 1
        /\ Cardinality(HavingIt(p)') <= Cardinality(HavingIt(p))
        /\ Cardinality(MarkingIt(p)') \in Nat /\ Cardinality(HavingIt(p)') \in Nat
    BY <2>1, RelaysCount, OneLess
  <2>3. published[p] \in Nat /\ crashes \in Nat
    BY DEF OutboxTypeOK
  <2> QED BY <1>2, <2>1, <2>2, <2>3, RelaysCount DEF PublishedWithin
<1> QED BY <1>1, <1>4

\* "At-least-once delivery", for any number of relays, orders and crashes: never an
\* event without its order, never an entry marked before its event is published,
\* and never more events than relays and crashes.
THEOREM OutboxKeepsItsPromise == Spec => []PublishedAsPromised
<1>1. Init => OutboxInv
  BY OutboxInitInv DEF Init
<1>2. ASSUME OutboxInv, [Next]_mcVars PROVE OutboxInv'
  <2>1. CASE OutboxNext
    BY <1>2, <2>1, CreateStep, ReadUnsentStep, PublishStep, MarkSentStep, RelayDiesStep
       DEF OutboxNext, RelayOutbox
  <2>2. CASE UNCHANGED outboxVars
    <3> USE <2>2 DEF outboxVars
    <3>1. \A r, o : Oldest(r, o)' <=> Oldest(r, o)
      BY DEF Oldest
    <3>2. \A o : MarkingIt(o)' = MarkingIt(o) /\ HavingIt(o)' = HavingIt(o)
      BY <3>1 DEF MarkingIt, HavingIt
    <3>3. OutboxTypeOK' /\ OneEntryEach'
      BY <1>2 DEF OutboxInv, OutboxTypeOK, OneEntryEach
    <3> QED BY <1>2, <3>2, <3>3, OrderUndisturbed DEF OutboxInv
  <2> QED BY <1>2, <2>1, <2>2, OneSystemSteps
<1>3. OutboxInv => PublishedAsPromised
  <2>1. ASSUME OutboxInv, NEW o \in Orders
        PROVE  published[o] <= Cardinality(Relays) + crashes
    BY <2>1, RelaysCount DEF OutboxInv, OutboxTypeOK, PublishedWithin
  <2> QED BY <2>1 DEF OutboxInv, PublishedWithin, PublishedAsPromised
<1> QED BY <1>1, <1>2, <1>3, PTL DEF Spec

-----------------------------------------------------------------------------
(* SagaOrchestrator and TaskPipeline *)

SagaTypeOK ==
  /\ kind \in {"saga", "pipeline"}
  /\ saga \in {"running", "compensating", "completed", "raised"}
  /\ position \in Int
  /\ effect \in [Steps -> {"none", "done", "undone", "stuck"}]

Compensated(s) == effect[s] \in {"undone", "stuck"}

\* Forwards, the steps before the position are done and the others untouched;
\* backwards, those up to the position are still done, those from the one that
\* failed on untouched, and all between have been tried.
StepsKept ==
  /\ saga = "running" =>
       /\ position \in Steps
       /\ \A s \in Steps : effect[s] = IF s < position THEN "done" ELSE "none"
  /\ saga = "completed" => \A s \in Steps : effect[s] = "done"
  /\ saga = "compensating" =>
       /\ position \in Steps /\ kind = "saga"
       /\ \E broken \in Steps :
            /\ position < broken
            /\ \A s \in Steps : IF s >= broken THEN effect[s] = "none"
                                ELSE IF s > position THEN Compensated(s) ELSE effect[s] = "done"
  /\ saga = "raised" /\ kind = "saga" =>
       \E broken \in Steps : \A s \in Steps :
         IF s < broken THEN Compensated(s) ELSE effect[s] = "none"
  /\ saga = "raised" /\ kind = "pipeline" => \A s \in Steps : ~Compensated(s)

SagaInv == SagaTypeOK /\ StepsKept

\* The first step is next.
LEMMA SagaInitInv == ASSUME SagaInit PROVE SagaInv
BY SagaAssumption DEF SagaInit, SagaInv, SagaTypeOK, StepsKept, Steps

\* Every step moves the position over the one effect it changes.
LEMMA SagaStep ==
  ASSUME SagaInv, [SagaNext]_sagaVars
  PROVE  SagaInv'
<1> USE SagaAssumption DEF SagaInv, SagaTypeOK, Steps
<1>1. CASE StepCompletes
  BY <1>1 DEF StepCompletes, StepsKept, Compensated
<1>2. CASE StageFails
  BY <1>2 DEF StageFails, StepsKept, Compensated
<1>3. CASE StepFails
  <2>1. /\ position \in 1..NumSteps /\ position' = position - 1 /\ kind' = "saga"
        /\ saga' = (IF position = 1 THEN "raised" ELSE "compensating") /\ UNCHANGED effect
        /\ \A s \in 1..NumSteps : effect[s] = IF s < position THEN "done" ELSE "none"
    BY <1>3 DEF StepFails, StepsKept
  <2>2. CASE position = 1
    BY <2>1, <2>2 DEF StepsKept, Compensated
  <2>3. CASE position # 1
    <3>1. position' < position
      BY <2>1
    <3>2. \A s \in 1..NumSteps : IF s >= position THEN effect'[s] = "none"
                                ELSE IF s > position' THEN Compensated(s)' ELSE effect'[s] = "done"
      BY <2>1
    <3>3. \E broken \in 1..NumSteps :
            /\ position' < broken
            /\ \A s \in 1..NumSteps : IF s >= broken THEN effect'[s] = "none"
                                      ELSE IF s > position' THEN Compensated(s)' ELSE effect'[s] = "done"
      BY <2>1, <3>1, <3>2
    <3>4. saga' = "compensating" /\ position' \in 1..NumSteps
      BY <2>1, <2>3
    <3>5. StepsKept'
      BY <2>1, <3>3, <3>4 DEF StepsKept
    <3> QED BY <2>1, <3>4, <3>5
  <2> QED BY <2>2, <2>3
<1>4. ASSUME NEW result \in {"undone", "stuck"}, Tried(result) PROVE SagaInv'
  <2>1. /\ saga = "compensating" /\ position \in 1..NumSteps /\ position' = position - 1
        /\ saga' = (IF position = 1 THEN "raised" ELSE "compensating") /\ kind' = "saga"
        /\ effect' = [effect EXCEPT ![position] = result]
    BY <1>4 DEF Tried, StepsKept
  <2> PICK broken \in 1..NumSteps :
         /\ position < broken
         /\ \A s \in 1..NumSteps : IF s >= broken THEN effect[s] = "none"
                                   ELSE IF s > position THEN Compensated(s) ELSE effect[s] = "done"
    BY <2>1 DEF StepsKept
  <2>2. \A s \in 1..NumSteps : IF s >= broken THEN effect'[s] = "none"
                              ELSE IF s > position' THEN Compensated(s)' ELSE effect'[s] = "done"
    BY <2>1 DEF Compensated
  <2>3. CASE position = 1
    <3>1. \A s \in 1..NumSteps : IF s < broken THEN Compensated(s)' ELSE effect'[s] = "none"
      BY <2>1, <2>2, <2>3
    <3>2. saga' = "raised" /\ effect' \in [1..NumSteps -> {"none", "done", "undone", "stuck"}]
      BY <2>1, <2>3
    <3>3. \E f \in 1..NumSteps : \A s \in 1..NumSteps :
            IF s < f THEN Compensated(s)' ELSE effect'[s] = "none"
      BY <3>1
    <3>4. StepsKept'
      BY <2>1, <3>2, <3>3 DEF StepsKept
    <3> QED BY <2>1, <3>2, <3>4
  <2>4. CASE position # 1
    <3>1. position' < broken /\ position' \in 1..NumSteps
      BY <2>1, <2>4
    <3>2. saga' = "compensating" /\ effect' \in [1..NumSteps -> {"none", "done", "undone", "stuck"}]
      BY <2>1, <2>4
    <3>3. \E f \in 1..NumSteps :
            /\ position' < f
            /\ \A s \in 1..NumSteps : IF s >= f THEN effect'[s] = "none"
                                      ELSE IF s > position' THEN Compensated(s)' ELSE effect'[s] = "done"
      BY <2>2, <3>1
    <3>4. StepsKept'
      BY <2>1, <3>1, <3>2, <3>3 DEF StepsKept
    <3> QED BY <2>1, <3>2, <3>4
  <2> QED BY <2>3, <2>4
<1>5. CASE UNCHANGED sagaVars
  BY <1>5 DEF sagaVars, StepsKept, Compensated
<1> QED BY <1>1, <1>2, <1>3, <1>4, <1>5
        DEF SagaNext, ExecuteSaga, RunPipeline, Compensate, CompensationFails

LEMMA SagaInvHolds == ASSUME SagaInv PROVE SagaUndone
<1>1. /\ kind \in {"saga", "pipeline"}
      /\ saga \in {"running", "compensating", "completed", "raised"}
      /\ \A s \in Steps : s \in Int
  BY SagaAssumption DEF SagaInv, SagaTypeOK, Steps
<1>2. saga = "completed" => \A s \in Steps : effect[s] = "done"
  BY DEF SagaInv, StepsKept
<1>3. saga = "raised" /\ kind = "saga" =>
        \E broken \in Steps : \A s \in Steps :
          IF s < broken THEN effect[s] \in {"undone", "stuck"} ELSE effect[s] = "none"
  BY DEF SagaInv, StepsKept, Compensated
<1>4. ASSUME NEW s \in Steps, NEW t \in Steps, s < t, Compensated(s) PROVE effect[t] # "done"
  <2>1. CASE saga = "running"
    BY <1>4, <2>1 DEF SagaInv, StepsKept, Compensated
  <2>2. CASE saga = "completed"
    BY <1>2, <1>4, <2>2 DEF Compensated
  <2>3. CASE saga = "compensating"
    <3>1. PICK broken \in Steps :
            \A u \in Steps : IF u >= broken THEN effect[u] = "none"
                             ELSE IF u > position THEN Compensated(u) ELSE effect[u] = "done"
      BY <2>3 DEF SagaInv, StepsKept
    <3>2. position \in Int
      BY DEF SagaInv, SagaTypeOK
    <3>3. ~(s >= broken) /\ s > position
      BY <1>4, <3>1 DEF Compensated
    <3>4. t > position
      BY <1>1, <1>4, <3>2, <3>3
    <3> QED BY <3>1, <3>4 DEF Compensated
  <2>4. CASE saga = "raised" /\ kind = "saga"
    BY <1>3, <1>4, <2>4 DEF Compensated
  <2>5. CASE saga = "raised" /\ kind = "pipeline"
    BY <1>4, <2>5 DEF SagaInv, StepsKept
  <2> QED BY <1>1, <2>1, <2>2, <2>3, <2>4, <2>5
<1> QED BY <1>2, <1>3, <1>4 DEF SagaUndone, Compensated

\* "Run compensating transactions for COMPLETED steps in reverse order", for any
\* number of steps and whichever compensations fail.
THEOREM SagaIsUndone == Spec => []SagaUndone
<1>1. Init => SagaInv
  BY SagaInitInv DEF Init
<1>2. SagaInv /\ [Next]_mcVars => SagaInv'
  BY OneSystemSteps, SagaStep
<1>3. SagaInv => SagaUndone
  BY SagaInvHolds
<1> QED BY <1>1, <1>2, <1>3, PTL DEF Spec

-----------------------------------------------------------------------------
(* BackgroundJobService and ThreadPoolWorker *)

JobsTypeOK ==
  /\ how \in {"service", "pool"}
  /\ job_status \in [BgJobs -> {"PENDING", "RUNNING", "COMPLETE", "FAILED", "SUCCESS"}]
  /\ ran \in [BgJobs -> {"returned", "raised", Unknown}]
  /\ thread \in [BgJobs -> {"none", "starting", "running", "reporting", "counting", "ended"}]
  /\ futures \subseteq BgJobs /\ counted \subseteq BgJobs
  /\ asker \in [BgJobs -> {"submitting", "registering", "submitted", "polling", "waiting",
                          "gave_up", "answered"}]
  /\ told \in [BgJobs -> {Unknown, "COMPLETE", "FAILED", "TIMEOUT"}]

\* The thread of a job that has not been submitted is none; one that reports knows
\* how the function ended; the record of a job that ended is what its function gave.
ThreadsKept ==
  \A j \in BgJobs :
    /\ asker[j] = "submitting" => thread[j] = "none"
    /\ thread[j] \in {"reporting", "counting", "ended"} => ran[j] \in {"returned", "raised"}
    /\ thread[j] \in {"counting", "ended"} =>
         job_status[j] = IF ran[j] = "returned" THEN (IF how = "pool" THEN "SUCCESS" ELSE "COMPLETE")
                         ELSE "FAILED"
    /\ thread[j] = "counting" => how = "pool"
    /\ thread[j] = "ended" /\ how = "pool" => j \in counted
    /\ job_status[j] \in {"COMPLETE", "FAILED"} => thread[j] \in {"counting", "ended"}

\* What was told is final, and who has submitted a task has registered its future.
AskersKept ==
  \A j \in BgJobs :
    /\ told[j] \in {"COMPLETE", "FAILED"} =>
         asker[j] = "answered" /\ thread[j] = "ended" /\ told[j] = job_status[j]
    /\ how = "pool" /\ asker[j] \notin {"submitting", "registering"} => j \in futures

WaitTypeOK ==
  /\ waiting_for \in [BgJobs -> SUBSET BgJobs]
  /\ before \in [BgJobs -> SUBSET BgJobs]

\* Who waits for all waits for whatever was submitted before, and finds it ended.
WaitersKept ==
  how = "pool" => \A j \in BgJobs : \A k \in before[j] :
    /\ asker[j] = "waiting" => k \in waiting_for[j]
    /\ asker[j] = "answered" => thread[k] = "ended"

JobsInv == JobsTypeOK /\ ThreadsKept /\ AskersKept /\ WaitTypeOK /\ WaitersKept

\* Nobody has submitted anything.
LEMMA JobsInitInv == ASSUME JobsInit PROVE JobsInv
BY JobsAssumption DEF JobsInit, JobsInv, JobsTypeOK, ThreadsKept, AskersKept, WaitTypeOK, WaitersKept

\* A job goes from its caller to its thread and back.
LEMMA JobsStep ==
  ASSUME JobsInv, [JobsNext]_jobVars
  PROVE  (JobsTypeOK /\ ThreadsKept /\ AskersKept)'
<1> DEFINE Inv == JobsTypeOK /\ ThreadsKept /\ AskersKept
<1> Inv
  BY DEF JobsInv
<1> USE JobsAssumption DEF JobsTypeOK, ThreadAt, AskerAt, StatusIs
<1>1. ASSUME NEW j \in BgJobs, SubmitJob(j) \/ SubmitTask(j) PROVE Inv'
  BY <1>1 DEF SubmitJob, SubmitTask, ThreadsKept, AskersKept
<1>2. ASSUME NEW j \in BgJobs, RunStarts(j) PROVE Inv'
  BY <1>2 DEF RunStarts, ThreadsKept, AskersKept
<1>3. ASSUME NEW j \in BgJobs, FunctionEnds(j) PROVE Inv'
  BY <1>3 DEF FunctionEnds, ThreadsKept, AskersKept
<1>4. ASSUME NEW j \in BgJobs, RunReports(j) \/ TaskReports(j) PROVE Inv'
  BY <1>4 DEF RunReports, TaskReports, ThreadsKept, AskersKept
<1>5. ASSUME NEW j \in BgJobs, GetStatus(j) PROVE Inv'
  BY <1>5 DEF GetStatus, ThreadsKept, AskersKept
<1>6. ASSUME NEW j \in BgJobs, DeadlinePasses(j) PROVE Inv'
  BY <1>6 DEF DeadlinePasses, ThreadsKept, AskersKept
<1>7. ASSUME NEW j \in BgJobs, RegisterFuture(j) PROVE Inv'
  BY <1>7 DEF RegisterFuture, ThreadsKept, AskersKept
<1>8. ASSUME NEW j \in BgJobs, CountTask(j) PROVE Inv'
  BY <1>8 DEF CountTask, ThreadsKept, AskersKept
<1>9. ASSUME NEW j \in BgJobs, WaitAllBegins(j) PROVE Inv'
  BY <1>9 DEF WaitAllBegins, WaitFor, ThreadsKept, AskersKept
<1>10. ASSUME NEW j \in BgJobs, WaitAllReturns(j) \/ WaitAllTimesOut(j) PROVE Inv'
  BY <1>10 DEF WaitAllReturns, WaitAllTimesOut, WaitEnds, ThreadsKept, AskersKept
<1>11. CASE UNCHANGED jobVars
  BY <1>11 DEF jobVars, ThreadsKept, AskersKept
<1> QED BY <1>1, <1>2, <1>3, <1>4, <1>5, <1>6, <1>7, <1>8, <1>9, <1>10, <1>11
        DEF JobsNext, Serve, Pool

\* The future of a task that was submitted is registered; a thread that has ended
\* does not run again.
LEMMA WaitersStep ==
  ASSUME JobsInv, [JobsNext]_jobVars
  PROVE  (WaitTypeOK /\ WaitersKept)'
<1> DEFINE Inv == WaitTypeOK /\ WaitersKept
<1> USE DEF JobsInv, JobsTypeOK, WaitTypeOK, WaitersKept, ThreadAt, AskerAt
<1>1. ASSUME NEW j \in BgJobs, SubmitJob(j) \/ SubmitTask(j) PROVE Inv'
  BY <1>1 DEF SubmitJob, SubmitTask, ThreadsKept
<1>2. ASSUME NEW j \in BgJobs, RunStarts(j) \/ RunReports(j) PROVE Inv'
  BY <1>2 DEF RunStarts, RunReports
<1>3. ASSUME NEW j \in BgJobs, FunctionEnds(j) PROVE Inv'
  BY <1>3 DEF FunctionEnds
<1>4. ASSUME NEW j \in BgJobs, TaskReports(j) \/ CountTask(j) PROVE Inv'
  BY <1>4 DEF TaskReports, CountTask
<1>5. ASSUME NEW j \in BgJobs, GetStatus(j) \/ DeadlinePasses(j) PROVE Inv'
  BY <1>5 DEF GetStatus, DeadlinePasses
<1>6. ASSUME NEW j \in BgJobs, RegisterFuture(j) PROVE Inv'
  BY <1>6 DEF RegisterFuture
<1>7. ASSUME NEW j \in BgJobs, WaitAllBegins(j) PROVE Inv'
  <2>1. how = "pool" => Submitted \subseteq futures
    BY DEF Submitted, AskersKept
  <2>2. Submitted \in SUBSET BgJobs /\ futures \in SUBSET BgJobs
    BY DEF Submitted
  <2> QED BY <1>7, <2>1, <2>2 DEF WaitAllBegins, WaitFor
<1>8. ASSUME NEW j \in BgJobs, WaitAllReturns(j) \/ WaitAllTimesOut(j) PROVE Inv'
  BY <1>8 DEF WaitAllReturns, WaitAllTimesOut, WaitEnds
<1>9. CASE UNCHANGED jobVars
  BY <1>9 DEF jobVars
<1> QED BY <1>1, <1>2, <1>3, <1>4, <1>5, <1>6, <1>7, <1>8, <1>9 DEF JobsNext, Serve, Pool

\* Who was told the outcome of a job was told how its function ended, for good, and
\* whose wait_all returned finds every task submitted before it ended and counted,
\* whoever submitted it: for any number of jobs, callers and waiters.
THEOREM AnswersAreFinal == Spec => []AnswersFinal
<1>1. Init => JobsInv
  BY JobsInitInv DEF Init
<1>2. JobsInv /\ [Next]_mcVars => JobsInv'
  BY OneSystemSteps, JobsStep, WaitersStep DEF JobsInv
<1>3. JobsInv => AnswersFinal
  BY JobsAssumption DEF JobsInv, JobsTypeOK, ThreadsKept, AskersKept, WaitTypeOK, WaitersKept,
                        AnswersFinal
<1> QED BY <1>1, <1>2, <1>3, PTL DEF Spec
-----------------------------------------------------------------------------
(* FanOutFanIn, ProcessPoolWorker.map and AsyncWorker.run_batch *)

\* Every set of naturals that has a member has a least one.
LEMMA LeastMember ==
  ASSUME NEW P \in SUBSET Nat, P # {}
  PROVE  \E n \in P : \A m \in P : n <= m
<1> DEFINE R == OpToRel(<, Nat)
<1>1. IsWellFoundedOn(R, Nat)
  BY NatLessThanWellFounded
<1>2. PICK n \in P : \A m \in P : <<m, n>> \notin R
  <2> HIDE DEF R
  <2> QED BY <1>1, WFMin
<1>3. \A m \in P : <<m, n>> \in R <=> m < n
  BY DEF OpToRel
<1> HIDE DEF R
<1>4. \A m \in P : ~ (m < n)
  BY <1>2, <1>3
<1> QED BY <1>4

\* Induction over the naturals, for a property given as the set that has it.
LEMMA Induction ==
  ASSUME NEW P, 0 \in P, \A n \in Nat : n \in P => n + 1 \in P
  PROVE  Nat \subseteq P
<1>1. CASE Nat \ P # {}
  <2>1. PICK n \in Nat \ P : \A m \in Nat \ P : n <= m
    BY <1>1, LeastMember
  <2>2. n # 0 /\ n - 1 \in Nat /\ n - 1 \in P
    BY <2>1
  <2> QED BY <2>1, <2>2
<1> QED BY <1>1

\* What sift computes for the first inputs of the list, as a function.
Sifts(f, V, n) ==
  f = [j \in 0..n |->
         IF j = 0 THEN <<>> ELSE IF j \in V THEN Append(f[j - 1], j) ELSE f[j - 1]]

\* There is such a function, however long the list.
LEMMA SiftExists ==
  ASSUME NEW V
  PROVE  \A n \in Nat : \E f : Sifts(f, V, n)
<1> DEFINE P == {n \in Nat : \E f : Sifts(f, V, n)}
<1>1. 0 \in P
  <2>1. Sifts([j \in 0..0 |-> <<>>], V, 0)
    BY DEF Sifts
  <2> QED BY <2>1
<1>2. ASSUME NEW n \in Nat, n \in P PROVE n + 1 \in P
  <2>1. PICK f : Sifts(f, V, n)
    BY <1>2
  <2> DEFINE g == [j \in 0..(n + 1) |->
                     IF j <= n THEN f[j]
                     ELSE IF j \in V THEN Append(f[n], j) ELSE f[n]]
  <2>2. \A j \in 0..n : f[j] = IF j = 0 THEN <<>> ELSE IF j \in V THEN Append(f[j - 1], j) ELSE f[j - 1]
    BY <2>1 DEF Sifts
  <2>3. \A j \in 0..(n + 1) :
          g[j] = IF j = 0 THEN <<>> ELSE IF j \in V THEN Append(g[j - 1], j) ELSE g[j - 1]
    <3> SUFFICES ASSUME NEW j \in 0..(n + 1)
                 PROVE  g[j] = IF j = 0 THEN <<>> ELSE IF j \in V THEN Append(g[j - 1], j) ELSE g[j - 1]
      OBVIOUS
    <3>1. CASE j = 0
      BY <3>1, <2>2
    <3>2. CASE j \in 1..n
      <4>1. j \in 0..n /\ j - 1 \in 0..n /\ j - 1 \in 0..(n + 1) /\ j # 0
        BY <3>2
      <4>2. g[j] = f[j] /\ g[j - 1] = f[j - 1]
        BY <4>1
      <4> QED BY <4>1, <4>2, <2>2
    <3>3. CASE j = n + 1
      <4>1. j - 1 = n /\ n \in 0..(n + 1) /\ j # 0 /\ ~ (j <= n)
        BY <3>3
      <4>2. g[j - 1] = f[n]
        BY <4>1
      <4> QED BY <4>1, <4>2, <3>3
    <3> QED BY <3>1, <3>2, <3>3
  <2>4. Sifts(g, V, n + 1)
    <3> DEFINE h == [j \in 0..(n + 1) |->
                      IF j = 0 THEN <<>> ELSE IF j \in V THEN Append(g[j - 1], j) ELSE g[j - 1]]
    <3>1. g = h
      <4>1. \A j \in 0..(n + 1) : g[j] = h[j]
        BY <2>3
      <4>2. g = [j \in 0..(n + 1) |-> g[j]] /\ h = [j \in 0..(n + 1) |-> h[j]]
        OBVIOUS
      <4> HIDE DEF g, h
      <4> QED BY <4>1, <4>2
    <3> QED BY <3>1 DEF Sifts
  <2> QED BY <2>4
<1> HIDE DEF P
<1>3. Nat \subseteq P
  BY <1>1, <1>2, Induction
<1> QED BY <1>3 DEF P

\* The inputs of V, each once, in the order of the list.
LEMMA InOrderIs ==
  ASSUME NEW V \in SUBSET Jobs
  PROVE  /\ InOrder(V) \in Seq(Jobs)
         /\ {InOrder(V)[k] : k \in DOMAIN InOrder(V)} = V
         /\ \A k, l \in DOMAIN InOrder(V) : k < l => InOrder(V)[k] < InOrder(V)[l]
<1> DEFINE sift == CHOOSE f : Sifts(f, V, NumJobs)
<1>1. InOrder(V) = sift[NumJobs]
  BY DEF InOrder, Sifts
<1>2. Sifts(sift, V, NumJobs)
  BY SiftExists, PoolAssumption
<1> HIDE DEF sift
<1>3. /\ sift[0] = <<>>
      /\ \A n \in 0..(NumJobs - 1) :
           sift[n + 1] = IF n + 1 \in V THEN Append(sift[n], n + 1) ELSE sift[n]
  <2>1. \A j \in 0..NumJobs :
          sift[j] = IF j = 0 THEN <<>> ELSE IF j \in V THEN Append(sift[j - 1], j) ELSE sift[j - 1]
    BY <1>2 DEF Sifts
  <2>2. sift[0] = <<>>
    BY <2>1, PoolAssumption
  <2>3. ASSUME NEW n \in 0..(NumJobs - 1)
        PROVE  sift[n + 1] = IF n + 1 \in V THEN Append(sift[n], n + 1) ELSE sift[n]
    <3>1. n + 1 \in 0..NumJobs /\ n + 1 # 0 /\ (n + 1) - 1 = n
      BY PoolAssumption
    <3> QED BY <3>1, <2>1
  <2> QED BY <2>2, <2>3
<1> DEFINE Good(n) ==
      /\ sift[n] \in Seq(Jobs)
      /\ \A k \in 1..Len(sift[n]) : sift[n][k] <= n /\ sift[n][k] \in V
      /\ \A v \in V : v <= n => \E k \in 1..Len(sift[n]) : sift[n][k] = v
      /\ \A k, l \in 1..Len(sift[n]) : k < l => sift[n][k] < sift[n][l]
    P == {n \in Nat : n <= NumJobs => Good(n)}
<1>0. Jobs \subseteq Nat \ {0}
  BY DEF Jobs
<1>4. 0 \in P
  <2>1. sift[0] = <<>> /\ <<>> \in Seq(Jobs) /\ 1..Len(<<>>) = {}
    BY <1>3
  <2>2. \A v \in V : ~ (v <= 0)
    BY <1>0
  <2> QED BY <2>1, <2>2
<1>5. ASSUME NEW n \in Nat, n \in P PROVE n + 1 \in P
  <2> SUFFICES ASSUME n + 1 <= NumJobs PROVE Good(n + 1)
    OBVIOUS
  <2>1. Good(n) /\ n \in 0..(NumJobs - 1) /\ n + 1 \in Jobs
    BY <1>5, PoolAssumption DEF Jobs
  <2>2. CASE n + 1 \in V
    <3> DEFINE s == sift[n]
    <3>1. sift[n + 1] = Append(s, n + 1) /\ s \in Seq(Jobs)
      BY <2>1, <2>2, <1>3
    <3>2. /\ Append(s, n + 1) \in Seq(Jobs)
          /\ Len(Append(s, n + 1)) = Len(s) + 1
          /\ Append(s, n + 1)[Len(s) + 1] = n + 1
          /\ \A k \in 1..Len(s) : Append(s, n + 1)[k] = s[k]
          /\ Len(s) \in Nat
          /\ \A k \in 1..Len(s) : s[k] \in Nat
      <4>1. \A k \in 1..Len(s) : s[k] \in Jobs
        BY <3>1
      <4>2. \A k \in 1..Len(s) : s[k] \in Nat
        BY <4>1, <1>0
      <4> HIDE DEF s
      <4> QED BY <3>1, <2>1, <4>2
    <3>3. /\ \A k \in 1..Len(s) : s[k] <= n /\ s[k] \in V
          /\ \A v \in V : v <= n => \E k \in 1..Len(s) : s[k] = v
          /\ \A k, l \in 1..Len(s) : k < l => s[k] < s[l]
      BY <2>1
    <3> HIDE DEF s
    <3> DEFINE t == Append(s, n + 1)
    <3>4. t \in Seq(Jobs) /\ \A k \in 1..Len(t) : t[k] <= n + 1 /\ t[k] \in V
      BY <3>2, <3>3, <2>2
    <3>5. \A v \in V : v <= n + 1 => \E k \in 1..Len(t) : t[k] = v
      <4> SUFFICES ASSUME NEW v \in V, v <= n + 1 PROVE \E k \in 1..Len(t) : t[k] = v
        OBVIOUS
      <4>1. v \in Nat
        BY DEF Jobs
      <4>2. CASE v = n + 1
        BY <4>2, <3>2
      <4>3. CASE v <= n
        <5>1. PICK k \in 1..Len(s) : s[k] = v
          BY <4>3, <3>3
        <5>2. k \in 1..Len(t) /\ t[k] = v
          BY <5>1, <3>2
        <5> QED BY <5>2
      <4> QED BY <4>1, <4>2, <4>3
    <3>6. \A k, l \in 1..Len(t) : k < l => t[k] < t[l]
      BY <3>2, <3>3
    <3> QED BY <3>1, <3>4, <3>5, <3>6
  <2>3. CASE n + 1 \notin V
    <3>1. sift[n + 1] = sift[n]
      BY <2>1, <2>3, <1>3
    <3>2. /\ \A v \in V : v \in Nat /\ (v <= n + 1 => v <= n)
          /\ \A k \in 1..Len(sift[n]) : sift[n][k] \in Nat
      <4>1. \A k \in 1..Len(sift[n]) : sift[n][k] \in Jobs
        BY <2>1
      <4>2. \A v \in V : v \in Nat /\ v # n + 1
        BY <2>3, <1>0
      <4>3. \A k \in 1..Len(sift[n]) : sift[n][k] \in Nat
        BY <4>1, <1>0
      <4> QED BY <4>2, <4>3
    <3>3. \A k \in 1..Len(sift[n]) : sift[n][k] <= n + 1
      BY <3>2, <2>1
    <3> QED BY <3>1, <3>2, <3>3, <2>1
  <2> QED BY <2>2, <2>3
<1> HIDE DEF P
<1>6. NumJobs \in P
  BY <1>4, <1>5, Induction, PoolAssumption
<1>7. Good(NumJobs)
  BY <1>6, PoolAssumption DEF P
<1>8. \A v \in V : v <= NumJobs
  BY DEF Jobs
<1> QED BY <1>1, <1>7, <1>8

PoolTypeOK ==
  /\ pattern \in {"fan-out", "map", "gather"}
  /\ job \in [Jobs -> {"waiting", "running"} \cup Ended]
  /\ batch_start \in Nat \ {0}
  /\ collected \subseteq Jobs
  /\ completed \in Nat /\ failed \in Nat
  /\ results \in Seq(Jobs)
  /\ returned \in BOOLEAN

Failing   == {j \in Jobs : job[j] = "error"}
Finished  == {j \in Jobs : job[j] \in Ended}

\* Only the batch under way runs: the ones before it have been joined, the ones
\* behind it have not begun.
OneBatchRuns ==
  pattern = "fan-out" =>
    \A j \in Jobs :
      /\ j < batch_start => job[j] \in Ended
      /\ j >= batch_start + max_workers => job[j] = "waiting"

FanInKept ==
  pattern = "fan-out" /\ returned =>
    /\ batch_start > NumJobs
    /\ {results[k] : k \in DOMAIN results} = {j \in Jobs : job[j] = "value"}
    /\ \A k, l \in DOMAIN results : k < l => results[k] < results[l]

\* A result for every future taken, and each counted as it was taken.
CollectedCounted ==
  pattern = "map" =>
    /\ \A j \in collected : job[j] \in Ended
    /\ Len(results) = Cardinality(collected)
    /\ {results[k] : k \in DOMAIN results} = collected
    /\ failed = Cardinality(collected \cap Failing)
    /\ completed + failed = Cardinality(collected)
    /\ returned <=> collected = Jobs

\* Each function counted as it ends.
EndsCounted ==
  pattern = "gather" =>
    /\ failed = Cardinality(Failing)
    /\ completed + failed = Cardinality(Finished)
    /\ returned => Finished = Jobs /\ results = [j \in Jobs |-> j]

PoolInv ==
  /\ PoolTypeOK
  /\ Cardinality(Running) <= max_workers
  /\ OneBatchRuns /\ FanInKept /\ CollectedCounted /\ EndsCounted

\* The inputs, and those of any kind, can be counted.
LEMMA JobsCount ==
  /\ IsFiniteSet(Jobs) /\ Cardinality(Jobs) = NumJobs
  /\ \A S \in SUBSET Jobs : IsFiniteSet(S) /\ Cardinality(S) \in Nat
<1>1. IsFiniteSet(Jobs) /\ Cardinality(Jobs) = NumJobs
  BY FS_Interval, PoolAssumption DEF Jobs
<1>2. ASSUME NEW S \in SUBSET Jobs PROVE IsFiniteSet(S) /\ Cardinality(S) \in Nat
  BY <1>1, FS_Subset, FS_CardinalityType
<1> QED BY <1>1, <1>2

\* One more input in a set.
LEMMA OneMore ==
  ASSUME NEW S \in SUBSET Jobs, NEW j \in Jobs \ S
  PROVE  Cardinality(S \cup {j}) = Cardinality(S) + 1
BY JobsCount, FS_AddElement

\* No batch has more threads than max_workers.
LEMMA BatchBounded ==
  ASSUME NEW b \in Nat, NEW S \in SUBSET (b..(b + max_workers - 1))
  PROVE  Cardinality(S) <= max_workers
<1>1. /\ b \in Int /\ b + max_workers - 1 \in Int
      /\ b <= b + max_workers - 1
      /\ (b + max_workers - 1) - b + 1 = max_workers
  BY PoolAssumption
<1>2. /\ IsFiniteSet(b..(b + max_workers - 1))
      /\ Cardinality(b..(b + max_workers - 1)) = max_workers
  BY <1>1, FS_Interval
<1> QED BY <1>2, FS_Subset

LEMMA PoolInitInv == ASSUME PoolInit PROVE PoolInv
<1> USE DEF PoolInit
<1>1. PoolTypeOK
  <2>1. /\ returned = FALSE /\ results = <<>> /\ batch_start = 1
        /\ job = [j \in Jobs |-> "waiting"]
    OBVIOUS
  <2>2. results \in Seq(Jobs)
    BY <2>1
  <2>3. returned \in BOOLEAN
    BY <2>1
  <2>4. job \in [Jobs -> {"waiting", "running"} \cup Ended]
    BY <2>1
  <2> QED BY <2>1, <2>2, <2>3, <2>4 DEF PoolTypeOK
<1>2. Running = {} /\ Failing = {} /\ Finished = {} /\ Jobs # {} /\ collected \cap Failing = {}
  <2>1. 1 \in Jobs
    BY PoolAssumption DEF Jobs
  <2>2. \A j \in Jobs : job[j] = "waiting"
    OBVIOUS
  <2> QED BY <2>1, <2>2 DEF Running, Failing, Finished, Ended
<1>3. Cardinality({}) = 0
  BY FS_EmptySet
<1>4. OneBatchRuns /\ FanInKept
  BY PoolAssumption DEF OneBatchRuns, FanInKept, Jobs
<1>5. CollectedCounted /\ EndsCounted
  BY <1>2, <1>3 DEF CollectedCounted, EndsCounted
<1> QED BY <1>1, <1>2, <1>3, <1>4, <1>5, PoolAssumption DEF PoolInv

\* A function begins: as a thread of the batch, or where there is a place.
LEMMA JobBegins ==
  ASSUME PoolInv, NEW j \in Jobs, StartThread(j) \/ TakeUp(j)
  PROVE  PoolInv'
<1> USE DEF PoolInv
<1>1. /\ job[j] = "waiting" /\ job' = [job EXCEPT ![j] = "running"]
      /\ UNCHANGED <<pattern, batch_start, collected, completed, failed, results, returned>>
  BY DEF StartThread, TakeUp
<1>2. PoolTypeOK'
  BY <1>1 DEF PoolTypeOK
<1>3. OneBatchRuns'
  <2>1. pattern = "fan-out" => batch_start <= j /\ j < batch_start + max_workers
    BY DEF StartThread, TakeUp
  <2> QED BY <1>1, <2>1, PoolAssumption DEF OneBatchRuns, PoolTypeOK, Jobs, Ended
<1>4. Cardinality(Running') <= max_workers
  <2>1. CASE pattern = "fan-out"
    <3>1. Running' \in SUBSET (batch_start..(batch_start + max_workers - 1))
      BY <1>1, <1>3, <2>1, PoolAssumption DEF PoolTypeOK, OneBatchRuns, Running, Ended, Jobs
    <3> QED BY <3>1, BatchBounded DEF PoolTypeOK
  <2>2. CASE pattern # "fan-out"
    <3>1. Cardinality(Running) < max_workers
      BY <2>2 DEF StartThread, TakeUp
    <3>2. Running' = Running \cup {j} /\ Running \in SUBSET Jobs /\ j \in Jobs \ Running
      BY <1>1 DEF Running, PoolTypeOK
    <3> QED BY <3>1, <3>2, OneMore, JobsCount, PoolAssumption
  <2> QED BY <2>1, <2>2
<1>5. Failing' = Failing /\ Finished' = Finished /\ job' # [job EXCEPT ![j] = "value"]
      /\ {i \in Jobs : job'[i] = "value"} = {i \in Jobs : job[i] = "value"}
  BY <1>1 DEF Failing, Finished, Ended, PoolTypeOK
<1>6. FanInKept'
  BY <1>1, <1>5 DEF FanInKept
<1>7. CollectedCounted' /\ EndsCounted'
  <2>1. pattern = "map" => \A i \in collected : job'[i] \in Ended
    BY <1>1 DEF CollectedCounted, PoolTypeOK, Ended
  <2> QED BY <1>1, <1>5, <2>1 DEF CollectedCounted, EndsCounted
<1> QED BY <1>2, <1>3, <1>4, <1>6, <1>7

\* A function returns or raises.
LEMMA JobEnded ==
  ASSUME PoolInv, NEW j \in Jobs, NEW r \in Ended, JobEnds(j, r)
  PROVE  PoolInv'
<1> USE DEF PoolInv
<1>1. /\ job[j] = "running" /\ job' = [job EXCEPT ![j] = r]
      /\ UNCHANGED <<pattern, batch_start, collected, results, returned>>
  BY DEF JobEnds
<1>2. PoolTypeOK'
  <2>1. completed' \in Nat /\ failed' \in Nat
    BY DEF JobEnds, PoolTypeOK
  <2> QED BY <1>1, <2>1 DEF PoolTypeOK
<1>3. Cardinality(Running') <= max_workers
  <2>1. Running' \in SUBSET Running /\ Running \in SUBSET Jobs
    BY <1>1 DEF Running, PoolTypeOK, Ended
  <2>2. Cardinality(Running') <= Cardinality(Running)
    BY <2>1, JobsCount, FS_Subset
  <2>3. Cardinality(Running') \in Nat /\ Cardinality(Running) \in Nat
    BY <2>1, JobsCount
  <2> QED BY <2>2, <2>3, PoolAssumption
<1>4. OneBatchRuns'
  BY <1>1 DEF OneBatchRuns, PoolTypeOK, Ended
<1>5. FanInKept'
  <2>1. ~ (pattern = "fan-out" /\ returned)
    BY <1>1, PoolAssumption DEF FanInKept, OneBatchRuns, Ended, Jobs, PoolTypeOK
  <2> QED BY <1>1, <2>1 DEF FanInKept
<1>6. CollectedCounted'
  <2> SUFFICES ASSUME pattern = "map" PROVE CollectedCounted'
    BY <1>1 DEF CollectedCounted
  <2>1. j \notin collected /\ collected \cap Failing' = collected \cap Failing
    BY <1>1 DEF CollectedCounted, PoolTypeOK, Failing, Ended
  <2>2. \A i \in collected : job'[i] \in Ended
    BY <1>1, <2>1 DEF CollectedCounted, PoolTypeOK
  <2>3. completed' = completed /\ failed' = failed
    BY DEF JobEnds
  <2> QED BY <1>1, <2>1, <2>2, <2>3 DEF CollectedCounted
<1>7. EndsCounted'
  <2> SUFFICES ASSUME pattern = "gather" PROVE EndsCounted'
    BY <1>1 DEF EndsCounted
  <2>1. Finished' = Finished \cup {j} /\ Finished \in SUBSET Jobs /\ j \in Jobs \ Finished
    BY <1>1 DEF Finished, PoolTypeOK, Ended
  <2>2. Cardinality(Finished') = Cardinality(Finished) + 1 /\ Cardinality(Finished) \in Nat
    BY <2>1, OneMore, JobsCount
  <2>3. ~returned
    BY <2>1 DEF EndsCounted
  <2>4. CASE r = "error"
    <3>1. failed' = failed + 1 /\ completed' = completed
      BY <2>4 DEF JobEnds
    <3>2. Failing' = Failing \cup {j} /\ Failing \in SUBSET Jobs /\ j \in Jobs \ Failing
      BY <1>1, <2>4 DEF Failing, PoolTypeOK
    <3>3. Cardinality(Failing') = Cardinality(Failing) + 1
      BY <3>2, OneMore
    <3> QED BY <1>1, <2>2, <2>3, <3>1, <3>3 DEF EndsCounted, PoolTypeOK
  <2>5. CASE r # "error"
    <3>1. failed' = failed /\ completed' = completed + 1
      BY <2>5 DEF JobEnds
    <3>2. Failing' = Failing
      BY <1>1, <2>5 DEF Failing, PoolTypeOK
    <3> QED BY <1>1, <2>2, <2>3, <3>1, <3>2 DEF EndsCounted, PoolTypeOK
  <2> QED BY <2>4, <2>5
<1> QED BY <1>2, <1>3, <1>4, <1>5, <1>6, <1>7

\* The fan-in sifts the results of sub-tasks that have all ended.
LEMMA FannedIn == ASSUME PoolInv, FanIn PROVE PoolInv'
<1> USE DEF PoolInv
<1> DEFINE V == {j \in Jobs : job[j] = "value"}
<1>1. /\ pattern = "fan-out" /\ batch_start > NumJobs /\ results' = InOrder(V)
      /\ returned' = TRUE
      /\ UNCHANGED <<pattern, job, batch_start, collected, completed, failed>>
  BY DEF FanIn
<1>2. /\ InOrder(V) \in Seq(Jobs)
      /\ {InOrder(V)[k] : k \in DOMAIN InOrder(V)} = V
      /\ \A k, l \in DOMAIN InOrder(V) : k < l => InOrder(V)[k] < InOrder(V)[l]
  BY InOrderIs
<1>3. Running' = Running
  BY <1>1 DEF Running
<1>4. PoolTypeOK'
  BY <1>1, <1>2 DEF PoolTypeOK
<1>5. FanInKept'
  BY <1>1, <1>2 DEF FanInKept
<1>6. OneBatchRuns' /\ CollectedCounted' /\ EndsCounted'
  BY <1>1 DEF OneBatchRuns, CollectedCounted, EndsCounted
<1> QED BY <1>3, <1>4, <1>5, <1>6

\* A future that is done is taken: its result is one more, and it is counted.
LEMMA Collected ==
  ASSUME PoolInv, NEW j \in Jobs, CollectCompleted(j)
  PROVE  PoolInv'
<1> USE DEF PoolInv
<1>1. /\ pattern = "map" /\ job[j] \in Ended /\ j \notin collected
      /\ collected' = collected \cup {j} /\ results' = Append(results, j)
      /\ returned' = (collected' = Jobs)
      /\ UNCHANGED <<pattern, job, batch_start>>
  BY DEF CollectCompleted
<1>2. PoolTypeOK'
  <2>1. completed' \in Nat /\ failed' \in Nat
    BY DEF CollectCompleted, PoolTypeOK
  <2> QED BY <1>1, <2>1 DEF PoolTypeOK
<1>3. Running' = Running /\ Failing' = Failing
  BY <1>1 DEF Running, Failing
<1>4. OneBatchRuns' /\ FanInKept' /\ EndsCounted'
  BY <1>1 DEF OneBatchRuns, FanInKept, EndsCounted
<1>5. CollectedCounted'
  <2>1. Cardinality(collected') = Cardinality(collected) + 1 /\ Cardinality(collected) \in Nat
    BY <1>1, OneMore, JobsCount DEF PoolTypeOK
  <2>2. Len(results') = Len(results) + 1
    BY <1>1 DEF PoolTypeOK
  <2>3. {results'[k] : k \in DOMAIN results'} = collected'
    <3>1. /\ DOMAIN results' = 1..(Len(results) + 1) /\ DOMAIN results = 1..Len(results)
          /\ Len(results) \in Nat
          /\ \A k \in 1..Len(results) : results'[k] = results[k]
          /\ results'[Len(results) + 1] = j
      BY <1>1 DEF PoolTypeOK
    <3>2. {results[k] : k \in 1..Len(results)} = collected
      BY <1>1, <3>1 DEF CollectedCounted
    <3> QED BY <1>1, <3>1, <3>2
  <2>4. failed' = Cardinality(collected' \cap Failing)
    <3>1. CASE job[j] = "error"
      <4>1. collected' \cap Failing = (collected \cap Failing) \cup {j}
            /\ collected \cap Failing \in SUBSET Jobs /\ j \in Jobs \ (collected \cap Failing)
        BY <1>1, <3>1 DEF Failing
      <4>2. Cardinality(collected' \cap Failing) = Cardinality(collected \cap Failing) + 1
        BY <4>1, OneMore
      <4> QED BY <1>1, <3>1, <4>2 DEF CollectCompleted, CollectedCounted
    <3>2. CASE job[j] # "error"
      <4>1. collected' \cap Failing = collected \cap Failing
        BY <1>1, <3>2 DEF Failing
      <4> QED BY <1>1, <3>2, <4>1 DEF CollectCompleted, CollectedCounted
    <3> QED BY <3>1, <3>2
  <2>5. completed' + failed' = Cardinality(collected')
    BY <1>1, <2>1 DEF CollectCompleted, CollectedCounted, PoolTypeOK
  <2>6. \A i \in collected' : job'[i] \in Ended
    BY <1>1 DEF CollectedCounted
  <2>7. Len(results') = Cardinality(collected')
    BY <1>1, <2>1, <2>2 DEF CollectedCounted
  <2> QED BY <1>1, <1>3, <2>3, <2>4, <2>5, <2>6, <2>7 DEF CollectedCounted
<1> QED BY <1>2, <1>3, <1>4, <1>5

LEMMA PoolStep ==
  ASSUME PoolInv, [PoolNext]_poolVars
  PROVE  PoolInv'
<1>1. ASSUME NEW j \in Jobs, StartThread(j) \/ TakeUp(j) PROVE PoolInv'
  BY <1>1, JobBegins
<1>2. ASSUME NEW j \in Jobs, End(j) PROVE PoolInv'
  BY <1>2, JobEnded DEF End
<1>3. CASE JoinBatch
  <2>1. /\ pattern = "fan-out" /\ batch_start' = batch_start + max_workers
        /\ \A j \in Jobs : j < batch_start + max_workers => job[j] \in Ended
        /\ UNCHANGED <<pattern, job, collected, completed, failed, results, returned>>
    BY <1>3 DEF JoinBatch
  <2>2. PoolTypeOK' /\ OneBatchRuns'
    <3>1. \A j \in Jobs : j < batch_start' => job'[j] \in Ended
      BY <2>1
    <3>2. \A j \in Jobs : j >= batch_start' + max_workers => job'[j] = "waiting"
      BY <2>1, PoolAssumption DEF PoolInv, PoolTypeOK, OneBatchRuns, Jobs
    <3>3. PoolTypeOK'
      BY <2>1, PoolAssumption DEF PoolInv, PoolTypeOK
    <3> QED BY <2>1, <3>1, <3>2, <3>3 DEF OneBatchRuns
  <2>3. FanInKept'
    BY <1>3, <2>1, PoolAssumption DEF PoolInv, PoolTypeOK, FanInKept, JoinBatch
  <2>4. CollectedCounted' /\ EndsCounted' /\ Running' = Running
    BY <2>1 DEF CollectedCounted, EndsCounted, Running
  <2> QED BY <2>2, <2>3, <2>4 DEF PoolInv
<1>4. CASE FanIn
  BY <1>4, FannedIn
<1>5. ASSUME NEW j \in Jobs, CollectCompleted(j) PROVE PoolInv'
  BY <1>5, Collected
<1>6. CASE Gather
  <2>1. /\ pattern = "gather" /\ \A j \in Jobs : job[j] \in Ended
        /\ results' = [j \in Jobs |-> j] /\ returned' = TRUE
        /\ UNCHANGED <<pattern, job, batch_start, collected, completed, failed>>
    BY <1>6 DEF Gather
  <2>2. [j \in Jobs |-> j] \in Seq(Jobs)
    BY PoolAssumption DEF Jobs
  <2>3. PoolTypeOK' /\ Running' = Running
    BY <2>1, <2>2 DEF PoolInv, PoolTypeOK, Running
  <2>4. OneBatchRuns' /\ FanInKept' /\ CollectedCounted'
    BY <2>1 DEF OneBatchRuns, FanInKept, CollectedCounted
  <2>5. EndsCounted'
    BY <2>1 DEF PoolInv, EndsCounted, Finished, Failing
  <2> QED BY <2>3, <2>4, <2>5 DEF PoolInv
<1>7. CASE UNCHANGED poolVars
  BY <1>7 DEF poolVars, PoolInv, PoolTypeOK, Running, OneBatchRuns, FanInKept,
     CollectedCounted, EndsCounted, Failing, Finished
<1> QED BY <1>1, <1>2, <1>3, <1>4, <1>5, <1>6, <1>7
        DEF PoolNext, FanOutFanIn, MapInProcesses, RunBatch

LEMMA PoolInvHolds == ASSUME PoolInv PROVE OneResultEach
<1> USE DEF PoolInv
<1> SUFFICES ASSUME returned
             PROVE  /\ \A j \in Jobs : job[j] \in Ended
                    /\ pattern # "fan-out" =>
                         /\ Len(results) = NumJobs
                         /\ {results[k] : k \in DOMAIN results} = Jobs
                         /\ failed = Cardinality(Failing)
                         /\ completed + failed = NumJobs
  BY DEF OneResultEach, FanInKept, Failing
<1>1. CASE pattern = "fan-out"
  BY <1>1, PoolAssumption DEF FanInKept, OneBatchRuns, PoolTypeOK, Jobs
<1>2. CASE pattern = "map"
  <2>1. collected = Jobs /\ collected \cap Failing = Failing
    BY <1>2 DEF CollectedCounted, Failing
  <2> QED BY <1>2, <2>1, JobsCount DEF CollectedCounted
<1>3. CASE pattern = "gather"
  <2>1. Finished = Jobs /\ results = [j \in Jobs |-> j]
    BY <1>3 DEF EndsCounted
  <2>2. Len(results) = NumJobs /\ DOMAIN results = Jobs /\ \A k \in Jobs : results[k] = k
    BY <2>1, PoolAssumption DEF Jobs
  <2>3. \A j \in Jobs : job[j] \in Ended
    BY <2>1 DEF Finished
  <2> QED BY <1>3, <2>1, <2>2, <2>3, JobsCount DEF EndsCounted
<1> QED BY <1>1, <1>2, <1>3 DEF PoolTypeOK

\* However sub-tasks interleave and fail: one result for every input, each counted
\* once, and no more at once than max_workers; and what was told of a background job
\* is final. For any number of inputs, places, jobs and callers.
THEOREM ResultsAreFinal == Spec => []ResultsFinal
<1>1. Init => PoolInv
  BY PoolInitInv DEF Init
<1>2. PoolInv /\ [Next]_mcVars => PoolInv'
  BY OneSystemSteps, PoolStep
<1>3. PoolInv => OneResultEach
  BY PoolInvHolds
<1>4. Spec => []OneResultEach
  BY <1>1, <1>2, <1>3, PTL DEF Spec
<1>5. Spec => [](OneResultEach /\ AnswersFinal)
  BY <1>4, AnswersAreFinal, PTL
<1> QED BY <1>5, PTL DEF ResultsFinal

-----------------------------------------------------------------------------
(* The batch processor: every item added is in one batch, a batch is a run of *)
(* consecutive arrivals, and no batch is counted before it is processed.      *)

BatchTypeOK ==
  /\ arrivals \in Seq(Items) /\ batch \in Seq(Items)
  /\ at \in [Threads -> {"new", "flushing", "processing", "counting", "adding_up",
                         "looping", "sleeping", "raised", "exited", "done"}]
  /\ taken \in [Threads -> Seq(Items)]
  /\ processed \subseteq Seq(Items) /\ dropped \subseteq Seq(Items)
  /\ total \in Nat /\ seen_total \in [Threads -> Nat]

RunsFrom(b, k) ==
  /\ k + Len(b) <= Len(arrivals)
  /\ \A j \in 1..Len(b) : b[j] = arrivals[k + j]

\* A batch is a run of the arrivals, and the current one is their end.
BatchesRun ==
  /\ \A b \in Batches : \E k \in 0..Len(arrivals) : RunsFrom(b, k)
  /\ Len(batch) <= Len(arrivals) /\ RunsFrom(batch, Len(arrivals) - Len(batch))

\* An item arrives once.
ArriveOnce ==
  /\ \A n \in DOMAIN arrivals : at[arrivals[n]] # "new"
  /\ \A m, n \in DOMAIN arrivals : arrivals[m] = arrivals[n] => m = n

\* What has arrived stands in one batch, at one place.
PlacedOnce ==
  /\ \A b, c \in Batches : \A j \in DOMAIN b, k \in DOMAIN c : b[j] = c[k] => b = c /\ j = k
  /\ \A n \in DOMAIN arrivals : \E b \in Batches : \E j \in DOMAIN b : b[j] = arrivals[n]

\* The threads that have a batch, and those of them that have still to count it.
HasTaken(f) == at[f] \in {"processing", "counting", "adding_up"}
Counting == {f \in Threads : at[f] \in {"counting", "adding_up"}}

\* A batch is in one place: with one thread, processed, raised on or current.
HandsApart ==
  /\ \A f, g \in Threads : HasTaken(f) /\ HasTaken(g) /\ taken[f] = taken[g] => f = g
  /\ \A f \in Threads : HasTaken(f) => taken[f] # <<>> /\ taken[f] # batch
  /\ \A f \in Threads : at[f] = "processing" => taken[f] \notin processed \cup dropped
  /\ \A f \in Counting : taken[f] \in processed
  /\ batch \notin processed \cup dropped /\ <<>> \notin processed \cup dropped

\* What the statistics, or a thread that is about to write them, may claim.
Countable == processed \ {taken[f] : f \in Counting}

ClaimsBounded ==
  /\ total <= TotalLength(Countable)
  /\ \A f \in Threads : at[f] = "adding_up" => seen_total[f] <= TotalLength(Countable)

BatchInv ==
  /\ BatchTypeOK /\ BatchesRun /\ ArriveOnce /\ PlacedOnce /\ HandsApart /\ ClaimsBounded

LEMMA PositionIs ==
  ASSUME NEW S, NEW p
  PROVE  p \in Positions(S) <=> \E b \in S : \E k \in DOMAIN b : p = <<b, k>>
BY DEF Positions

\* The items of all batches are counted by the arrivals.
LEMMA AllPlaced ==
  ASSUME BatchTypeOK, BatchesRun, ArriveOnce, PlacedOnce
  PROVE  IsFiniteSet(Positions(Batches)) /\ TotalLength(Batches) = Len(arrivals)
<1> DEFINE Nth == 1..Len(arrivals)
           Where == [p \in Positions(Batches) |-> CHOOSE n \in Nth : arrivals[n] = p[1][p[2]]]
<1>1. Len(arrivals) \in Nat /\ DOMAIN arrivals = Nth /\ arrivals \in Seq(Items)
  BY DEF BatchTypeOK
<1>2. \A b \in Batches : b \in Seq(Items)
  BY DEF Batches, BatchTypeOK
<1>3. ASSUME NEW b \in Batches, NEW j \in DOMAIN b
      PROVE  \E n \in Nth : arrivals[n] = b[j]
  <2>1. j \in 1..Len(b) /\ Len(b) \in Nat
    BY <1>2, <1>3
  <2>2. PICK k \in 0..Len(arrivals) : RunsFrom(b, k)
    BY DEF BatchesRun
  <2>3. k + j \in Nth /\ arrivals[k + j] = b[j]
    BY <1>1, <2>1, <2>2 DEF RunsFrom
  <2> QED BY <2>3
<1>4. ASSUME NEW b \in Batches, NEW j \in DOMAIN b
      PROVE  /\ <<b, j>> \in Positions(Batches)
             /\ Where[<<b, j>>] \in Nth /\ arrivals[Where[<<b, j>>]] = b[j]
  <2>1. <<b, j>> \in Positions(Batches)
    BY PositionIs
  <2>2. Where[<<b, j>>] = CHOOSE n \in Nth : arrivals[n] = b[j]
    BY <2>1
  <2> QED BY <1>3, <2>1, <2>2
<1>5. ASSUME NEW p \in Positions(Batches)
      PROVE  \E b \in Batches : \E j \in DOMAIN b : p = <<b, j>>
  BY PositionIs
<1>6. DOMAIN Where = Positions(Batches)
  OBVIOUS
<1> HIDE DEF Where, Nth
<1>7. Where \in [Positions(Batches) -> Nth]
  <2>1. \A p \in Positions(Batches) : Where[p] \in Nth
    BY <1>4, <1>5
  <2> QED BY <1>6, <2>1 DEF Where
<1>8. ASSUME NEW p \in Positions(Batches), NEW q \in Positions(Batches), Where[p] = Where[q]
      PROVE  p = q
  <2>1. PICK b \in Batches : \E j \in DOMAIN b : p = <<b, j>>
    BY <1>5
  <2>2. PICK j \in DOMAIN b : p = <<b, j>>
    BY <2>1
  <2>3. PICK c \in Batches : \E k \in DOMAIN c : q = <<c, k>>
    BY <1>5
  <2>4. PICK k \in DOMAIN c : q = <<c, k>>
    BY <2>3
  <2>5. b[j] = c[k]
    BY <1>4, <1>8, <2>2, <2>4
  <2> QED BY <2>2, <2>4, <2>5 DEF PlacedOnce
<1>9. ASSUME NEW n \in Nth
      PROVE  \E p \in Positions(Batches) : Where[p] = n
  <2>1. PICK b \in Batches : \E j \in DOMAIN b : b[j] = arrivals[n]
    BY <1>1 DEF PlacedOnce
  <2>2. PICK j \in DOMAIN b : b[j] = arrivals[n]
    BY <2>1
  <2>3. Where[<<b, j>>] \in Nth /\ arrivals[Where[<<b, j>>]] = arrivals[n]
    BY <1>4, <2>2
  <2> QED BY <1>1, <1>4, <2>3 DEF ArriveOnce
<1>10. Where \in Bijection(Positions(Batches), Nth)
  BY <1>7, <1>8, <1>9 DEF Bijection, Injection, Surjection, IsInjective
<1>11. ExistsBijection(Nth, Positions(Batches))
  BY <1>10, Fun_ExistsBijSymmetric DEF ExistsBijection
<1>12. IsFiniteSet(Nth) /\ Cardinality(Nth) = Len(arrivals)
  BY <1>1, FS_Interval DEF Nth
<1> QED BY <1>11, <1>12, FS_Bijection DEF TotalLength

\* A part of what is finite has no more items.
LEMMA FewerItems ==
  ASSUME NEW S, NEW T, S \subseteq T, IsFiniteSet(Positions(T))
  PROVE  IsFiniteSet(Positions(S)) /\ TotalLength(S) \in Nat /\ TotalLength(S) <= TotalLength(T)
<1>1. Positions(S) \subseteq Positions(T)
  BY PositionIs
<1> QED BY <1>1, FS_Subset, FS_CardinalityType DEF TotalLength

\* One batch more, and its items.
LEMMA OneBatchMore ==
  ASSUME NEW S, NEW t \in Seq(Items), t \notin S, IsFiniteSet(Positions(S))
  PROVE  TotalLength(S \cup {t}) = TotalLength(S) + Len(t)
<1> DEFINE D == 1..Len(t)
           more == {t} \X D
           both == S \cup {t}
<1>1. Len(t) \in Nat /\ DOMAIN t = D
  OBVIOUS
<1>2. IsFiniteSet(D) /\ Cardinality(D) = Len(t)
  BY <1>1, FS_Interval
<1> HIDE DEF D
<1>3. IsFiniteSet({t}) /\ Cardinality({t}) = 1
  BY FS_Singleton
<1>4. IsFiniteSet(more) /\ Cardinality(more) = 1 * Len(t)
  BY <1>2, <1>3, FS_Product
<1>5. \A p : p \in more <=> \E k \in DOMAIN t : p = <<t, k>>
  BY <1>1
<1> HIDE DEF more, both
<1>6. \A p : p \in Positions(both) <=> p \in Positions(S) \cup more
  <2>1. ASSUME NEW p PROVE p \in Positions(both) <=> p \in Positions(S) \cup more
    <3>1. p \in Positions(both) <=> \E b \in both : \E k \in DOMAIN b : p = <<b, k>>
      BY PositionIs
    <3>2. p \in Positions(S) <=> \E b \in S : \E k \in DOMAIN b : p = <<b, k>>
      BY PositionIs
    <3> QED BY <1>5, <3>1, <3>2 DEF both
  <2> QED BY <2>1
<1>7. Positions(both) = Positions(S) \cup more
  BY <1>6
<1>8. Positions(S) \cap more = {}
  <2>1. ASSUME NEW p \in Positions(S), p \in more PROVE FALSE
    <3>1. PICK b \in S : \E k \in DOMAIN b : p = <<b, k>>
      BY PositionIs
    <3>2. p[1] = b /\ p[1] = t
      BY <1>5, <2>1, <3>1
    <3> QED BY <3>2
  <2> QED BY <2>1
<1>9. Cardinality(Positions(S) \cup more) = Cardinality(Positions(S)) + Cardinality(more) - Cardinality(Positions(S) \cap more)
  BY <1>4, FS_Union
<1>10. Cardinality(Positions(S)) \in Nat
  BY FS_CardinalityType
<1>11. Cardinality(more) = Len(t) /\ Cardinality(Positions(S) \cap more) = 0
  <2>1. 1 * Len(t) = Len(t)
    BY <1>1
  <2> QED BY <1>4, <1>8, <2>1, FS_EmptySet
<1>12. Cardinality(Positions(both)) = Cardinality(Positions(S)) + Len(t)
  BY <1>1, <1>7, <1>9, <1>10, <1>11
<1> QED BY <1>12 DEF TotalLength, both

LEMMA BatchInitInv == ASSUME BatchInit PROVE BatchInv
<1>1. /\ batch = <<>> /\ arrivals = <<>> /\ processed = {} /\ dropped = {} /\ total = 0
      /\ \A f \in Threads : at[f] \in {"looping", "new"} /\ taken[f] = <<>> /\ seen_total[f] = 0
  BY DEF BatchInit
<1>2. BatchTypeOK
  <2>1. /\ at = [f \in Threads |-> IF f = Timer THEN "looping" ELSE "new"]
        /\ taken = [f \in Threads |-> <<>>] /\ seen_total = [f \in Threads |-> 0]
    BY DEF BatchInit
  <2>2. <<>> \in Seq(Items)
    OBVIOUS
  <2> QED BY <1>1, <2>1, <2>2 DEF BatchTypeOK
<1>3. Batches = {} /\ Countable = {}
  BY <1>1 DEF Batches, InHand, Countable
<1>4. Len(batch) = 0 /\ Len(arrivals) = 0 /\ DOMAIN arrivals = {}
  BY <1>1
<1>5. BatchesRun
  BY <1>3, <1>4 DEF BatchesRun, RunsFrom
<1>6. ArriveOnce /\ PlacedOnce
  BY <1>3, <1>4 DEF ArriveOnce, PlacedOnce
<1>7. HandsApart
  BY <1>1 DEF HandsApart, HasTaken, Counting
<1>8. Positions({}) = {}
  BY PositionIs
<1>9. ClaimsBounded
  BY <1>1, <1>3, <1>8, FS_EmptySet DEF ClaimsBounded, TotalLength
<1> QED BY <1>2, <1>5, <1>6, <1>7, <1>9 DEF BatchInv

\* The same batches of the same arrivals.
LEMMA SameBatches ==
  ASSUME BatchInv, UNCHANGED arrivals, Batches' = Batches, batch' = batch \/ batch' = <<>>,
         \A i \in Items : at'[i] = "new" => at[i] = "new"
  PROVE  BatchesRun' /\ ArriveOnce' /\ PlacedOnce'
<1>1. arrivals \in Seq(Items) /\ Len(arrivals) \in Nat /\ DOMAIN arrivals = 1..Len(arrivals)
  BY DEF BatchInv, BatchTypeOK
<1>2. \A n \in DOMAIN arrivals : arrivals[n] \in Items
  BY <1>1, ElementOfSeq
<1>3. BatchesRun'
  <2>1. \A b, k : RunsFrom(b, k)' <=> RunsFrom(b, k)
    BY DEF RunsFrom
  <2>2. Len(batch') <= Len(arrivals) /\ RunsFrom(batch', Len(arrivals) - Len(batch'))
    <3>1. CASE batch' = batch
      BY <3>1 DEF BatchInv, BatchesRun
    <3>2. CASE batch' = <<>>
      <4>1. Len(batch') = 0
        BY <3>2
      <4> QED BY <1>1, <4>1 DEF RunsFrom
    <3> QED BY <3>1, <3>2
  <2>3. RunsFrom(batch, Len(arrivals) - Len(batch))' <=> RunsFrom(batch', Len(arrivals) - Len(batch'))
    BY DEF RunsFrom
  <2> QED BY <2>1, <2>2, <2>3 DEF BatchInv, BatchesRun
<1>4. ArriveOnce' /\ PlacedOnce'
  BY <1>2 DEF BatchInv, ArriveOnce, PlacedOnce
<1> QED BY <1>3, <1>4

\* Nothing is counted, and nothing to count.
LEMMA SameClaims ==
  ASSUME BatchInv, Countable' = Countable, UNCHANGED <<total, seen_total>>,
         \A f \in Threads : at'[f] = "adding_up" => at[f] = "adding_up"
  PROVE  ClaimsBounded'
BY DEF BatchInv, ClaimsBounded

LEMMA Finite ==
  ASSUME BatchInv
  PROVE  /\ IsFiniteSet(Positions(Batches)) /\ TotalLength(Batches) = Len(arrivals)
         /\ IsFiniteSet(Positions(processed)) /\ IsFiniteSet(Positions(Countable))
         /\ TotalLength(processed) \in Nat /\ TotalLength(Countable) \in Nat
         /\ TotalLength(Countable) <= TotalLength(processed)
<1>1. IsFiniteSet(Positions(Batches)) /\ TotalLength(Batches) = Len(arrivals)
  BY AllPlaced DEF BatchInv
<1>2. IsFiniteSet(Positions(processed)) /\ TotalLength(processed) \in Nat
  BY <1>1, FewerItems DEF Batches
<1> QED BY <1>1, <1>2, FewerItems DEF Countable

\* The item is new, and its batch is the end of the arrivals.
LEMMA AddItemStep ==
  ASSUME BatchInv, NEW i \in Items, AddItem(i)
  PROVE  BatchInv'
<1> DEFINE n == Len(arrivals)
           l == Len(batch)
           rest == Batches \ {batch}
<1>1. /\ at[i] = "new" /\ batch' = Append(batch, i) /\ arrivals' = Append(arrivals, i)
      /\ \E label \in {"flushing", "done"} : at' = [at EXCEPT ![i] = label]
      /\ UNCHANGED <<taken, processed, dropped, total, seen_total>>
  BY DEF AddItem, At
<1>2. /\ arrivals \in Seq(Items) /\ batch \in Seq(Items) /\ BatchTypeOK
      /\ n \in Nat /\ l \in Nat /\ DOMAIN arrivals = 1..n /\ DOMAIN batch = 1..l
  BY DEF BatchInv, BatchTypeOK
<1>3. /\ arrivals' \in Seq(Items) /\ batch' \in Seq(Items)
      /\ Len(arrivals') = n + 1 /\ DOMAIN arrivals' = 1..n + 1 /\ arrivals'[n + 1] = i
      /\ \A k \in 1..n : arrivals'[k] = arrivals[k]
      /\ Len(batch') = l + 1 /\ DOMAIN batch' = 1..l + 1 /\ batch'[l + 1] = i
      /\ \A k \in 1..l : batch'[k] = batch[k]
  BY <1>1, <1>2, AppendProperties
<1>4. /\ at' \in [Threads -> {"new", "flushing", "processing", "counting", "adding_up",
                              "looping", "sleeping", "raised", "exited", "done"}]
      /\ \A f \in Threads : at'[f] = IF f = i THEN at'[i] ELSE at[f]
      /\ at'[i] \in {"flushing", "done"}
  BY <1>1, <1>2 DEF BatchTypeOK, Threads
<1>5. BatchTypeOK'
  BY <1>1, <1>2, <1>3, <1>4 DEF BatchTypeOK
<1>6. /\ \A f \in Threads : (HasTaken(f)' <=> HasTaken(f)) /\ (InHand(f)' <=> InHand(f))
      /\ Counting' = Counting
  BY <1>1, <1>4 DEF HasTaken, InHand, Counting
<1>7. rest = processed \cup dropped \cup {taken[f] : f \in {g \in Threads : InHand(g)}}
  BY DEF BatchInv, HandsApart, Batches, HasTaken, InHand
<1>8. Batches' = rest \cup {batch'}
  <2>1. batch' # <<>>
    BY <1>2, <1>3, EmptySeq
  <2>2. {taken'[f] : f \in {g \in Threads : InHand(g)'}} = {taken[f] : f \in {g \in Threads : InHand(g)}}
    BY <1>1, <1>6
  <2> QED BY <1>1, <1>7, <2>1, <2>2 DEF Batches
<1>9. \A k \in 1..n : arrivals[k] # i /\ arrivals[k] \in Threads
  BY <1>1, <1>2, ElementOfSeq DEF BatchInv, ArriveOnce, Threads
<1>10. \A b \in Batches : /\ b \in Seq(Items) /\ DOMAIN b = 1..Len(b) /\ Len(b) \in Nat
  BY <1>2 DEF Batches, BatchTypeOK
<1>11. \A b \in Batches : \A j \in DOMAIN b : \E k \in 1..n : b[j] = arrivals[k]
  <2>1. ASSUME NEW b \in Batches, NEW j \in DOMAIN b PROVE \E k \in 1..n : b[j] = arrivals[k]
    <3>1. PICK k \in 0..n : RunsFrom(b, k)
      BY DEF BatchInv, BatchesRun
    <3>2. k + j \in 1..n /\ b[j] = arrivals[k + j]
      BY <1>2, <1>10, <3>1 DEF RunsFrom
    <3> QED BY <3>2
  <2> QED BY <2>1
<1>12. \A j \in 1..l : \E k \in 1..n : batch[j] = arrivals[k]
  <2>1. RunsFrom(batch, n - l) /\ l <= n
    BY DEF BatchInv, BatchesRun
  <2>2. ASSUME NEW j \in 1..l PROVE \E k \in 1..n : batch[j] = arrivals[k]
    <3>1. (n - l) + j \in 1..n /\ batch[j] = arrivals[(n - l) + j]
      BY <1>2, <2>1 DEF RunsFrom
    <3> QED BY <3>1
  <2> QED BY <2>2
<1>13. BatchesRun'
  <2>1. l <= n /\ \A j \in 1..l : batch[j] = arrivals[(n - l) + j]
    BY DEF BatchInv, BatchesRun, RunsFrom
  <2>2. ASSUME NEW j \in 1..l + 1 PROVE batch'[j] = arrivals'[(n - l) + j]
    <3>1. CASE j = l + 1
      <4>1. (n - l) + j = n + 1
        BY <1>2, <3>1
      <4> QED BY <1>3, <3>1, <4>1
    <3>2. CASE j \in 1..l
      <4>1. (n - l) + j \in 1..n
        BY <1>2, <2>1, <3>2
      <4> QED BY <1>3, <2>1, <3>2, <4>1
    <3> QED BY <1>2, <3>1, <3>2
  <2>3. Len(arrivals') - Len(batch') = n - l /\ n - l \in 0..Len(arrivals') /\ (n - l) + (l + 1) <= n + 1
    BY <1>2, <1>3, <2>1
  <2> PICK whole, start : whole = batch' /\ start = n - l
    OBVIOUS
  <2>4. RunsFrom(whole, start)' /\ RunsFrom(batch, Len(arrivals) - Len(batch))'
    <3>1. start + Len(batch') <= Len(arrivals') /\ \A j \in 1..Len(batch') : batch'[j] = arrivals'[start + j]
      BY <1>3, <2>2, <2>3
    <3>2. Len(arrivals') - Len(batch') = start
      BY <2>3
    <3> QED BY <3>1, <3>2 DEF RunsFrom
  <2>5. ASSUME NEW b \in rest PROVE \E k \in 0..Len(arrivals') : RunsFrom(b, k)'
    <3>1. PICK k \in 0..n : RunsFrom(b, k)
      BY DEF BatchInv, BatchesRun
    <3>2. \A j \in 1..Len(b) : k + j \in 1..n
      BY <1>2, <1>10, <3>1 DEF RunsFrom
    <3>3. RunsFrom(b, k)'
      BY <1>2, <1>3, <1>10, <3>1, <3>2 DEF RunsFrom
    <3> QED BY <1>2, <1>3, <3>3
  <2>6. Len(batch') <= Len(arrivals')
    BY <1>2, <1>3, <2>1
  <2>7. start \in 0..Len(arrivals') /\ \A b \in Batches' : b \in rest \/ b = whole
    BY <1>8, <2>3
  <2>8. \A b \in Batches' : \E k \in 0..Len(arrivals') : RunsFrom(b, k)'
    BY <2>4, <2>5, <2>7
  <2> QED BY <2>4, <2>6, <2>8 DEF BatchesRun
<1>14. ArriveOnce'
  <2>1. ASSUME NEW m \in 1..n + 1, NEW k \in 1..n + 1, arrivals'[m] = arrivals'[k] PROVE m = k
    <3>1. m \in 1..n \/ m = n + 1
      BY <1>2
    <3>2. k \in 1..n \/ k = n + 1
      BY <1>2
    <3>3. arrivals'[n + 1] = i /\ \A j \in 1..n : arrivals'[j] = arrivals[j] /\ arrivals[j] # i
      BY <1>3, <1>9
    <3>4. CASE m \in 1..n /\ k \in 1..n
      <4>1. arrivals[m] = arrivals[k]
        BY <2>1, <3>3, <3>4
      <4>2. m \in DOMAIN arrivals /\ k \in DOMAIN arrivals
        BY <1>2, <3>4
      <4> QED BY <4>1, <4>2 DEF BatchInv, ArriveOnce
    <3>5. CASE m = n + 1 \/ k = n + 1
      BY <2>1, <3>1, <3>2, <3>3, <3>5
    <3> QED BY <3>1, <3>2, <3>4, <3>5
  <2>2. ASSUME NEW m \in 1..n + 1 PROVE at'[arrivals'[m]] # "new"
    <3>1. CASE m \in 1..n
      BY <1>2, <1>3, <1>4, <1>9, <3>1 DEF BatchInv, ArriveOnce
    <3>2. CASE m = n + 1
      BY <1>3, <1>4, <3>2
    <3> QED BY <1>2, <3>1, <3>2
  <2> QED BY <1>3, <2>1, <2>2 DEF ArriveOnce
<1>15. PlacedOnce'
  <2>1. \A b \in rest : \A j \in DOMAIN b : b[j] # i
    BY <1>9, <1>11
  <2>2. batch # <<>> => batch \in Batches
    BY DEF Batches
  <2>3. \A b \in rest : \A j \in DOMAIN b, k \in 1..l : b[j] # batch[k]
    <3>1. l # 0 => batch \in Batches
      BY <1>2, <2>2
    <3> QED BY <1>2, <3>1 DEF BatchInv, PlacedOnce
  <2>4. \A j, k \in 1..l : batch[j] = batch[k] => j = k
    BY <1>2, <2>2 DEF BatchInv, PlacedOnce
  <2>5. \A j \in 1..l : batch[j] # i
    BY <1>9, <1>12
  <2>6. ASSUME NEW b \in rest, NEW j \in DOMAIN b, NEW k \in 1..l + 1 PROVE b[j] # batch'[k]
    <3>1. CASE k \in 1..l
      BY <1>3, <2>3, <3>1
    <3>2. CASE k = l + 1
      BY <1>3, <2>1, <3>2
    <3> QED BY <1>2, <3>1, <3>2
  <2>7. ASSUME NEW j \in 1..l + 1, NEW k \in 1..l + 1, batch'[j] = batch'[k] PROVE j = k
    <3>1. j \in 1..l \/ j = l + 1
      BY <1>2
    <3>2. k \in 1..l \/ k = l + 1
      BY <1>2
    <3> QED BY <1>3, <2>4, <2>5, <2>7, <3>1, <3>2
  <2>8. ASSUME NEW b \in Batches', NEW c \in Batches', NEW j \in DOMAIN b, NEW k \in DOMAIN c, b[j] = c[k]
        PROVE  b = c /\ j = k
    <3>1. CASE b \in rest /\ c \in rest
      BY <2>8, <3>1 DEF BatchInv, PlacedOnce
    <3>2. CASE b = batch' /\ c \in rest
      BY <1>3, <2>6, <2>8, <3>2
    <3>3. CASE b \in rest /\ c = batch'
      BY <1>3, <2>6, <2>8, <3>3
    <3>4. CASE b = batch' /\ c = batch'
      BY <1>3, <2>7, <2>8, <3>4
    <3> QED BY <1>8, <3>1, <3>2, <3>3, <3>4
  <2>9. ASSUME NEW m \in 1..n + 1
        PROVE  \E b \in Batches' : \E j \in DOMAIN b : b[j] = arrivals'[m]
    <3>1. CASE m = n + 1
      <4>1. l + 1 \in DOMAIN batch' /\ batch'[l + 1] = arrivals'[m]
        BY <1>2, <1>3, <3>1
      <4> QED BY <1>8, <4>1
    <3>2. CASE m \in 1..n
      <4>1. PICK b \in Batches : \E j \in DOMAIN b : b[j] = arrivals[m]
        BY <1>2, <3>2 DEF BatchInv, PlacedOnce
      <4>2. PICK j \in DOMAIN b : b[j] = arrivals[m]
        BY <4>1
      <4>3. CASE b = batch
        <5>1. j \in 1..l /\ j \in 1..l + 1
          BY <1>2, <4>3
        <5>2. j \in DOMAIN batch' /\ batch'[j] = arrivals'[m]
          BY <1>3, <3>2, <4>2, <4>3, <5>1
        <5> QED BY <1>8, <5>2
      <4>4. CASE b # batch
        BY <1>3, <1>8, <3>2, <4>2, <4>4
      <4> QED BY <4>3, <4>4
    <3> QED BY <1>2, <3>1, <3>2
  <2> QED BY <1>3, <2>8, <2>9 DEF PlacedOnce
<1>16. HandsApart'
  <2>1. batch' \notin rest /\ batch' # <<>>
    <3>1. l + 1 \in DOMAIN batch' /\ batch'[l + 1] = i
      BY <1>2, <1>3
    <3>2. batch' # <<>>
      BY <1>2, <1>3, EmptySeq
    <3> QED BY <1>9, <1>11, <3>1, <3>2
  <2>2. \A f \in Threads : HasTaken(f) => taken[f] \in rest
    BY <1>7 DEF BatchInv, HandsApart, HasTaken, Counting, InHand
  <2>3. \A f \in Threads : at'[f] = "processing" => at[f] = "processing"
    BY <1>4
  <2> QED BY <1>1, <1>6, <1>7, <2>1, <2>2, <2>3 DEF BatchInv, HandsApart
<1>17. ClaimsBounded'
  <2>1. Countable' = Countable
    BY <1>1, <1>6 DEF Countable
  <2> QED BY <1>1, <1>4, <2>1, SameClaims
<1> QED BY <1>5, <1>13, <1>14, <1>15, <1>16, <1>17 DEF BatchInv

\* The batch is taken whole, and the next item begins a new one.
LEMMA TakeBatchStep ==
  ASSUME BatchInv, NEW f \in Threads, TakeBatch(f)
  PROVE  BatchInv'
<1>1. /\ at[f] = "flushing" /\ UNCHANGED <<arrivals, processed, dropped, total, seen_total>>
      /\ at \in [Threads -> {"new", "flushing", "processing", "counting", "adding_up",
                             "looping", "sleeping", "raised", "exited", "done"}]
      /\ taken \in [Threads -> Seq(Items)] /\ batch \in Seq(Items)
  BY DEF TakeBatch, BatchInv, BatchTypeOK
<1>2. CASE batch = <<>>
  <2>1. /\ UNCHANGED <<batch, taken>> /\ \E label \in {"looping", "done"} : at' = [at EXCEPT ![f] = label]
    BY <1>2 DEF TakeBatch, FlushEnds, At
  <2>2. \A g \in Threads : /\ HasTaken(g)' <=> HasTaken(g)
                           /\ InHand(g)' <=> InHand(g)
                           /\ g \in Counting' <=> g \in Counting
                           /\ at'[g] = "new" => at[g] = "new"
                           /\ at'[g] = "processing" => at[g] = "processing"
                           /\ at'[g] = "adding_up" => at[g] = "adding_up"
    BY <1>1, <2>1 DEF HasTaken, InHand, Counting
  <2>3. Batches' = Batches /\ Countable' = Countable
    <3>1. Counting' = Counting /\ {g \in Threads : InHand(g)'} = {g \in Threads : InHand(g)}
      BY <2>2 DEF Counting
    <3> QED BY <1>1, <2>1, <3>1 DEF Batches, Countable
  <2>4. BatchTypeOK'
    BY <1>1, <2>1 DEF BatchInv, BatchTypeOK
  <2>5. HandsApart'
    <3>1. Counting' = Counting
      BY <2>2 DEF Counting
    <3>2. \A g, h \in Threads : HasTaken(g)' /\ HasTaken(h)' /\ taken'[g] = taken'[h] => g = h
      BY <2>1, <2>2 DEF BatchInv, HandsApart
    <3>3. \A g \in Threads : HasTaken(g)' => taken'[g] # <<>> /\ taken'[g] # batch'
      BY <2>1, <2>2 DEF BatchInv, HandsApart
    <3>4. \A g \in Threads : at'[g] = "processing" => taken'[g] \notin processed' \cup dropped'
      BY <1>1, <2>1, <2>2 DEF BatchInv, HandsApart
    <3>5. \A g \in Counting' : taken'[g] \in processed'
      BY <1>1, <2>1, <3>1 DEF BatchInv, HandsApart
    <3>6. batch' \notin processed' \cup dropped' /\ <<>> \notin processed' \cup dropped'
      BY <1>1, <2>1 DEF BatchInv, HandsApart
    <3> QED BY <3>2, <3>3, <3>4, <3>5, <3>6 DEF HandsApart
  <2>6. BatchesRun' /\ ArriveOnce' /\ PlacedOnce'
    BY <1>1, <2>1, <2>2, <2>3, SameBatches DEF Threads
  <2>7. ClaimsBounded'
    BY <1>1, <2>2, <2>3, SameClaims
  <2> QED BY <2>4, <2>5, <2>6, <2>7 DEF BatchInv
<1>3. CASE batch # <<>>
  <2>1. /\ batch' = <<>> /\ taken' = [taken EXCEPT ![f] = batch] /\ at' = [at EXCEPT ![f] = "processing"]
    BY <1>3 DEF TakeBatch, At
  <2>2. \A g \in Threads : /\ HasTaken(g)' <=> HasTaken(g) \/ g = f
                           /\ InHand(g)' <=> InHand(g) \/ g = f
                           /\ g \in Counting' <=> g \in Counting
                           /\ at'[g] = "new" => at[g] = "new"
                           /\ at'[g] = "processing" => at[g] = "processing" \/ g = f
                           /\ at'[g] = "adding_up" => at[g] = "adding_up"
                           /\ taken'[g] = IF g = f THEN batch ELSE taken[g]
    BY <1>1, <2>1 DEF HasTaken, InHand, Counting
  <2>3. ~HasTaken(f) /\ ~InHand(f) /\ f \notin Counting
    BY <1>1 DEF HasTaken, InHand, Counting
  <2>4. Countable' = Countable
    <3>1. Counting' = Counting /\ \A g \in Counting : taken'[g] = taken[g] /\ g \in Threads
      BY <2>2, <2>3 DEF Counting
    <3> QED BY <1>1, <3>1 DEF Countable
  <2>5. Batches' = Batches
    <3>1. {taken'[g] : g \in {h \in Threads : InHand(h)'}} = {taken[g] : g \in {h \in Threads : InHand(h)}} \cup {batch}
      BY <2>2, <2>3
    <3> QED BY <1>1, <1>3, <2>1, <3>1 DEF Batches
  <2>6. BatchTypeOK'
    BY <1>1, <2>1 DEF BatchInv, BatchTypeOK
  <2>7. HandsApart'
    <3>1. \A g \in Counting' : taken'[g] \in processed'
      BY <1>1, <2>2, <2>3 DEF BatchInv, HandsApart, Counting
    <3>2. \A g \in Threads : HasTaken(g)' => taken'[g] # <<>> /\ taken'[g] # batch'
      BY <1>3, <2>1, <2>2 DEF BatchInv, HandsApart
    <3>3. \A g \in Threads : at'[g] = "processing" => taken'[g] \notin processed' \cup dropped'
      BY <1>1, <2>1, <2>2 DEF BatchInv, HandsApart
    <3>4. \A g, h \in Threads : HasTaken(g)' /\ HasTaken(h)' /\ taken'[g] = taken'[h] => g = h
      BY <2>2 DEF BatchInv, HandsApart
    <3>5. batch' \notin processed' \cup dropped' /\ <<>> \notin processed' \cup dropped'
      BY <1>1, <2>1 DEF BatchInv, HandsApart
    <3> QED BY <3>1, <3>2, <3>3, <3>4, <3>5 DEF HandsApart
  <2>8. BatchesRun' /\ ArriveOnce' /\ PlacedOnce'
    BY <1>1, <2>1, <2>2, <2>5, SameBatches DEF Threads
  <2>9. ClaimsBounded'
    BY <1>1, <2>2, <2>4, SameClaims
  <2> QED BY <2>6, <2>7, <2>8, <2>9 DEF BatchInv
<1> QED BY <1>2, <1>3

\* From the thread's hands to those processed: it cannot be claimed yet.
LEMMA ProcessBatchStep ==
  ASSUME BatchInv, NEW f \in Threads, ProcessBatch(f)
  PROVE  BatchInv'
<1>1. /\ at[f] = "processing" /\ processed' = processed \cup {taken[f]}
      /\ at' = [at EXCEPT ![f] = "counting"]
      /\ UNCHANGED <<batch, arrivals, taken, dropped, total, seen_total>>
      /\ at \in [Threads -> {"new", "flushing", "processing", "counting", "adding_up",
                             "looping", "sleeping", "raised", "exited", "done"}]
      /\ taken \in [Threads -> Seq(Items)] /\ batch \in Seq(Items)
  BY DEF ProcessBatch, At, BatchInv, BatchTypeOK
<1>2. \A g \in Threads : /\ HasTaken(g)' <=> HasTaken(g)
                         /\ InHand(g) <=> InHand(g)' \/ g = f
                         /\ g \in Counting' <=> g \in Counting \/ g = f
                         /\ at'[g] = "new" => at[g] = "new"
                         /\ at'[g] = "processing" => at[g] = "processing" /\ g # f
                         /\ at'[g] = "adding_up" => at[g] = "adding_up"
  BY <1>1 DEF HasTaken, InHand, Counting
<1>3. HasTaken(f) /\ InHand(f) /\ ~InHand(f)' /\ taken[f] \notin processed \cup dropped
  BY <1>1 DEF HasTaken, InHand, BatchInv, HandsApart
<1>4. Countable' = Countable
  <2>1. Counting' = Counting \cup {f}
    BY <1>2 DEF Counting
  <2>2. {taken'[g] : g \in Counting'} = {taken[g] : g \in Counting} \cup {taken[f]}
    BY <1>1, <2>1
  <2> QED BY <1>1, <1>3, <2>2 DEF Countable
<1>5. Batches' = Batches
  <2>1. {taken[g] : g \in {h \in Threads : InHand(h)}} = {taken'[g] : g \in {h \in Threads : InHand(h)'}} \cup {taken[f]}
    BY <1>1, <1>2, <1>3
  <2> QED BY <1>1, <2>1 DEF Batches
<1>6. BatchTypeOK'
  BY <1>1 DEF BatchInv, BatchTypeOK
<1>7. HandsApart'
  <2>1. \A g \in Threads : HasTaken(g)' => taken'[g] # <<>> /\ taken'[g] # batch'
    BY <1>1, <1>2 DEF BatchInv, HandsApart
  <2>2. \A g \in Threads : at'[g] = "processing" => taken'[g] \notin processed' \cup dropped'
    <3>1. ASSUME NEW g \in Threads, at'[g] = "processing" PROVE taken'[g] \notin processed' \cup dropped'
      <4>1. at[g] = "processing" /\ g # f /\ HasTaken(g)
        BY <1>2, <3>1 DEF HasTaken
      <4> QED BY <1>1, <1>3, <4>1 DEF BatchInv, HandsApart
    <3> QED BY <3>1
  <2>3. \A g \in Counting' : taken'[g] \in processed'
    BY <1>1, <1>2 DEF BatchInv, HandsApart, Counting
  <2>4. batch' \notin processed' \cup dropped' /\ <<>> \notin processed' \cup dropped'
    BY <1>1, <1>3 DEF BatchInv, HandsApart
  <2>5. \A g, h \in Threads : HasTaken(g)' /\ HasTaken(h)' /\ taken'[g] = taken'[h] => g = h
    BY <1>1, <1>2 DEF BatchInv, HandsApart
  <2> QED BY <2>1, <2>2, <2>3, <2>4, <2>5 DEF HandsApart
<1>8. BatchesRun' /\ ArriveOnce' /\ PlacedOnce'
  BY <1>1, <1>2, <1>5, SameBatches DEF Threads
<1>9. ClaimsBounded'
  BY <1>1, <1>2, <1>4, SameClaims
<1> QED BY <1>6, <1>7, <1>8, <1>9 DEF BatchInv

\* From the thread's hands to those raised on.
LEMMA ProcessorRaisesStep ==
  ASSUME BatchInv, NEW f \in Threads, ProcessorRaises(f)
  PROVE  BatchInv'
<1>1. /\ at[f] = "processing" /\ dropped' = dropped \cup {taken[f]}
      /\ taken' = [taken EXCEPT ![f] = <<>>] /\ at' = [at EXCEPT ![f] = "raised"]
      /\ UNCHANGED <<batch, arrivals, processed, total, seen_total>>
      /\ at \in [Threads -> {"new", "flushing", "processing", "counting", "adding_up",
                             "looping", "sleeping", "raised", "exited", "done"}]
      /\ taken \in [Threads -> Seq(Items)] /\ batch \in Seq(Items) /\ <<>> \in Seq(Items)
  BY DEF ProcessorRaises, At, BatchInv, BatchTypeOK
<1>2. \A g \in Threads : /\ HasTaken(g)' <=> HasTaken(g) /\ g # f
                         /\ InHand(g) <=> InHand(g)' \/ g = f
                         /\ g \in Counting' <=> g \in Counting
                         /\ at'[g] = "new" => at[g] = "new"
                         /\ at'[g] = "processing" => at[g] = "processing" /\ g # f
                         /\ at'[g] = "adding_up" => at[g] = "adding_up"
                         /\ g # f => taken'[g] = taken[g]
  BY <1>1 DEF HasTaken, InHand, Counting
<1>3. HasTaken(f) /\ InHand(f) /\ ~InHand(f)' /\ f \notin Counting
  BY <1>1 DEF HasTaken, InHand, Counting
<1>4. Counting' = Counting
  BY <1>2 DEF Counting
<1>5. Countable' = Countable
  <2>1. \A g \in Counting : taken'[g] = taken[g]
    BY <1>2, <1>3 DEF Counting
  <2> QED BY <1>1, <1>4, <2>1 DEF Countable
<1>6. Batches' = Batches
  <2>1. {taken[g] : g \in {h \in Threads : InHand(h)}} = {taken'[g] : g \in {h \in Threads : InHand(h)'}} \cup {taken[f]}
    BY <1>2, <1>3
  <2> QED BY <1>1, <2>1 DEF Batches
<1>7. BatchTypeOK'
  BY <1>1 DEF BatchInv, BatchTypeOK
<1>8. HandsApart'
  <2>1. \A g, h \in Threads : HasTaken(g)' /\ HasTaken(h)' /\ taken'[g] = taken'[h] => g = h
    BY <1>2 DEF BatchInv, HandsApart
  <2>2. \A g \in Threads : HasTaken(g)' => taken'[g] # <<>> /\ taken'[g] # batch'
    BY <1>1, <1>2 DEF BatchInv, HandsApart
  <2>3. \A g \in Threads : at'[g] = "processing" => taken'[g] \notin processed' \cup dropped'
    <3>1. ASSUME NEW g \in Threads, at'[g] = "processing" PROVE taken'[g] \notin processed' \cup dropped'
      <4>1. at[g] = "processing" /\ g # f /\ HasTaken(g) /\ taken'[g] = taken[g]
        BY <1>2, <3>1 DEF HasTaken
      <4>2. taken[g] \notin processed \cup dropped /\ taken[g] # taken[f]
        BY <1>3, <4>1 DEF BatchInv, HandsApart
      <4> QED BY <1>1, <4>1, <4>2
    <3> QED BY <3>1
  <2>4. \A g \in Counting' : taken'[g] \in processed'
    BY <1>1, <1>2, <1>3, <1>4 DEF BatchInv, HandsApart, Counting
  <2>5. batch' \notin processed' \cup dropped' /\ <<>> \notin processed' \cup dropped'
    BY <1>1, <1>3 DEF BatchInv, HandsApart
  <2> QED BY <2>1, <2>2, <2>3, <2>4, <2>5 DEF HandsApart
<1>9. BatchesRun' /\ ArriveOnce' /\ PlacedOnce'
  BY <1>1, <1>2, <1>6, SameBatches DEF Threads
<1>10. ClaimsBounded'
  BY <1>1, <1>2, <1>5, SameClaims
<1> QED BY <1>7, <1>8, <1>9, <1>10 DEF BatchInv

\* What stays of HandsApart when batches and hands do.
LEMMA SameHands ==
  ASSUME BatchInv, UNCHANGED <<batch, processed, dropped>>,
         \A g \in Threads : /\ HasTaken(g)' => HasTaken(g) /\ taken'[g] = taken[g]
                            /\ at'[g] = "processing" => at[g] = "processing"
                            /\ g \in Counting' => g \in Counting
  PROVE  HandsApart'
<1>1. \A g \in Threads : g \in Counting' => HasTaken(g)'
  BY DEF Counting, HasTaken
<1>2. \A g \in Threads : at'[g] = "processing" => HasTaken(g)'
  BY DEF HasTaken
<1>3. \A g, h \in Threads : HasTaken(g)' /\ HasTaken(h)' /\ taken'[g] = taken'[h] => g = h
  BY DEF BatchInv, HandsApart
<1>4. \A g \in Threads : HasTaken(g)' => taken'[g] # <<>> /\ taken'[g] # batch'
  BY DEF BatchInv, HandsApart
<1>5. \A g \in Threads : at'[g] = "processing" => taken'[g] \notin processed' \cup dropped'
  BY <1>2 DEF BatchInv, HandsApart
<1>6. \A g \in Counting' : taken'[g] \in processed'
  <2>1. ASSUME NEW g \in Counting' PROVE taken'[g] \in processed'
    <3>1. g \in Threads
      BY <2>1 DEF Counting
    <3> QED BY <1>1, <2>1, <3>1 DEF BatchInv, HandsApart
  <2> QED BY <2>1
<1>7. batch' \notin processed' \cup dropped' /\ <<>> \notin processed' \cup dropped'
  BY DEF BatchInv, HandsApart
<1> QED BY <1>3, <1>4, <1>5, <1>6, <1>7 DEF HandsApart

\* A claim is read while the thread's own batch is not in it, and written with it.
LEMMA CountStep ==
  ASSUME BatchInv, NEW f \in Threads, ReadTotal(f) \/ WriteTotal(f)
  PROVE  BatchInv'
<1>1. /\ at[f] \in {"counting", "adding_up"} /\ UNCHANGED <<batch, arrivals, processed, dropped>>
      /\ at \in [Threads -> {"new", "flushing", "processing", "counting", "adding_up",
                             "looping", "sleeping", "raised", "exited", "done"}]
      /\ taken \in [Threads -> Seq(Items)] /\ <<>> \in Seq(Items)
      /\ total \in Nat /\ seen_total \in [Threads -> Nat]
  BY DEF ReadTotal, WriteTotal, BatchInv, BatchTypeOK
<1>2. f \in Counting /\ HasTaken(f) /\ ~InHand(f)
  BY <1>1 DEF Counting, HasTaken, InHand
<1>3. CASE ReadTotal(f)
  <2>1. /\ seen_total' = [seen_total EXCEPT ![f] = total] /\ at' = [at EXCEPT ![f] = "adding_up"]
        /\ UNCHANGED <<taken, total>>
    BY <1>3 DEF ReadTotal, At
  <2>2. \A g \in Threads : /\ HasTaken(g)' <=> HasTaken(g)
                           /\ InHand(g)' <=> InHand(g)
                           /\ g \in Counting' <=> g \in Counting
                           /\ at'[g] = "new" => at[g] = "new"
                           /\ at'[g] = "processing" => at[g] = "processing"
                           /\ at'[g] = "adding_up" /\ g # f => at[g] = "adding_up" /\ seen_total'[g] = seen_total[g]
    BY <1>1, <2>1 DEF HasTaken, InHand, Counting
  <2>3. Counting' = Counting /\ {g \in Threads : InHand(g)'} = {g \in Threads : InHand(g)}
    BY <2>2 DEF Counting
  <2>4. Batches' = Batches /\ Countable' = Countable
    BY <1>1, <2>1, <2>3 DEF Batches, Countable
  <2>5. BatchTypeOK'
    BY <1>1, <2>1 DEF BatchInv, BatchTypeOK
  <2>6. HandsApart'
    BY <1>1, <2>1, <2>2, SameHands
  <2>7. BatchesRun' /\ ArriveOnce' /\ PlacedOnce'
    BY <1>1, <2>2, <2>4, SameBatches DEF Threads
  <2>8. ClaimsBounded'
    <3>1. ASSUME NEW g \in Threads, at'[g] = "adding_up" PROVE seen_total'[g] <= TotalLength(Countable)
      <4>1. CASE g = f
        BY <1>1, <2>1, <4>1 DEF BatchInv, ClaimsBounded
      <4>2. CASE g # f
        BY <2>2, <3>1, <4>2 DEF BatchInv, ClaimsBounded
      <4> QED BY <4>1, <4>2
    <3> QED BY <2>1, <2>4, <3>1 DEF BatchInv, ClaimsBounded
  <2> QED BY <2>5, <2>6, <2>7, <2>8 DEF BatchInv
<1>4. CASE WriteTotal(f)
  <2>1. /\ at[f] = "adding_up" /\ total' = seen_total[f] + Len(taken[f])
        /\ taken' = [taken EXCEPT ![f] = <<>>]
        /\ \E label \in {"looping", "done"} : at' = [at EXCEPT ![f] = label]
        /\ UNCHANGED seen_total
    BY <1>4 DEF WriteTotal, FlushEnds, At
  <2>2. \A g \in Threads : /\ HasTaken(g)' <=> HasTaken(g) /\ g # f
                           /\ InHand(g)' <=> InHand(g)
                           /\ g \in Counting' <=> g \in Counting /\ g # f
                           /\ at'[g] = "new" => at[g] = "new"
                           /\ at'[g] = "processing" => at[g] = "processing"
                           /\ at'[g] = "adding_up" => at[g] = "adding_up"
                           /\ g # f => taken'[g] = taken[g]
    BY <1>1, <2>1 DEF HasTaken, InHand, Counting
  <2>3. {g \in Threads : InHand(g)'} = {g \in Threads : InHand(g)} /\ Counting' = Counting \ {f}
    BY <2>2 DEF Counting
  <2>4. Batches' = Batches
    <3>1. \A g \in {h \in Threads : InHand(h)} : taken'[g] = taken[g]
      BY <1>2, <2>2
    <3> QED BY <1>1, <2>3, <3>1 DEF Batches
  <2>5. taken[f] \in Seq(Items) /\ Len(taken[f]) \in Nat /\ taken[f] \in processed
    BY <1>1, <1>2 DEF BatchInv, HandsApart
  <2>6. Countable' = Countable \cup {taken[f]} /\ taken[f] \notin Countable
    <3>1. \A g \in Counting : g # f => taken[g] # taken[f] /\ taken'[g] = taken[g]
      BY <1>2, <2>2 DEF BatchInv, HandsApart, Counting, HasTaken
    <3>2. {taken'[g] : g \in Counting \ {f}} = {taken[g] : g \in Counting} \ {taken[f]}
      BY <1>2, <3>1
    <3> QED BY <1>1, <1>2, <2>3, <2>5, <3>2 DEF Countable
  <2>7. /\ TotalLength(Countable \cup {taken[f]}) = TotalLength(Countable) + Len(taken[f])
        /\ TotalLength(Countable) \in Nat
    BY <2>5, <2>6, Finite, OneBatchMore
  <2>8. total' \in Nat /\ total' <= TotalLength(Countable \cup {taken[f]})
    <3>1. seen_total[f] \in Nat /\ seen_total[f] <= TotalLength(Countable)
      BY <1>1, <2>1 DEF BatchInv, ClaimsBounded
    <3> QED BY <2>1, <2>5, <2>7, <3>1
  <2>9. BatchTypeOK'
    BY <1>1, <2>1, <2>8 DEF BatchInv, BatchTypeOK
  <2>10. HandsApart'
    BY <1>1, <2>2, SameHands
  <2>11. BatchesRun' /\ ArriveOnce' /\ PlacedOnce'
    BY <1>1, <2>2, <2>4, SameBatches DEF Threads
  <2>12. ClaimsBounded'
    <3>1. ASSUME NEW g \in Threads, at'[g] = "adding_up"
          PROVE  seen_total'[g] <= TotalLength(Countable \cup {taken[f]})
      <4>1. seen_total[g] \in Nat /\ seen_total[g] <= TotalLength(Countable) /\ seen_total'[g] = seen_total[g]
        BY <1>1, <2>1, <2>2, <3>1 DEF BatchInv, ClaimsBounded
      <4> QED BY <2>5, <2>7, <4>1
    <3> QED BY <2>6, <2>8, <3>1 DEF ClaimsBounded
  <2> QED BY <2>9, <2>10, <2>11, <2>12 DEF BatchInv
<1> QED BY <1>3, <1>4

\* A thread goes from one place to another without a batch.
LEMMA MoveStep ==
  ASSUME BatchInv, UNCHANGED <<batch, arrivals, taken, processed, dropped, total, seen_total>>,
         at' = at \/ \E f \in Threads, label \in {"looping", "sleeping", "exited", "flushing"} :
                       at[f] \in {"new", "looping", "sleeping"} /\ at' = [at EXCEPT ![f] = label]
  PROVE  BatchInv'
<1>1. at \in [Threads -> {"new", "flushing", "processing", "counting", "adding_up",
                          "looping", "sleeping", "raised", "exited", "done"}]
  BY DEF BatchInv, BatchTypeOK
<1>2. \A g \in Threads : /\ HasTaken(g)' <=> HasTaken(g)
                         /\ InHand(g)' <=> InHand(g)
                         /\ g \in Counting' <=> g \in Counting
                         /\ at'[g] = "new" => at[g] = "new"
                         /\ at'[g] = "processing" => at[g] = "processing"
                         /\ at'[g] = "adding_up" => at[g] = "adding_up"
  BY <1>1 DEF HasTaken, InHand, Counting
<1>3. {g \in Threads : InHand(g)'} = {g \in Threads : InHand(g)} /\ Counting' = Counting
  BY <1>2 DEF Counting
<1>4. Batches' = Batches /\ Countable' = Countable
  BY <1>3 DEF Batches, Countable
<1>5. BatchTypeOK'
  BY <1>1 DEF BatchInv, BatchTypeOK
<1>6. HandsApart' /\ ClaimsBounded'
  BY <1>2, <1>4, SameHands, SameClaims
<1>7. BatchesRun' /\ ArriveOnce' /\ PlacedOnce'
  BY <1>2, <1>4, SameBatches DEF Threads
<1> QED BY <1>5, <1>6, <1>7 DEF BatchInv

LEMMA BatchStep ==
  ASSUME BatchInv, [BatchNext]_batchVars
  PROVE  BatchInv'
<1>1. ASSUME NEW i \in Items, AddItem(i) PROVE BatchInv'
  BY <1>1, AddItemStep
<1>2. ASSUME NEW f \in Threads, Flush(f) PROVE BatchInv'
  BY <1>2, TakeBatchStep, ProcessBatchStep, ProcessorRaisesStep, CountStep DEF Flush
<1>3. Timer \in Threads /\ Stopper \in Threads
  BY DEF Threads
<1>4. CASE TimerSleeps
  <2>1. \E label \in {"looping", "sleeping", "exited", "flushing"} : at' = [at EXCEPT ![Timer] = label]
    BY <1>4 DEF TimerSleeps, At
  <2> QED BY <1>3, <1>4, <2>1, MoveStep DEF TimerSleeps
<1>5. CASE TimerChecks
  <2>1. \E label \in {"looping", "sleeping", "exited", "flushing"} : at' = [at EXCEPT ![Timer] = label]
    BY <1>5 DEF TimerChecks, At
  <2> QED BY <1>3, <1>5, <2>1, MoveStep DEF TimerChecks
<1>6. CASE MaxWaitPasses
  BY <1>6, MoveStep DEF MaxWaitPasses
<1>7. CASE StopProcessor
  BY <1>3, <1>7, MoveStep DEF StopProcessor, At
<1>8. CASE UNCHANGED batchVars
  BY <1>8, MoveStep DEF batchVars
<1> QED BY <1>1, <1>2, <1>4, <1>5, <1>6, <1>7, <1>8 DEF BatchNext, TimerLoop

LEMMA BatchInvHolds == ASSUME BatchInv PROVE ItemsOnceInOrder
<1>1. arrivals \in Seq(Items) /\ Len(arrivals) \in Nat
  BY DEF BatchInv, BatchTypeOK
<1>2. \A b \in Batches : b \in Seq(Items)
  BY DEF BatchInv, BatchTypeOK, Batches
<1>3. ASSUME NEW b \in Batches
      PROVE  \E k \in 0..Len(arrivals) :
               /\ k + Len(b) <= Len(arrivals)
               /\ b = SubSeq(arrivals, k + 1, k + Len(b))
  <2>1. PICK k \in 0..Len(arrivals) : RunsFrom(b, k)
    BY DEF BatchInv, BatchesRun
  <2>2. b \in Seq(Items) /\ Len(b) \in Nat /\ k \in Nat
    BY <1>1, <1>2
  <2> DEFINE part == SubSeq(arrivals, k + 1, k + Len(b))
  <2>3. \A i \in k + 1..k + Len(b) : i \in 1..Len(arrivals)
    BY <1>1, <2>1, <2>2 DEF RunsFrom
  <2>4. part \in Seq(Items) /\ Len(part) = Len(b) /\ \A j \in 1..Len(b) : part[j] = arrivals[k + j]
    BY <1>1, <2>1, <2>2, <2>3 DEF RunsFrom
  <2> HIDE DEF part
  <2>5. b = part
    BY <2>1, <2>2, <2>4, SeqEqual DEF RunsFrom
  <2> QED BY <2>1, <2>5 DEF RunsFrom, part
<1>4. total <= TotalLength(processed)
  BY Finite DEF BatchInv, BatchTypeOK, ClaimsBounded
<1> QED BY <1>3, <1>4, Finite DEF ItemsOnceInOrder

\* However add, the timer and stop race, and whatever the processor raises on: every
\* item added is in one batch, a batch is a run of consecutive arrivals, and the
\* statistics claim no more than was processed. For any number of threads and any
\* max_size.
THEOREM ItemsStayInOrder == Spec => []ItemsOnceInOrder
<1>1. Init => BatchInv
  BY BatchInitInv DEF Init
<1>2. BatchInv /\ [Next]_mcVars => BatchInv'
  BY OneSystemSteps, BatchStep
<1>3. BatchInv => ItemsOnceInOrder
  BY BatchInvHolds
<1> QED BY <1>1, <1>2, <1>3, PTL DEF Spec

-----------------------------------------------------------------------------
(* The methods on users: what an idempotent method has made of the users it    *)
(* makes of them again.                                                        *)

UserTable == [Ids -> User \cup {NoUser}]

HttpInv ==
  /\ users \in UserTable /\ next_id \in Nat \ {0}
  /\ request \in Requests \cup {NoRequest}
  /\ code \in Seq(Nat)
  /\ Len(code) = 1 /\ request.method \in Idempotent => After(users, request) = users

\* The users a request finds, each with the fields of a user.
LEMMA RequestIs ==
  ASSUME NEW r \in Requests
  PROVE  /\ r.method \in {"GET", "DELETE", "PUT", "PATCH", "POST"}
         /\ r.method # "POST" => r.id \in Ids
         /\ r.body.name \in Names \cup {Absent} /\ r.body.role \in Roles \cup {Absent}
BY DEF Requests, Body, NoRequest

LEMMA AfterKeepsUsers ==
  ASSUME NEW u \in UserTable, NEW r \in Requests, next_id \in Ids \/ r.method # "POST"
  PROVE  After(u, r) \in UserTable
<1>1. /\ r.method \in {"GET", "DELETE", "PUT", "PATCH", "POST"}
      /\ r.method # "POST" => r.id \in Ids
      /\ r.body.name \in Names \cup {Absent} /\ r.body.role \in Roles \cup {Absent}
  BY RequestIs
<1>2. CASE ~Valid(r)
  BY <1>2 DEF After
<1>3. CASE Valid(r) /\ r.method = "PUT"
  BY <1>1, <1>3 DEF After, Valid, Replace, Given, UserTable, User, Roles
<1>4. CASE Valid(r) /\ r.method = "POST"
  BY <1>1, <1>4 DEF After, Valid, Create, UserTable, User, Roles
<1>5. CASE r.method = "PATCH" /\ u[r.id] = NoUser
  BY <1>1, <1>5 DEF After, Valid
<1>6. CASE r.method = "DELETE"
  BY <1>1, <1>6 DEF After, Valid, UserTable
<1>7. CASE r.method = "PATCH" /\ u[r.id] # NoUser
  BY <1>1, <1>7 DEF After, Valid, Patch, Given, UserTable, User, Roles
<1>8. CASE r.method = "GET"
  BY <1>1, <1>8 DEF After, Valid
<1> QED BY <1>1, <1>2, <1>3, <1>4, <1>5, <1>6, <1>7, <1>8

LEMMA AfterTwice ==
  ASSUME NEW u \in UserTable, NEW r \in Requests, r.method \in Idempotent
  PROVE  After(After(u, r), r) = After(u, r)
<1>1. r.id \in Ids /\ r.method \in {"GET", "DELETE", "PUT", "PATCH"}
  BY RequestIs DEF Idempotent
<1>2. CASE ~Valid(r)
  BY <1>2 DEF After
<1>3. CASE Valid(r) /\ r.method = "PUT"
  BY <1>1, <1>3 DEF After, Replace, UserTable
<1>5. CASE r.method = "PATCH" /\ u[r.id] = NoUser
  BY <1>1, <1>5 DEF After, Valid
<1>6. CASE r.method = "DELETE"
  BY <1>1, <1>6 DEF After, Valid, UserTable
<1>7. CASE r.method = "PATCH" /\ u[r.id] # NoUser
  <2> DEFINE v == Patch(u, r)
  <2>1. After(u, r) = v
    BY <1>1, <1>7 DEF After, Valid
  <2>2. Patch(v, r) = v
    BY <1>1, <1>7 DEF Patch, Given, UserTable, User
  <2> HIDE DEF v
  <2>3. After(v, r) = v
    BY <1>1, <1>7, <2>2 DEF After, Valid
  <2> QED BY <2>1, <2>3
<1>8. CASE r.method = "GET"
  BY <1>1, <1>8 DEF After, Valid
<1> QED BY <1>1, <1>2, <1>3, <1>5, <1>6, <1>7, <1>8

LEMMA HttpInitInv == ASSUME HttpInit PROVE HttpInv
<1>1. PICK n \in Names :
             users = [i \in Ids |-> IF i = 1 THEN [name |-> n, role |-> "admin"] ELSE NoUser]
  BY DEF HttpInit
<1>2. [name |-> n, role |-> "admin"] \in User
  BY DEF User, Roles
<1>3. users \in UserTable
  BY <1>1, <1>2 DEF UserTable
<1>4. code = <<>> /\ request = NoRequest
  BY DEF HttpInit
<1>5. code \in Seq(Nat) /\ Len(code) = 0
  BY <1>4
<1>6. next_id = 2
  BY DEF HttpInit
<1> QED BY <1>3, <1>4, <1>5, <1>6 DEF HttpInv

\* An answer keeps the users a table, and given twice changes nothing more.
LEMMA AnswerIs ==
  ASSUME users \in UserTable, NEW r \in Requests, Answer(r), next_id \in Nat \ {0}
  PROVE  /\ users' \in UserTable /\ users' = After(users, r) /\ next_id' \in Nat \ {0}
         /\ r.method \in Idempotent => After(users', r) = users'
         /\ r.method = "GET" => users' = users
<1>1. users' = After(users, r) /\ (r.method = "POST" => next_id \in Ids)
  BY HttpAssumption DEF Answer, Ids
<1>2. users' \in UserTable /\ (r.method \in Idempotent => After(users', r) = users')
  BY <1>1, AfterKeepsUsers, AfterTwice
<1>3. r.method = "GET" => users' = users
  BY <1>1 DEF After, Valid
<1>4. next_id' \in Nat \ {0}
  BY DEF Answer
<1> QED BY <1>1, <1>2, <1>3, <1>4

LEMMA HttpStep ==
  ASSUME HttpInv, [HttpNext]_httpVars
  PROVE  /\ HttpInv'
         /\ Len(code') = 2 /\ request.method \in Idempotent => users' = users
         /\ request'.method = "GET" => users' = users
<1>1. CASE UNCHANGED httpVars
  BY <1>1 DEF httpVars, HttpInv, After, Replace, Create, Patch
<1>2. ASSUME NEW r \in Requests, Ask(r)
      PROVE  /\ HttpInv' /\ Len(code') = 1
             /\ request'.method = "GET" => users' = users
  <2>1. request' = r /\ code' = <<StatusCode(users, r)>> /\ Answer(r)
    BY <1>2 DEF Ask
  <2>2. StatusCode(users, r) \in Nat
    BY DEF StatusCode
  <2>3. code' \in Seq(Nat) /\ Len(code') = 1
    BY <2>1, <2>2
  <2>4. /\ users' \in UserTable /\ next_id' \in Nat \ {0}
        /\ r.method \in Idempotent => After(users', r) = users'
        /\ r.method = "GET" => users' = users
    BY <2>1, AnswerIs DEF HttpInv
  <2>5. After(users, request)' = After(users', r)
    BY <2>1 DEF After
  <2> QED BY <2>1, <2>3, <2>4, <2>5 DEF HttpInv
<1>3. CASE Retry
  <2>1. /\ request' = request /\ Answer(request) /\ Len(code) = 1 /\ request \in Requests
        /\ code' = Append(code, StatusCode(users, request)) /\ code \in Seq(Nat)
    BY <1>3 DEF Retry, HttpInv
  <2>2. StatusCode(users, request) \in Nat
    BY DEF StatusCode
  <2>3. code' \in Seq(Nat) /\ Len(code') = 2
    <3> DEFINE second == StatusCode(users, request)
    <3>1. second \in Nat /\ code' = Append(code, second)
      BY <2>1, <2>2
    <3> HIDE DEF second
    <3>2. Append(code, second) \in Seq(Nat) /\ Len(Append(code, second)) = Len(code) + 1
      BY <2>1, <3>1, AppendProperties
    <3> QED BY <2>1, <3>1, <3>2
  <2>4. /\ users' \in UserTable /\ next_id' \in Nat \ {0} /\ users' = After(users, request)
        /\ request.method = "GET" => users' = users
    BY <2>1, AnswerIs DEF HttpInv
  <2>5. request.method \in Idempotent => users' = users
    BY <2>1, <2>4 DEF HttpInv
  <2> QED BY <2>1, <2>3, <2>4, <2>5 DEF HttpInv
<1> QED BY <1>1, <1>2, <1>3 DEF HttpNext

\* "Calling N times = calling once", for any users and bodies: the second call of a
\* method the module calls idempotent changes no user, and GET none at all.
THEOREM RetriesChangeNothing == Spec => RetryChangesNothing
<1>1. Init => HttpInv
  BY HttpInitInv DEF Init
<1>2. HttpInv /\ [Next]_mcVars =>
        /\ HttpInv'
        /\ Len(code') = 2 /\ request.method \in Idempotent => users' = users
        /\ request'.method = "GET" => users' = users
  BY OneSystemSteps, HttpStep
<1> QED BY <1>1, <1>2, PTL DEF Spec, RetryChangesNothing
=============================================================================
