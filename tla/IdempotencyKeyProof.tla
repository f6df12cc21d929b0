------------------------- MODULE IdempotencyKeyProof -------------------------
(***************************************************************************)
(* The safety of IdempotencyMiddleware.execute for any requests and keys.   *)
(* RecordLife ties the record of a request to where the request stands,     *)
(* References says what `existing` and the store may refer to; both hold in *)
(* every interleaving. Exclusive is what a client that waits for its reply  *)
(* adds: the store refers to the one request of a key in flight, and after  *)
(* an effect to the request that had it until its record expires.           *)
(***************************************************************************)
EXTENDS IdempotencyKey, TLAPS

RecordLife ==
  \A r \in Requests :
    /\ status[r] = "PROCESSING" => pc[r] \in {"running", "ran", "raised"}
    /\ status[r] = "COMPLETE" => r \in effects /\ pc[r] \in {"completing", "done"}
    /\ status[r] = "FAILED" => r \notin effects /\ pc[r] \in {"failing", "done"}
    /\ pc[r] \in {"idle", "found", "deleting", "claiming"} => status[r] = "none"
    /\ pc[r] \in {"running", "ran", "raised"} => status[r] = "PROCESSING"
    /\ pc[r] = "completing" => status[r] = "COMPLETE"
    /\ pc[r] = "failing" => status[r] = "FAILED"
    /\ pc[r] = "ran" => r \in effects
    /\ r \in effects => status[r] \in {"PROCESSING", "COMPLETE"}
    /\ r \in effects => pc[r] \in {"ran", "completing", "done"}
    /\ status[r] = "COMPLETE" /\ pc[r] = "done" => r \in filled

References ==
  /\ \A k \in Keys :
       store[k] # NoRecord => KeyOf[store[k]] = k /\ status[store[k]] # "none"
  /\ \A r \in Requests :
       pc[r] = "found" => /\ existing[r] \in Requests
                          /\ KeyOf[existing[r]] = KeyOf[r]
                          /\ status[existing[r]] # "none"

Alone ==
  \A r, s \in Requests :
    KeyOf[r] = KeyOf[s] /\ InFlight(r) /\ InFlight(s) => r = s

Claimed ==
  \A r \in Requests :
    pc[r] \in {"running", "ran", "raised", "completing", "failing"} =>
      store[KeyOf[r]] = r

Remembered ==
  \A s \in effects \ expired :
    /\ store[KeyOf[s]] = s
    /\ \A r \in Requests :
         r # s /\ KeyOf[r] = KeyOf[s] /\ InFlight(r) =>
           pc[r] = "found" /\ existing[r] = s

Exclusive == discipline = "retrying" => Alone /\ Claimed /\ Remembered

IInv ==
  /\ TypeOK
  /\ RecordLife
  /\ References
  /\ RepliesTruthful
  /\ RetriesServed
  /\ Exclusive

\* store.get: under "retrying" the request enters alone, and it goes on to
\* claim the key only when no unexpired record remembers an effect.
LEMMA LookUpPreserves ==
  ASSUME IInv, NEW r \in Requests, LookUp(r)
  PROVE  IInv'
<1>1. TypeOK'
  BY RequestsAssumption
     DEF IInv, TypeOK, RequestPC, IdempotencyStatus, Replies, LookUp, Goto, records
<1>2. RecordLife'
  BY DEF IInv, TypeOK, RecordLife, LookUp, Goto, records
<1>3. References'
  BY RequestsAssumption
     DEF IInv, TypeOK, RecordLife, References, LookUp, Goto, records
<1>4. RepliesTruthful'
  BY RequestsAssumption
     DEF IInv, TypeOK, RecordLife, References, RepliesTruthful, LookUp, Goto, records
<1>5. RetriesServed'
  BY DEF IInv, TypeOK, RetriesServed, LookUp, Goto, records
<1>6. Exclusive'
  <2> SUFFICES ASSUME discipline = "retrying" PROVE (Alone /\ Claimed /\ Remembered)'
    BY DEF Exclusive, LookUp, Goto, records
  <2>1. Alone'
    BY DEF IInv, TypeOK, Exclusive, Alone, InFlight, LookUp, Goto, records
  <2>2. Claimed'
    <3> SUFFICES ASSUME NEW q \in Requests,
                        pc'[q] \in {"running", "ran", "raised", "completing",
                                    "failing"}
                 PROVE  store'[KeyOf[q]] = q
      BY DEF Claimed
    <3>1. q # r /\ pc'[q] = pc[q]
      BY DEF IInv, TypeOK, LookUp, Goto
    <3>2. KeyOf[q] # KeyOf[r]
      BY <3>1 DEF LookUp, InFlight
    <3>3. store'[KeyOf[q]] = store[KeyOf[q]]
      BY <3>2, RequestsAssumption DEF IInv, TypeOK, LookUp
    <3> QED BY <3>1, <3>3 DEF IInv, Exclusive, Claimed
  <2>3. Remembered'
    <3> SUFFICES ASSUME NEW s \in effects \ expired
                 PROVE  /\ store'[KeyOf[s]] = s
                        /\ \A q \in Requests :
                             q # s /\ KeyOf[q] = KeyOf[s] /\ InFlight(q)' =>
                               pc'[q] = "found" /\ existing'[q] = s
      BY DEF Remembered, LookUp
    <3>1. /\ s \in Requests /\ store[KeyOf[s]] = s
          /\ \A q \in Requests :
               q # s /\ KeyOf[q] = KeyOf[s] /\ InFlight(q) =>
                 pc[q] = "found" /\ existing[q] = s
      BY DEF IInv, TypeOK, Exclusive, Remembered
    <3>2. s # r
      BY DEF IInv, RecordLife, LookUp
    <3>3. CASE KeyOf[s] = KeyOf[r]
      <4>1. store' = store /\ existing' = [existing EXCEPT ![r] = s]
            /\ pc' = [pc EXCEPT ![r] = "found"]
        BY <3>1, <3>3 DEF LookUp, Goto
      <4> QED BY <3>1, <3>3, <4>1 DEF IInv, TypeOK, LookUp, InFlight
    <3>4. CASE KeyOf[s] # KeyOf[r]
      <4>1. store'[KeyOf[s]] = store[KeyOf[s]]
        BY <3>4, RequestsAssumption DEF IInv, TypeOK, LookUp
      <4>2. \A q \in Requests :
              q # r => pc'[q] = pc[q] /\ existing'[q] = existing[q]
        BY DEF IInv, TypeOK, LookUp, Goto
      <4> QED BY <3>1, <3>4, <4>1, <4>2 DEF InFlight
    <3> QED BY <3>3, <3>4
  <2> QED BY <2>1, <2>2, <2>3
<1> QED BY <1>1, <1>2, <1>3, <1>4, <1>5, <1>6 DEF IInv

\* Case B cannot be met by a client that waits for its reply.
LEMMA FindProcessingPreserves ==
  ASSUME IInv, NEW r \in Requests, FindProcessing(r)
  PROVE  IInv'
<1>1. TypeOK'
  BY RequestsAssumption
     DEF IInv, TypeOK, RequestPC, IdempotencyStatus, Replies, FindProcessing, Goto, Finish, records
<1>2. RecordLife'
  BY DEF IInv, TypeOK, RecordLife, FindProcessing, Goto, Finish, records
<1>3. References'
  BY RequestsAssumption
     DEF IInv, TypeOK, RecordLife, References, FindProcessing, Goto, Finish, records
<1>4. RepliesTruthful'
  BY RequestsAssumption
     DEF IInv, TypeOK, RecordLife, References, RepliesTruthful, FindProcessing, Goto, Finish, records
<1>5. RetriesServed'
  <2>1. ASSUME discipline = "retrying" PROVE FALSE
    <3>1. /\ existing[r] \in Requests /\ KeyOf[existing[r]] = KeyOf[r]
          /\ existing[r] # r
      BY DEF IInv, RecordLife, References, FindProcessing
    <3>2. InFlight(r) /\ InFlight(existing[r])
      BY <3>1 DEF IInv, TypeOK, RecordLife, FindProcessing, InFlight
    <3> QED BY <2>1, <3>1, <3>2 DEF IInv, Exclusive, Alone
  <2> QED BY <2>1 DEF RetriesServed, FindProcessing
<1>6. Exclusive'
  <2> SUFFICES ASSUME discipline = "retrying" PROVE (Alone /\ Claimed /\ Remembered)'
    BY DEF Exclusive, FindProcessing, Goto, Finish, records
  <2>1. Alone'
    BY DEF IInv, TypeOK, Exclusive, Alone, InFlight, FindProcessing, Goto, Finish, records
  <2>2. Claimed'
    BY DEF IInv, TypeOK, Exclusive, Alone, Claimed, InFlight, FindProcessing, Goto, Finish, records
  <2>3. Remembered'
    BY DEF IInv, TypeOK, RecordLife, Exclusive, Alone, Claimed, Remembered,
           InFlight, FindProcessing, Goto, Finish, records
  <2> QED BY <2>1, <2>2, <2>3
<1> QED BY <1>1, <1>2, <1>3, <1>4, <1>5, <1>6 DEF IInv

\* Case C: the owner of a COMPLETE record had its effect, and has filled in
\* its response when nobody else is in flight.
LEMMA FindCompletePreserves ==
  ASSUME IInv, NEW r \in Requests, FindComplete(r)
  PROVE  IInv'
<1>1. TypeOK'
  BY RequestsAssumption
     DEF IInv, TypeOK, RequestPC, IdempotencyStatus, Replies, FindComplete, Goto, Finish, records
<1>2. RecordLife'
  BY DEF IInv, TypeOK, RecordLife, FindComplete, Goto, Finish, records
<1>3. References'
  BY RequestsAssumption
     DEF IInv, TypeOK, RecordLife, References, FindComplete, Goto, Finish, records
<1>4. RepliesTruthful'
  BY RequestsAssumption
     DEF IInv, TypeOK, RecordLife, References, RepliesTruthful, FindComplete, Goto, Finish, records
<1>5. RetriesServed'
  <2>1. ASSUME discipline = "retrying" PROVE existing[r] \in filled
    <3>1. /\ existing[r] \in Requests /\ KeyOf[existing[r]] = KeyOf[r]
          /\ existing[r] # r
      BY DEF IInv, RecordLife, References, FindComplete
    <3>2. InFlight(r)
      BY DEF FindComplete, InFlight
    <3>3. pc[existing[r]] = "done"
      BY <2>1, <3>1, <3>2
         DEF IInv, RecordLife, Exclusive, Alone, FindComplete, InFlight
    <3> QED BY <3>1, <3>3 DEF IInv, RecordLife, FindComplete
  <2> QED BY <2>1 DEF IInv, TypeOK, RetriesServed, FindComplete, Finish
<1>6. Exclusive'
  <2> SUFFICES ASSUME discipline = "retrying" PROVE (Alone /\ Claimed /\ Remembered)'
    BY DEF Exclusive, FindComplete, Goto, Finish, records
  <2>1. Alone'
    BY DEF IInv, TypeOK, Exclusive, Alone, InFlight, FindComplete, Goto, Finish, records
  <2>2. Claimed'
    BY DEF IInv, TypeOK, Exclusive, Alone, Claimed, InFlight, FindComplete, Goto, Finish, records
  <2>3. Remembered'
    BY DEF IInv, TypeOK, RecordLife, Exclusive, Alone, Claimed, Remembered,
           InFlight, FindComplete, Goto, Finish, records
  <2> QED BY <2>1, <2>2, <2>3
<1> QED BY <1>1, <1>2, <1>3, <1>4, <1>5, <1>6 DEF IInv

\* Case D: the owner of a FAILED record had no effect.
LEMMA FindFailedPreserves ==
  ASSUME IInv, NEW r \in Requests, FindFailed(r)
  PROVE  IInv'
<1>1. TypeOK'
  BY RequestsAssumption
     DEF IInv, TypeOK, RequestPC, IdempotencyStatus, Replies, FindFailed, Goto, records
<1>2. RecordLife'
  BY DEF IInv, TypeOK, RecordLife, FindFailed, Goto, records
<1>3. References'
  BY RequestsAssumption
     DEF IInv, TypeOK, RecordLife, References, FindFailed, Goto, records
<1>4. RepliesTruthful'
  BY RequestsAssumption
     DEF IInv, TypeOK, RecordLife, References, RepliesTruthful, FindFailed, Goto, records
<1>5. RetriesServed'
  BY DEF IInv, TypeOK, RetriesServed, FindFailed, Goto, records
<1>6. Exclusive'
  <2> SUFFICES ASSUME discipline = "retrying" PROVE (Alone /\ Claimed /\ Remembered)'
    BY DEF Exclusive, FindFailed, Goto, records
  <2>1. Alone'
    BY DEF IInv, TypeOK, Exclusive, Alone, InFlight, FindFailed, Goto, records
  <2>2. Claimed'
    BY DEF IInv, TypeOK, Exclusive, Alone, Claimed, InFlight, FindFailed, Goto, records
  <2>3. Remembered'
    BY DEF IInv, TypeOK, RecordLife, Exclusive, Alone, Claimed, Remembered,
           InFlight, FindFailed, Goto, records
  <2> QED BY <2>1, <2>2, <2>3
<1> QED BY <1>1, <1>2, <1>3, <1>4, <1>5, <1>6 DEF IInv

\* store.delete of the key of a request that is alone with it.
LEMMA DeletePreserves ==
  ASSUME IInv, NEW r \in Requests, Delete(r)
  PROVE  IInv'
<1>1. TypeOK'
  BY RequestsAssumption
     DEF IInv, TypeOK, RequestPC, IdempotencyStatus, Replies, Delete, Goto, records
<1>2. RecordLife'
  BY DEF IInv, TypeOK, RecordLife, Delete, Goto, records
<1>3. References'
  BY RequestsAssumption
     DEF IInv, TypeOK, RecordLife, References, Delete, Goto, records
<1>4. RepliesTruthful'
  BY RequestsAssumption
     DEF IInv, TypeOK, RecordLife, References, RepliesTruthful, Delete, Goto, records
<1>5. RetriesServed'
  BY DEF IInv, TypeOK, RetriesServed, Delete, Goto, records
<1>6. Exclusive'
  <2> SUFFICES ASSUME discipline = "retrying" PROVE (Alone /\ Claimed /\ Remembered)'
    BY DEF Exclusive, Delete, Goto, records
  <2>1. Alone'
    BY DEF IInv, TypeOK, Exclusive, Alone, InFlight, Delete, Goto, records
  <2>2. Claimed'
    BY DEF IInv, TypeOK, Exclusive, Alone, Claimed, InFlight, Delete, Goto, records
  <2>3. Remembered'
    BY DEF IInv, TypeOK, RecordLife, Exclusive, Alone, Claimed, Remembered,
           InFlight, Delete, Goto, records
  <2> QED BY <2>1, <2>2, <2>3
<1> QED BY <1>1, <1>2, <1>3, <1>4, <1>5, <1>6 DEF IInv

\* The record becomes PROCESSING and the key refers to it.
LEMMA ClaimPreserves ==
  ASSUME IInv, NEW r \in Requests, Claim(r)
  PROVE  IInv'
<1>1. TypeOK'
  BY RequestsAssumption
     DEF IInv, TypeOK, RequestPC, IdempotencyStatus, Replies, Claim, Goto, records
<1>2. RecordLife'
  BY DEF IInv, TypeOK, RecordLife, Claim, Goto, records
<1>3. References'
  BY RequestsAssumption
     DEF IInv, TypeOK, RecordLife, References, Claim, Goto, records
<1>4. RepliesTruthful'
  BY RequestsAssumption
     DEF IInv, TypeOK, RecordLife, References, RepliesTruthful, Claim, Goto, records
<1>5. RetriesServed'
  BY DEF IInv, TypeOK, RetriesServed, Claim, Goto, records
<1>6. Exclusive'
  <2> SUFFICES ASSUME discipline = "retrying" PROVE (Alone /\ Claimed /\ Remembered)'
    BY DEF Exclusive, Claim, Goto, records
  <2>1. Alone'
    BY DEF IInv, TypeOK, Exclusive, Alone, InFlight, Claim, Goto, records
  <2>2. Claimed'
    <3> SUFFICES ASSUME NEW q \in Requests,
                        pc'[q] \in {"running", "ran", "raised", "completing",
                                    "failing"}
                 PROVE  store'[KeyOf[q]] = q
      BY DEF Claimed
    <3>1. CASE q = r
      BY <3>1, RequestsAssumption DEF IInv, TypeOK, Claim
    <3>2. CASE q # r
      <4>1. pc'[q] = pc[q] /\ InFlight(q) /\ InFlight(r)
        BY <3>2 DEF IInv, TypeOK, Claim, Goto, InFlight
      <4>2. KeyOf[q] # KeyOf[r]
        BY <3>2, <4>1 DEF IInv, Exclusive, Alone
      <4>3. store'[KeyOf[q]] = store[KeyOf[q]]
        BY <4>2, RequestsAssumption DEF IInv, TypeOK, Claim
      <4> QED BY <4>1, <4>3 DEF IInv, Exclusive, Claimed
    <3> QED BY <3>1, <3>2
  <2>3. Remembered'
    BY DEF IInv, TypeOK, RecordLife, Exclusive, Alone, Claimed, Remembered,
           InFlight, Claim, Goto, records
  <2> QED BY <2>1, <2>2, <2>3
<1> QED BY <1>1, <1>2, <1>3, <1>4, <1>5, <1>6 DEF IInv

\* The operation takes effect only for the request the key refers to.
LEMMA OperatePreserves ==
  ASSUME IInv, NEW r \in Requests, Operate(r)
  PROVE  IInv'
<1>1. TypeOK'
  BY RequestsAssumption
     DEF IInv, TypeOK, RequestPC, IdempotencyStatus, Replies, Operate, Goto, records
<1>2. RecordLife'
  BY DEF IInv, TypeOK, RecordLife, Operate, Goto, records
<1>3. References'
  BY RequestsAssumption
     DEF IInv, TypeOK, RecordLife, References, Operate, Goto, records
<1>4. RepliesTruthful'
  BY RequestsAssumption
     DEF IInv, TypeOK, RecordLife, References, RepliesTruthful, Operate, Goto, records
<1>5. RetriesServed'
  BY DEF IInv, TypeOK, RetriesServed, Operate, Goto, records
<1>6. Exclusive'
  <2> SUFFICES ASSUME discipline = "retrying" PROVE (Alone /\ Claimed /\ Remembered)'
    BY DEF Exclusive, Operate, Goto, records
  <2>1. Alone'
    BY DEF IInv, TypeOK, Exclusive, Alone, InFlight, Operate, Goto, records
  <2>2. Claimed'
    BY DEF IInv, TypeOK, Exclusive, Alone, Claimed, InFlight, Operate, Goto, records
  <2>3. Remembered'
    BY DEF IInv, TypeOK, RecordLife, Exclusive, Alone, Claimed, Remembered,
           InFlight, Operate, Goto, records
  <2> QED BY <2>1, <2>2, <2>3
<1> QED BY <1>1, <1>2, <1>3, <1>4, <1>5, <1>6 DEF IInv

\* The record turns COMPLETE after the effect.
LEMMA MarkCompletePreserves ==
  ASSUME IInv, NEW r \in Requests, MarkComplete(r)
  PROVE  IInv'
<1>1. TypeOK'
  BY RequestsAssumption
     DEF IInv, TypeOK, RequestPC, IdempotencyStatus, Replies, MarkComplete, Goto, records
<1>2. RecordLife'
  BY DEF IInv, TypeOK, RecordLife, MarkComplete, Goto, records
<1>3. References'
  BY RequestsAssumption
     DEF IInv, TypeOK, RecordLife, References, MarkComplete, Goto, records
<1>4. RepliesTruthful'
  BY RequestsAssumption
     DEF IInv, TypeOK, RecordLife, References, RepliesTruthful, MarkComplete, Goto, records
<1>5. RetriesServed'
  BY DEF IInv, TypeOK, RetriesServed, MarkComplete, Goto, records
<1>6. Exclusive'
  <2> SUFFICES ASSUME discipline = "retrying" PROVE (Alone /\ Claimed /\ Remembered)'
    BY DEF Exclusive, MarkComplete, Goto, records
  <2>1. Alone'
    BY DEF IInv, TypeOK, Exclusive, Alone, InFlight, MarkComplete, Goto, records
  <2>2. Claimed'
    BY DEF IInv, TypeOK, Exclusive, Alone, Claimed, InFlight, MarkComplete, Goto, records
  <2>3. Remembered'
    BY DEF IInv, TypeOK, RecordLife, Exclusive, Alone, Claimed, Remembered,
           InFlight, MarkComplete, Goto, records
  <2> QED BY <2>1, <2>2, <2>3
<1> QED BY <1>1, <1>2, <1>3, <1>4, <1>5, <1>6 DEF IInv

\* The response is filled in.
LEMMA StoreCompletePreserves ==
  ASSUME IInv, NEW r \in Requests, StoreComplete(r)
  PROVE  IInv'
<1>1. TypeOK'
  BY RequestsAssumption
     DEF IInv, TypeOK, RequestPC, IdempotencyStatus, Replies, StoreComplete, Goto, Finish, records
<1>2. RecordLife'
  BY DEF IInv, TypeOK, RecordLife, StoreComplete, Goto, Finish, records
<1>3. References'
  BY RequestsAssumption
     DEF IInv, TypeOK, RecordLife, References, StoreComplete, Goto, Finish, records
<1>4. RepliesTruthful'
  BY RequestsAssumption
     DEF IInv, TypeOK, RecordLife, References, RepliesTruthful, StoreComplete, Goto, Finish, records
<1>5. RetriesServed'
  BY DEF IInv, TypeOK, RetriesServed, StoreComplete, Goto, Finish, records
<1>6. Exclusive'
  <2> SUFFICES ASSUME discipline = "retrying" PROVE (Alone /\ Claimed /\ Remembered)'
    BY DEF Exclusive, StoreComplete, Goto, Finish, records
  <2>1. Alone'
    BY DEF IInv, TypeOK, Exclusive, Alone, InFlight, StoreComplete, Goto, Finish, records
  <2>2. Claimed'
    BY DEF IInv, TypeOK, Exclusive, Alone, Claimed, InFlight, StoreComplete, Goto, Finish, records
  <2>3. Remembered'
    BY DEF IInv, TypeOK, RecordLife, Exclusive, Alone, Claimed, Remembered,
           InFlight, StoreComplete, Goto, Finish, records
  <2> QED BY <2>1, <2>2, <2>3
<1> QED BY <1>1, <1>2, <1>3, <1>4, <1>5, <1>6 DEF IInv

\* The record turns FAILED, without effect.
LEMMA MarkFailedPreserves ==
  ASSUME IInv, NEW r \in Requests, MarkFailed(r)
  PROVE  IInv'
<1>1. TypeOK'
  BY RequestsAssumption
     DEF IInv, TypeOK, RequestPC, IdempotencyStatus, Replies, MarkFailed, Goto, records
<1>2. RecordLife'
  BY DEF IInv, TypeOK, RecordLife, MarkFailed, Goto, records
<1>3. References'
  BY RequestsAssumption
     DEF IInv, TypeOK, RecordLife, References, MarkFailed, Goto, records
<1>4. RepliesTruthful'
  BY RequestsAssumption
     DEF IInv, TypeOK, RecordLife, References, RepliesTruthful, MarkFailed, Goto, records
<1>5. RetriesServed'
  BY DEF IInv, TypeOK, RetriesServed, MarkFailed, Goto, records
<1>6. Exclusive'
  <2> SUFFICES ASSUME discipline = "retrying" PROVE (Alone /\ Claimed /\ Remembered)'
    BY DEF Exclusive, MarkFailed, Goto, records
  <2>1. Alone'
    BY DEF IInv, TypeOK, Exclusive, Alone, InFlight, MarkFailed, Goto, records
  <2>2. Claimed'
    BY DEF IInv, TypeOK, Exclusive, Alone, Claimed, InFlight, MarkFailed, Goto, records
  <2>3. Remembered'
    BY DEF IInv, TypeOK, RecordLife, Exclusive, Alone, Claimed, Remembered,
           InFlight, MarkFailed, Goto, records
  <2> QED BY <2>1, <2>2, <2>3
<1> QED BY <1>1, <1>2, <1>3, <1>4, <1>5, <1>6 DEF IInv

\* The FAILED record is stored again.
LEMMA StoreFailedPreserves ==
  ASSUME IInv, NEW r \in Requests, StoreFailed(r)
  PROVE  IInv'
<1>1. TypeOK'
  BY RequestsAssumption
     DEF IInv, TypeOK, RequestPC, IdempotencyStatus, Replies, StoreFailed, Goto, Finish, records
<1>2. RecordLife'
  BY DEF IInv, TypeOK, RecordLife, StoreFailed, Goto, Finish, records
<1>3. References'
  BY RequestsAssumption
     DEF IInv, TypeOK, RecordLife, References, StoreFailed, Goto, Finish, records
<1>4. RepliesTruthful'
  BY RequestsAssumption
     DEF IInv, TypeOK, RecordLife, References, RepliesTruthful, StoreFailed, Goto, Finish, records
<1>5. RetriesServed'
  BY DEF IInv, TypeOK, RetriesServed, StoreFailed, Goto, Finish, records
<1>6. Exclusive'
  <2> SUFFICES ASSUME discipline = "retrying" PROVE (Alone /\ Claimed /\ Remembered)'
    BY DEF Exclusive, StoreFailed, Goto, Finish, records
  <2>1. Alone'
    BY DEF IInv, TypeOK, Exclusive, Alone, InFlight, StoreFailed, Goto, Finish, records
  <2>2. Claimed'
    BY DEF IInv, TypeOK, Exclusive, Alone, Claimed, InFlight, StoreFailed, Goto, Finish, records
  <2>3. Remembered'
    BY DEF IInv, TypeOK, RecordLife, Exclusive, Alone, Claimed, Remembered,
           InFlight, StoreFailed, Goto, Finish, records
  <2> QED BY <2>1, <2>2, <2>3
<1> QED BY <1>1, <1>2, <1>3, <1>4, <1>5, <1>6 DEF IInv

\* An expired record remembers nothing any more.
LEMMA ExpirePreserves ==
  ASSUME IInv, NEW r \in Requests, Expire(r)
  PROVE  IInv'
<1>1. TypeOK'
  BY RequestsAssumption
     DEF IInv, TypeOK, RequestPC, IdempotencyStatus, Replies, Expire, records
<1>2. RecordLife'
  BY DEF IInv, TypeOK, RecordLife, Expire, records
<1>3. References'
  BY RequestsAssumption
     DEF IInv, TypeOK, RecordLife, References, Expire, records
<1>4. RepliesTruthful'
  BY RequestsAssumption
     DEF IInv, TypeOK, RecordLife, References, RepliesTruthful, Expire, records
<1>5. RetriesServed'
  BY DEF IInv, TypeOK, RetriesServed, Expire, records
<1>6. Exclusive'
  <2> SUFFICES ASSUME discipline = "retrying" PROVE (Alone /\ Claimed /\ Remembered)'
    BY DEF Exclusive, Expire, records
  <2>1. Alone'
    BY DEF IInv, TypeOK, Exclusive, Alone, InFlight, Expire, records
  <2>2. Claimed'
    BY DEF IInv, TypeOK, Exclusive, Alone, Claimed, InFlight, Expire, records
  <2>3. Remembered'
    BY DEF IInv, TypeOK, RecordLife, Exclusive, Alone, Claimed, Remembered,
           InFlight, Expire, records
  <2> QED BY <2>1, <2>2, <2>3
<1> QED BY <1>1, <1>2, <1>3, <1>4, <1>5, <1>6 DEF IInv

LEMMA InitInvariant == Init => IInv
BY RequestsAssumption
   DEF Init, IInv, TypeOK, RecordLife, References, RepliesTruthful,
       RetriesServed, Exclusive, Alone, Claimed, Remembered, InFlight,
       RequestPC, IdempotencyStatus, Replies

LEMMA StutterPreserves == IInv /\ UNCHANGED vars => IInv'
BY DEF vars, records, IInv, TypeOK, RecordLife, References, RepliesTruthful,
       RetriesServed, Exclusive, Alone, Claimed, Remembered, InFlight

LEMMA StepInvariant == IInv /\ [Next]_vars => IInv'
<1> SUFFICES ASSUME IInv, [Next]_vars PROVE IInv'
  OBVIOUS
<1>1. CASE UNCHANGED vars
  BY <1>1, StutterPreserves
<1>2. ASSUME NEW r \in Requests, Execute(r) \/ Expire(r) PROVE IInv'
  BY <1>2, LookUpPreserves, FindProcessingPreserves, FindCompletePreserves,
     FindFailedPreserves, DeletePreserves, ClaimPreserves, OperatePreserves,
     MarkCompletePreserves, StoreCompletePreserves, MarkFailedPreserves,
     StoreFailedPreserves, ExpirePreserves
     DEF Execute
<1> QED BY <1>1, <1>2 DEF Next

\* The records, the references to them and what clients were told fit together
\* in every interleaving, and the key of a waiting client has one owner.
THEOREM Invariance == Spec => []IInv
BY InitInvariant, StepInvariant, PTL DEF Spec

\* Type correctness of execute over the store, for any requests and keys.
THEOREM TypeCorrect == Spec => []TypeOK
<1>1. IInv => TypeOK
  BY DEF IInv
<1> QED BY Invariance, <1>1, PTL

\* No interleaving leaves a key PROCESSING without a request that will finish
\* it: every path out of execute writes a final status.
THEOREM NeverOrphaned == Spec => []NoOrphan
<1>1. IInv => NoOrphan
  BY DEF IInv, TypeOK, RecordLife, NoOrphan, InFlight
<1> QED BY Invariance, <1>1, PTL

\* A cached reply always stands for an operation that took effect.
THEOREM Truthful == Spec => []RepliesTruthful
<1>1. IInv => RepliesTruthful
  BY DEF IInv
<1> QED BY Invariance, <1>1, PTL

\* A client that waits for its reply is always served on a retry.
THEOREM Served == Spec => []RetriesServed
<1>1. IInv => RetriesServed
  BY DEF IInv
<1> QED BY Invariance, <1>1, PTL

\* Within the TTL the operation of a key takes effect at most once for clients
\* that wait for a reply before they retry.
THEOREM AtMostOnceForRetries == Spec => []AtMostOnceIfRetrying
<1>1. IInv => AtMostOnceIfRetrying
  BY DEF IInv, Exclusive, Remembered, AtMostOnceIfRetrying, AtMostOnce
<1> QED BY Invariance, <1>1, PTL

\* What any client can rely on, for any number of requests and keys.
THEOREM Safety == Spec => []KeySafe
BY TypeCorrect, NeverOrphaned, Truthful, PTL DEF KeySafe

\* What a client that waits before it retries can rely on.
THEOREM RetryingSafety == Spec => []RetryingSafe
BY AtMostOnceForRetries, Served, PTL DEF RetryingSafe
=============================================================================
