---------------------------- MODULE IdempotencyKey ----------------------------
(***************************************************************************)
(* IdempotencyMiddleware.execute over an IdempotencyStore, of               *)
(* idempotency/idempotency_key.py, called by several request threads.       *)
(*                                                                          *)
(* The store locks each get, set and delete, not the sequence of them that  *)
(* execute performs, and it holds references: the record a request stores   *)
(* is the object the request goes on writing to, so its new status can be   *)
(* seen before its response is filled in.                                   *)
(*                                                                          *)
(* Clients follow one of two disciplines, fixed at the start: "retrying"    *)
(* clients send a key again only after the reply to its last request,       *)
(* "overlapping" ones at any time.                                          *)
(***************************************************************************)
EXTENDS Naturals, FiniteSets

CONSTANTS
  Requests,    \* calls of execute
  Keys,
  KeyOf,       \* the idempotency_key of a request
  NoRecord

ASSUME RequestsAssumption ==
  /\ NoRecord \notin Requests
  /\ KeyOf \in [Requests -> Keys]

VARIABLES
  discipline,  \* of the clients
  pc,          \* where each request stands in execute
  store,       \* IdempotencyStore._store: whose record each key refers to
  status,      \* record.status of the record of each request
  filled,      \* requests whose record carries its response
  expired,     \* requests whose record is past its TTL
  existing,    \* the local variable `existing`
  reply,       \* what execute has returned
  effects      \* requests whose operation took effect at the service

records == <<store, status, filled, expired>>
vars == <<discipline, pc, store, status, filled, expired, existing, reply,
          effects>>

RequestPC == {"idle", "found", "deleting", "claiming", "running", "ran",
              "raised", "completing", "failing", "done"}
IdempotencyStatus == {"none", "PROCESSING", "COMPLETE", "FAILED"}
\* "blank" is a cached reply whose response is not there yet.
Replies == {"none", "fresh", "error", "conflict", "cached", "blank"}

InFlight(r) == pc[r] \notin {"idle", "done"}

Init ==
  /\ discipline \in {"retrying", "overlapping"}
  /\ pc = [r \in Requests |-> "idle"]
  /\ store = [k \in Keys |-> NoRecord]
  /\ status = [r \in Requests |-> "none"]
  /\ filled = {}
  /\ expired = {}
  /\ existing = [r \in Requests |-> NoRecord]
  /\ reply = [r \in Requests |-> "none"]
  /\ effects = {}

Goto(r, label) == pc' = [pc EXCEPT ![r] = label]

Finish(r, answer) ==
  /\ Goto(r, "done")
  /\ reply' = [reply EXCEPT ![r] = answer]

\* The client sends the request, and store.get runs under the lock: an expired
\* record is deleted and not returned.
LookUp(r) ==
  LET k == KeyOf[r] IN
  /\ pc[r] = "idle"
  /\ discipline = "retrying" =>
       \A s \in Requests : KeyOf[s] = k => ~InFlight(s)
  /\ \/ /\ store[k] \in Requests \ expired
        /\ existing' = [existing EXCEPT ![r] = store[k]]
        /\ Goto(r, "found")
        /\ UNCHANGED store
     \/ /\ store[k] \notin Requests \ expired
        /\ store' = [store EXCEPT ![k] = NoRecord]
        /\ Goto(r, "claiming")
        /\ UNCHANGED existing
  /\ UNCHANGED <<discipline, status, filled, expired, reply, effects>>

\* Case B.
FindProcessing(r) ==
  /\ pc[r] = "found"
  /\ status[existing[r]] = "PROCESSING"
  /\ Finish(r, "conflict")
  /\ UNCHANGED <<discipline, records, existing, effects>>

\* Case C.
FindComplete(r) ==
  /\ pc[r] = "found"
  /\ status[existing[r]] = "COMPLETE"
  /\ Finish(r, IF existing[r] \in filled THEN "cached" ELSE "blank")
  /\ UNCHANGED <<discipline, records, existing, effects>>

\* Case D. A FAILED record carries code 500, or none yet, never a permanent
\* code, so the branch that returns a stored error is not reached.
FindFailed(r) ==
  /\ pc[r] = "found"
  /\ status[existing[r]] = "FAILED"
  /\ Goto(r, "deleting")
  /\ UNCHANGED <<discipline, records, existing, reply, effects>>

\* store.delete, whatever record the key refers to by now.
Delete(r) ==
  /\ pc[r] = "deleting"
  /\ store' = [store EXCEPT ![KeyOf[r]] = NoRecord]
  /\ Goto(r, "claiming")
  /\ UNCHANGED <<discipline, status, filled, expired, existing, reply, effects>>

\* store.set of a PROCESSING record, whatever record the key refers to by now.
Claim(r) ==
  /\ pc[r] = "claiming"
  /\ status' = [status EXCEPT ![r] = "PROCESSING"]
  /\ store' = [store EXCEPT ![KeyOf[r]] = r]
  /\ Goto(r, "running")
  /\ UNCHANGED <<discipline, filled, expired, existing, reply, effects>>

\* operation() returns, or raises without effect.
Operate(r) ==
  /\ pc[r] = "running"
  /\ \/ Goto(r, "ran") /\ effects' = effects \cup {r}
     \/ Goto(r, "raised") /\ UNCHANGED effects
  /\ UNCHANGED <<discipline, records, existing, reply>>

MarkComplete(r) ==
  /\ pc[r] = "ran"
  /\ status' = [status EXCEPT ![r] = "COMPLETE"]
  /\ Goto(r, "completing")
  /\ UNCHANGED <<discipline, store, filled, expired, existing, reply, effects>>

\* Mutant: the response is filled in and the record not stored again, under a
\* store that keeps no reference to it.
ForgetComplete(r) ==
  /\ pc[r] = "completing"
  /\ filled' = filled \cup {r}
  /\ store' = [store EXCEPT ![KeyOf[r]] = NoRecord]
  /\ Finish(r, "fresh")
  /\ UNCHANGED <<discipline, status, expired, existing, effects>>

\* The response is filled in and the record stored again.
StoreComplete(r) ==
  /\ pc[r] = "completing"
  /\ filled' = filled \cup {r}
  /\ store' = [store EXCEPT ![KeyOf[r]] = r]
  /\ Finish(r, "fresh")
  /\ UNCHANGED <<discipline, status, expired, existing, effects>>

\* Mutant: an exception leaves execute without touching the record.
LeaveProcessing(r) ==
  /\ pc[r] = "raised"
  /\ Finish(r, "error")
  /\ UNCHANGED <<discipline, records, existing, effects>>

MarkFailed(r) ==
  /\ pc[r] = "raised"
  /\ status' = [status EXCEPT ![r] = "FAILED"]
  /\ Goto(r, "failing")
  /\ UNCHANGED <<discipline, store, filled, expired, existing, reply, effects>>

StoreFailed(r) ==
  /\ pc[r] = "failing"
  /\ store' = [store EXCEPT ![KeyOf[r]] = r]
  /\ Finish(r, "error")
  /\ UNCHANGED <<discipline, status, filled, expired, existing, effects>>

\* The TTL of the record of r elapses; it may be shorter than the operation.
Expire(r) ==
  /\ status[r] # "none"
  /\ r \notin expired
  /\ expired' = expired \cup {r}
  /\ UNCHANGED <<discipline, pc, store, status, filled, existing, reply,
                 effects>>

Execute(r) ==
  \/ LookUp(r) \/ FindProcessing(r) \/ FindComplete(r) \/ FindFailed(r)
  \/ Delete(r) \/ Claim(r) \/ Operate(r) \/ MarkComplete(r)
  \/ StoreComplete(r) \/ MarkFailed(r) \/ StoreFailed(r)

Next == \E r \in Requests : Execute(r) \/ Expire(r)

Spec == Init /\ [][Next]_vars
-----------------------------------------------------------------------------
(* Properties *)

TypeOK ==
  /\ discipline \in {"retrying", "overlapping"}
  /\ pc \in [Requests -> RequestPC]
  /\ store \in [Keys -> Requests \cup {NoRecord}]
  /\ status \in [Requests -> IdempotencyStatus]
  /\ filled \subseteq Requests
  /\ expired \subseteq Requests
  /\ existing \in [Requests -> Requests \cup {NoRecord}]
  /\ reply \in [Requests -> Replies]
  /\ effects \subseteq Requests

\* A key is never left PROCESSING by a request that is gone, in any
\* interleaving: whoever is told 409 can try again later with success.
NoOrphan ==
  \A k \in Keys :
    store[k] # NoRecord /\ status[store[k]] = "PROCESSING" => InFlight(store[k])

\* Whoever is told that its request was processed before is told the truth, in
\* any interleaving: an operation of that key took effect.
RepliesTruthful ==
  \A r \in Requests :
    reply[r] \in {"cached", "blank"} =>
      \E s \in effects : KeyOf[s] = KeyOf[r] /\ s # r

\* What any client can rely on, overlapping with others or not.
KeySafe == TypeOK /\ NoOrphan /\ RepliesTruthful

\* "Mark as PROCESSING (prevent concurrent duplicates)": the operation of a key
\* takes effect twice only if a record of it expired, whatever the discipline.
AtMostOnce ==
  \A r, s \in effects :
    KeyOf[r] = KeyOf[s] /\ r # s => {r, s} \cap expired # {}

\* The same for clients that wait for a reply before they retry: execute then
\* gives them at-most-once execution, through failures and expiry.
AtMostOnceIfRetrying == discipline = "retrying" => AtMostOnce

\* A client that waits before it retries gets the stored response or a fresh
\* execution: no conflict, no reply without its response.
RetriesServed ==
  discipline = "retrying" =>
    \A r \in Requests : reply[r] \notin {"conflict", "blank"}

\* What a client that waits before it retries can rely on.
RetryingSafe == AtMostOnceIfRetrying /\ RetriesServed

\* "COMPLETE: return the stored result for all future identical requests": no
\* cached reply is without its response.
StoredResultReturned == \A r \in Requests : reply[r] # "blank"
=============================================================================
