----------------------------- MODULE RowPatterns -----------------------------
(***************************************************************************)
(* The three tables of idempotency/database_patterns.py and the threads     *)
(* that call them: UpsertPattern, which has no lock, for one email;         *)
(* UniqueConstraintPattern; and OptimisticLockingPattern with its retries,  *)
(* for one order.                                                           *)
(*                                                                          *)
(* A row is an object: upsert returns and updates the row it found even     *)
(* when another one has taken its place in the table. A row is named by the *)
(* thread that inserted it, and a thread's data by the thread.              *)
(***************************************************************************)
EXTENDS Naturals, FiniteSets

CONSTANTS
  Callers,
  NoRow,
  max_attempts   \* max_retries of update_with_retry

ASSUME RowAssumption == NoRow \notin Callers /\ max_attempts \in Nat \ {0}

VARIABLES
  caller,      \* where each thread stands in its call
  row,         \* the row each thread found, inserted or was given
  email_row,   \* UpsertPattern._table of the email
  fields,      \* name and phone of each profile row
  payment,     \* UniqueConstraintPattern._by_idem_key of the key
  version,     \* OrderRow.version of the order
  status,      \* OrderRow.status: whose update it is
  expected,    \* the expected_version each thread passes
  attempt,     \* the attempt of update_with_retry each thread is in
  others       \* successful updates by others in the course of a thread's call

rowVars == <<caller, row, email_row, fields, payment, version, status,
             expected, attempt, others>>

RowInit ==
  /\ caller = [t \in Callers |-> "new"]
  /\ row = [t \in Callers |-> NoRow]
  /\ email_row = NoRow
  /\ fields = [t \in Callers |-> [name |-> NoRow, phone |-> NoRow]]
  /\ payment = NoRow
  /\ version = 1
  /\ status = NoRow
  /\ expected = [t \in Callers |-> 0]
  /\ attempt = [t \in Callers |-> 1]
  /\ others = [t \in Callers |-> 0]

Becomes(t, label) == caller' = [caller EXCEPT ![t] = label]

-----------------------------------------------------------------------------
(* upsert: look up, then insert or update field by field *)

GetExisting(t) ==
  /\ caller[t] = "new"
  /\ row' = [row EXCEPT ![t] = email_row]
  /\ Becomes(t, IF email_row = NoRow THEN "inserting" ELSE "naming")
  /\ UNCHANGED <<email_row, fields, payment, version, status, expected, attempt, others>>

InsertRow(t) ==
  /\ caller[t] = "inserting"
  /\ fields' = [fields EXCEPT ![t] = [name |-> t, phone |-> t]]
  /\ email_row' = t
  /\ row' = [row EXCEPT ![t] = t]
  /\ Becomes(t, "upserted")
  /\ UNCHANGED <<payment, version, status, expected, attempt, others>>

UpdateName(t) ==
  /\ caller[t] = "naming"
  /\ fields' = [fields EXCEPT ![row[t]].name = t]
  /\ Becomes(t, "phoning")
  /\ UNCHANGED <<row, email_row, payment, version, status, expected, attempt, others>>

UpdatePhone(t) ==
  /\ caller[t] = "phoning"
  /\ fields' = [fields EXCEPT ![row[t]].phone = t]
  /\ Becomes(t, "upserted")
  /\ UNCHANGED <<row, email_row, payment, version, status, expected, attempt, others>>

-----------------------------------------------------------------------------
(* safe_insert_or_get *)

InsertPayment(t) ==
  /\ caller[t] = "new"
  /\ IF payment = NoRow
     THEN payment' = t /\ row' = [row EXCEPT ![t] = t] /\ Becomes(t, "inserted")
     ELSE Becomes(t, "duplicate") /\ UNCHANGED <<payment, row>>
  /\ UNCHANGED <<email_row, fields, version, status, expected, attempt, others>>

FindByIdemKey(t) ==
  /\ caller[t] = "duplicate"
  /\ row' = [row EXCEPT ![t] = payment]
  /\ Becomes(t, "found")
  /\ UNCHANGED <<email_row, fields, payment, version, status, expected, attempt, others>>

-----------------------------------------------------------------------------
(* update_with_retry *)

ReadVersion(t) ==
  /\ caller[t] \in {"new", "retrying"}
  /\ expected' = [expected EXCEPT ![t] = version]
  /\ Becomes(t, "updating")
  /\ UNCHANGED <<row, email_row, fields, payment, version, status, attempt, others>>

\* Mutant: the version is not compared.
UpdateBlindly(t) ==
  /\ caller[t] = "updating"
  /\ version' = expected[t] + 1
  /\ status' = t
  /\ others' = [u \in Callers |-> IF caller[u] = "updating" /\ u # t THEN others[u] + 1 ELSE others[u]]
  /\ Becomes(t, "updated")
  /\ UNCHANGED <<row, email_row, fields, payment, expected, attempt>>

UpdateStatus(t) ==
  /\ caller[t] = "updating"
  /\ \/ /\ version = expected[t]
        /\ status' = t
        /\ version' = version + 1
        /\ others' = [u \in Callers |->
             IF caller[u] \in {"updating", "retrying"} /\ u # t THEN others[u] + 1 ELSE others[u]]
        /\ Becomes(t, "updated")
        /\ UNCHANGED attempt
     \/ /\ version # expected[t]
        /\ IF attempt[t] = max_attempts
           THEN Becomes(t, "raised") /\ UNCHANGED attempt
           ELSE Becomes(t, "retrying") /\ attempt' = [attempt EXCEPT ![t] = @ + 1]
        /\ UNCHANGED <<version, status, others>>
  /\ UNCHANGED <<row, email_row, fields, payment, expected>>

-----------------------------------------------------------------------------
Upsert(t)          == GetExisting(t) \/ InsertRow(t) \/ UpdateName(t) \/ UpdatePhone(t)
SafeInsertOrGet(t) == InsertPayment(t) \/ FindByIdemKey(t)
UpdateWithRetry(t) == ReadVersion(t) \/ UpdateStatus(t)

RowNext == \E t \in Callers : Upsert(t) \/ SafeInsertOrGet(t) \/ UpdateWithRetry(t)

RowSpec == RowInit /\ [][RowNext]_rowVars
-----------------------------------------------------------------------------
\* Threads that have gone through a given outcome.
Having(label) == {t \in Callers : caller[t] = label}

\* One row per key: everybody who inserts a payment under one key is given the
\* same row, which one of them inserted; and once an upsert has returned, its
\* row is there and was filled in by callers throughout.
OneRowPerKey ==
  /\ Cardinality(Having("inserted")) <= 1
  /\ \A t \in Having("inserted") \cup Having("found") : row[t] = payment
  /\ Having("upserted") # {} =>
       /\ email_row # NoRow
       /\ NoRow \notin {fields[email_row].name, fields[email_row].phone}

\* "Prevents lost updates": every successful update adds one version, and a
\* thread only gives up after as many updates by others as it made attempts.
NoLostUpdate ==
  /\ version = 1 + Cardinality(Having("updated"))
  /\ (status = NoRow) = (version = 1)
  /\ \A t \in Having("raised") : others[t] >= max_attempts

\* What the unique key and the version column are for.
RowsKept == OneRowPerKey /\ NoLostUpdate
=============================================================================
