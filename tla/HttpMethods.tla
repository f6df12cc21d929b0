----------------------------- MODULE HttpMethods -----------------------------
(***************************************************************************)
(* UserRepository and the handlers of HTTPMethodDemo in                     *)
(* idempotency/http_methods.py, and clients that send a request again       *)
(* because its response was lost. A handler runs to its end.                *)
(*                                                                          *)
(* Of a user, the name and the role tell the methods apart: PUT resets a    *)
(* field that the body leaves out, PATCH keeps it. Email goes with the name *)
(* and balance with the role, except that PATCH refuses it.                 *)
(***************************************************************************)
EXTENDS Naturals, Sequences

CONSTANTS
  Names,
  NoUser,
  Absent,        \* a field that the body leaves out
  MaxId          \* bound on the ids that are given out or asked for

ASSUME HttpAssumption == NoUser \notin Names /\ Absent \notin Names /\ MaxId \in Nat

VARIABLES
  users,         \* UserRepository._users
  next_id,       \* UserRepository._next_id
  request,       \* the last request
  code           \* the status codes it has been answered with, oldest first

httpVars == <<users, next_id, request, code>>

Ids   == 1..MaxId
Roles == {"user", "admin"}
User  == [name : Names, role : Roles]
Body  == [name : Names \cup {Absent}, role : Roles \cup {Absent}]
NoRequest == [method |-> "none", id |-> 0, body |-> [name |-> Absent, role |-> Absent]]
Requests ==
  [method : {"GET", "DELETE"}, id : Ids, body : {NoRequest.body}]
    \cup [method : {"PUT", "PATCH"}, id : Ids, body : Body]
    \cup [method : {"POST"}, id : {0}, body : Body]

HttpInit ==
  /\ \E n \in Names :
       users = [i \in Ids |-> IF i = 1 THEN [name |-> n, role |-> "admin"] ELSE NoUser]
  /\ next_id = 2
  /\ request = NoRequest
  /\ code = <<>>

-----------------------------------------------------------------------------
(* What a method makes of the users, and its status code. *)

Given(field, default) == IF field = Absent THEN default ELSE field

Replace(u, r) ==
  [u EXCEPT ![r.id] = [name |-> r.body.name, role |-> Given(r.body.role, "user")]]

\* Mutant: "Case 2", a PATCH that applies a change instead of setting a value.
PatchDelta(u, r) ==
  [u EXCEPT ![r.id].role = IF r.body.role = Absent THEN @ ELSE CHOOSE x \in Roles : x # @]

Patch(u, r) ==
  [u EXCEPT ![r.id] = [name |-> Given(r.body.name, @.name), role |-> Given(r.body.role, @.role)]]

Create(u, r) == [u EXCEPT ![next_id] = [name |-> r.body.name, role |-> "user"]]

Valid(r) == r.method \in {"PUT", "POST"} => r.body.name # Absent

After(u, r) ==
  IF ~Valid(r) THEN u
  ELSE CASE r.method = "PUT"      -> Replace(u, r)
         [] r.method = "POST"     -> Create(u, r)
         [] r.method = "DELETE"   -> [u EXCEPT ![r.id] = NoUser]
         [] r.method = "PATCH" /\ u[r.id] # NoUser -> Patch(u, r)
         [] OTHER                 -> u

StatusCode(u, r) ==
  IF ~Valid(r) THEN 400
  ELSE CASE r.method = "PUT"      -> IF u[r.id] = NoUser THEN 201 ELSE 200
         [] r.method = "POST"     -> 201
         [] OTHER                 -> IF u[r.id] = NoUser THEN 404 ELSE 200

Answer(r) ==
  /\ r.method = "POST" => next_id <= MaxId
  /\ users' = After(users, r)
  /\ next_id' = IF r.method = "POST" /\ Valid(r) THEN next_id + 1 ELSE next_id

Ask(r) == Answer(r) /\ request' = r /\ code' = <<StatusCode(users, r)>>

\* The response was lost and the client sends the same request again.
Retry ==
  /\ request # NoRequest /\ Len(code) = 1
  /\ Answer(request)
  /\ code' = Append(code, StatusCode(users, request))
  /\ UNCHANGED request

HttpNext == Retry \/ \E r \in Requests : Ask(r)

HttpSpec == HttpInit /\ [][HttpNext]_httpVars
-----------------------------------------------------------------------------
Idempotent == {"GET", "PUT", "DELETE", "PATCH"}

\* "Calling N times = calling once", for the methods the module calls
\* idempotent: a retry changes no user and creates none, though DELETE answers
\* differently and PUT creates at first. GET is safe from the start.
RetryChangesNothing ==
  [][/\ Len(code') = 2 /\ request.method \in Idempotent => users' = users
     /\ request'.method = "GET" => users' = users]_httpVars
=============================================================================
