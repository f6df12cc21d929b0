------------------------------ MODULE Transactions ------------------------------
(***************************************************************************)
(* database/: RelationalDB, whose one open transaction works on a copy of   *)
(* the storage, with an application that transfers money and may fail, roll *)
(* back or crash at every step; and the ticket inventory of                 *)
(* ConcurrentDatabase, bought from with the row lock or without.            *)
(***************************************************************************)
EXTENDS Integers, FiniteSets

CONSTANTS
  Amounts,          \* of the transfers
  Opening,          \* the balance of Alice and of Bob at the start
  Buyers, tickets   \* the buyers, and the tickets each one wants

ASSUME TransactionsAssumption ==
  /\ Amounts \subseteq Nat /\ Opening \in Nat
  /\ \A u \in Buyers : tickets[u] \in Nat

VARIABLES
  storage, workspace, in_transaction,
  app,          \* where the application is: "idle", "begun", "moved", "done", "failed"
  amount        \* of the transfer under way

accountVars == <<storage, workspace, in_transaction, app, amount>>

VARIABLES
  serializable,       \* serializable_purchase, or read_committed_purchase
  ticket_inventory,
  buyer,              \* where each buyer is
  seen,               \* the inventory each buyer read to take its tickets from
  sold

ticketVars == <<serializable, ticket_inventory, buyer, seen, sold>>

People == {"Alice", "Bob"}
InitialInventory == 10

TransactionsInit ==
  /\ storage = [p \in People |-> Opening] /\ workspace = storage
  /\ in_transaction = FALSE /\ app = "idle" /\ amount = 0
  /\ serializable \in BOOLEAN
  /\ ticket_inventory = InitialInventory
  /\ buyer = [u \in Buyers |-> "new"] /\ seen = [u \in Buyers |-> 0] /\ sold = 0

-----------------------------------------------------------------------------
(* RelationalDB and a transfer from Alice to Bob or back *)

BeginTransaction ==
  /\ app = "idle" /\ app' = "begun"
  /\ amount' \in Amounts \cup {-a : a \in Amounts}
  /\ in_transaction' = TRUE
  /\ workspace' = storage
  /\ UNCHANGED <<storage, ticketVars>>

\* Mutant: the storage is updated in place.
UpdateInPlace(person, change) ==
  IF workspace[person] + change < 0
  THEN app' = "failed" /\ UNCHANGED <<storage, workspace>>
  ELSE /\ workspace' = [workspace EXCEPT ![person] = @ + change]
       /\ storage' = [storage EXCEPT ![person] = @ + change]
       /\ app' = IF person = "Alice" THEN "moved" ELSE "done"

\* INSUFFICIENT FUNDS is raised before anything is written.
UpdateBalance(person, change) ==
  IF workspace[person] + change < 0
  THEN app' = "failed" /\ UNCHANGED <<storage, workspace>>
  ELSE /\ workspace' = [workspace EXCEPT ![person] = @ + change]
       /\ app' = IF person = "Alice" THEN "moved" ELSE "done"
       /\ UNCHANGED storage

Transfer ==
  /\ in_transaction
  /\ \/ app = "begun" /\ UpdateBalance("Alice", -amount)
     \/ app = "moved" /\ UpdateBalance("Bob", amount)
  /\ UNCHANGED <<in_transaction, amount, ticketVars>>

StepFails ==
  /\ app \in {"begun", "moved", "done"} /\ app' = "failed"
  /\ UNCHANGED <<storage, workspace, in_transaction, amount, ticketVars>>

Commit ==
  /\ in_transaction /\ app = "done" /\ app' = "idle"
  /\ storage' = workspace
  /\ in_transaction' = FALSE
  /\ UNCHANGED <<workspace, amount, ticketVars>>

Rollback ==
  /\ app = "failed" /\ app' = "idle"
  /\ in_transaction' = FALSE
  /\ UNCHANGED <<storage, workspace, amount, ticketVars>>

\* The application dies and leaves its transaction open; the next one begins anew.
AppDies ==
  /\ app # "idle" /\ app' = "idle"
  /\ UNCHANGED <<storage, workspace, in_transaction, amount, ticketVars>>

RelationalDB == BeginTransaction \/ Transfer \/ Commit \/ Rollback

-----------------------------------------------------------------------------
(* ConcurrentDatabase *)

BuyerAt(u, label) == buyer' = [buyer EXCEPT ![u] = label]

\* Mutant: the row is read before the lock is taken.
EnterUnlocked(u) ==
  /\ buyer[u] = "new"
  /\ BuyerAt(u, "thinking")
  /\ UNCHANGED <<serializable, ticket_inventory, seen, sold, accountVars>>

\* Finds the inventory, for the log, under the lock or without it.
EnterPurchase(u) ==
  /\ buyer[u] = "new"
  /\ serializable => \A v \in Buyers : buyer[v] \in {"new", "left"}
  /\ BuyerAt(u, "thinking")
  /\ UNCHANGED <<serializable, ticket_inventory, seen, sold, accountVars>>

CheckInventory(u) ==
  /\ buyer[u] = "thinking"
  /\ BuyerAt(u, IF ticket_inventory >= tickets[u] THEN "buying" ELSE "left")
  /\ UNCHANGED <<serializable, ticket_inventory, seen, sold, accountVars>>

\* ticket_inventory -= amount reads, and then writes.
ReadInventory(u) ==
  /\ buyer[u] = "buying" /\ BuyerAt(u, "writing")
  /\ seen' = [seen EXCEPT ![u] = ticket_inventory]
  /\ UNCHANGED <<serializable, ticket_inventory, sold, accountVars>>

WriteInventory(u) ==
  /\ buyer[u] = "writing" /\ BuyerAt(u, "left")
  /\ ticket_inventory' = seen[u] - tickets[u]
  /\ sold' = sold + tickets[u]
  /\ UNCHANGED <<serializable, seen, accountVars>>

Purchase(u) == EnterPurchase(u) \/ CheckInventory(u) \/ ReadInventory(u) \/ WriteInventory(u)

TransactionsNext ==
  \/ RelationalDB \/ StepFails \/ AppDies
  \/ \E u \in Buyers : Purchase(u)
-----------------------------------------------------------------------------
\* "All or Nothing": whatever step of whatever transfer fails, rolls back or dies,
\* the storage holds whole transfers only, so that no money comes or goes, and no
\* account is overdrawn.
AllOrNothing ==
  /\ storage["Alice"] + storage["Bob"] = 2 * Opening
  /\ \A p \in People : storage[p] >= 0

\* "Transactions execute as if they were happening one-by-one": with the row lock
\* no more tickets are sold than there are, and those sold are off the inventory.
NeverOversold ==
  serializable =>
    /\ sold <= InitialInventory
    /\ (\A u \in Buyers : buyer[u] \in {"new", "left"}) =>
         ticket_inventory = InitialInventory - sold

\* The two promises about transactions.
TransactionsHold == AllOrNothing /\ NeverOversold
=============================================================================
