------------------------------- MODULE DataProof -------------------------------
(***************************************************************************)
(* Proofs about what keeps data and about the gateway in front of it, for   *)
(* any number of buyers, writes and requests: transfers are all or nothing, *)
(* tickets are not oversold under the row lock, the follower catches up     *)
(* with its leader, the index finds what answers a query and its facets     *)
(* count it, the search box suggests the best and puts slips right, and the *)
(* pipeline accounts for every request.                                     *)
(***************************************************************************)
EXTENDS MCData, FiniteSetTheorems, SequenceTheorems, NaturalsInduction, WellFoundedInduction, TLAPS

-----------------------------------------------------------------------------
(* RelationalDB: the workspace of a transfer under way *)

Balances == [People -> Int]

AccountTypeOK ==
  /\ storage \in Balances /\ workspace \in Balances
  /\ in_transaction \in BOOLEAN
  /\ app \in {"idle", "begun", "moved", "done", "failed"}
  /\ amount \in Int

Total(balances) == balances["Alice"] + balances["Bob"]

\* What each step of a transfer has left in the workspace: at first a copy of the
\* storage, then everything but the amount that is on its way, at last everything.
WorkspaceKept ==
  /\ app = "begun" => workspace = storage
  /\ app = "moved" => Total(workspace) = 2 * Opening - amount
  /\ app = "done" => Total(workspace) = 2 * Opening
  /\ app \in {"begun", "moved", "done"} => \A p \in People : workspace[p] >= 0

AccountInv == AccountTypeOK /\ AllOrNothing /\ WorkspaceKept

\* Nothing is on its way at first.
LEMMA AccountInitInv == ASSUME TransactionsInit PROVE AccountInv
<1> USE TransactionsAssumption DEF TransactionsInit, Balances
<1>1. \A p \in People : storage[p] = Opening
  OBVIOUS
<1>2. AllOrNothing
  BY <1>1 DEF AllOrNothing, People
<1>3. storage \in Balances /\ workspace \in Balances
  OBVIOUS
<1>4. AccountTypeOK
  <2>1. in_transaction \in BOOLEAN
    OBVIOUS
  <2>2. app \in {"idle", "begun", "moved", "done", "failed"}
    OBVIOUS
  <2>3. amount \in Int
    OBVIOUS
  <2> QED BY <1>3, <2>1, <2>2, <2>3 DEF AccountTypeOK
<1>5. WorkspaceKept
  BY DEF WorkspaceKept
<1> QED BY <1>2, <1>4, <1>5 DEF AccountInv

\* Every step of a transfer keeps what the workspace holds, and only a commit of a
\* whole transfer reaches the storage.
LEMMA AccountStep ==
  ASSUME AccountInv, RelationalDB \/ StepFails \/ AppDies
  PROVE  AccountInv'
<1> USE TransactionsAssumption
    DEF AccountInv, AccountTypeOK, Balances, AllOrNothing, WorkspaceKept, People, Total
<1>1. CASE BeginTransaction
  <2>1. amount' \in Int
    BY <1>1 DEF BeginTransaction
  <2> QED BY <1>1, <2>1 DEF BeginTransaction
<1>2. CASE Transfer
  <2>1. CASE app = "begun" /\ UpdateBalance("Alice", -amount)
    BY <1>2, <2>1 DEF Transfer, UpdateBalance
  <2>2. CASE app = "moved" /\ UpdateBalance("Bob", amount)
    BY <1>2, <2>2 DEF Transfer, UpdateBalance
  <2> QED BY <1>2, <2>1, <2>2 DEF Transfer
<1>3. CASE Commit
  BY <1>3 DEF Commit
<1>4. CASE Rollback
  BY <1>4 DEF Rollback
<1>5. CASE StepFails
  BY <1>5 DEF StepFails
<1>6. CASE AppDies
  BY <1>6 DEF AppDies
<1> QED BY <1>1, <1>2, <1>3, <1>4, <1>5, <1>6 DEF RelationalDB

-----------------------------------------------------------------------------
(* ConcurrentDatabase: the buyer under the row lock *)

TicketTypeOK ==
  /\ serializable \in BOOLEAN
  /\ ticket_inventory \in Int /\ sold \in Int
  /\ buyer \in [Buyers -> {"new", "thinking", "buying", "writing", "left"}]
  /\ seen \in [Buyers -> Int]

Outside(u) == buyer[u] \in {"new", "left"}

\* Under the row lock one buyer at a time is inside, and what it found out about
\* the inventory on the way in is still so.
LockKept ==
  serializable =>
    /\ \A u, v \in Buyers : Outside(u) \/ Outside(v) \/ u = v
    /\ ticket_inventory = InitialInventory - sold
    /\ ticket_inventory >= 0
    /\ \A u \in Buyers :
         /\ buyer[u] \in {"buying", "writing"} => ticket_inventory >= tickets[u]
         /\ buyer[u] = "writing" => seen[u] = ticket_inventory

TicketInv == TicketTypeOK /\ LockKept

\* All tickets are there, and nobody is inside.
LEMMA TicketInitInv == ASSUME TransactionsInit PROVE TicketInv
BY DEF TransactionsInit, TicketInv, TicketTypeOK, LockKept, Outside, InitialInventory

\* A buyer enters when nobody is inside, and nobody else writes until it leaves.
LEMMA PurchaseStep ==
  ASSUME TicketInv, NEW u \in Buyers, Purchase(u)
  PROVE  TicketInv'
<1> USE TransactionsAssumption DEF TicketInv, TicketTypeOK, LockKept, Outside, BuyerAt, InitialInventory
<1>1. CASE EnterPurchase(u)
  BY <1>1 DEF EnterPurchase
<1>2. CASE CheckInventory(u)
  BY <1>2 DEF CheckInventory
<1>3. CASE ReadInventory(u)
  BY <1>3 DEF ReadInventory
<1>4. CASE WriteInventory(u)
  BY <1>4 DEF WriteInventory
<1> QED BY <1>1, <1>2, <1>3, <1>4 DEF Purchase

\* The invariant of both databases.
TransactionsInv == AccountInv /\ TicketInv

\* Neither database touches the other.
LEMMA TransactionsStep ==
  ASSUME TransactionsInv, [TransactionsNext]_transactionVars
  PROVE  TransactionsInv'
<1> USE DEF TransactionsInv
<1>1. CASE RelationalDB \/ StepFails \/ AppDies
  <2>1. UNCHANGED ticketVars
    BY <1>1 DEF RelationalDB, BeginTransaction, Transfer, Commit, Rollback, StepFails, AppDies, ticketVars
  <2>2. TicketInv'
    BY <2>1 DEF ticketVars, TicketInv, TicketTypeOK, LockKept, Outside
  <2> QED BY <1>1, <2>2, AccountStep
<1>2. ASSUME NEW u \in Buyers, Purchase(u) PROVE TransactionsInv'
  <2>1. UNCHANGED accountVars
    BY <1>2 DEF Purchase, EnterPurchase, CheckInventory, ReadInventory, WriteInventory, accountVars
  <2>2. AccountInv'
    BY <2>1 DEF accountVars, AccountInv, AccountTypeOK, AllOrNothing, WorkspaceKept, Total
  <2> QED BY <1>2, <2>2, PurchaseStep
<1>3. CASE UNCHANGED transactionVars
  BY <1>3 DEF transactionVars, accountVars, ticketVars, AccountInv, AccountTypeOK, AllOrNothing,
              WorkspaceKept, Total, TicketInv, TicketTypeOK, LockKept, Outside
<1> QED BY <1>1, <1>2, <1>3 DEF TransactionsNext

\* The promises about transactions follow from it.
LEMMA TransactionsInvHolds == ASSUME TransactionsInv PROVE TransactionsHold
<1>1. AllOrNothing
  BY DEF TransactionsInv, AccountInv
<1>2. NeverOversold
  BY DEF TransactionsInv, TicketInv, TicketTypeOK, LockKept, NeverOversold, InitialInventory
<1> QED BY <1>1, <1>2 DEF TransactionsHold

-----------------------------------------------------------------------------
(* The leader and its follower *)

ReplicaTypeOK ==
  /\ write \in [Writes -> {"new", "written", "copied", "returned"}]
  /\ copying \subseteq Writes
  /\ leader_data \in Writes \cup {NoWrite} /\ follower_data \in Writes \cup {NoWrite}
  /\ burst \subseteq Writes

OnItsWay(w) == write[w] = "written" \/ w \in copying

\* What is on its way is of the latest burst, and so is what the leader holds; the
\* follower's is too as soon as one write of the burst has been copied.
OneBurst ==
  /\ \A w \in Writes : OnItsWay(w) => w \in burst
  /\ burst = {} => leader_data = NoWrite /\ follower_data = NoWrite
  /\ burst # {} => leader_data \in burst
  /\ follower_data \in burst \/ \A w \in burst : OnItsWay(w)

\* A thread that copies belongs to a write that has returned.
CopyOfReturned == \A w \in copying : write[w] = "returned"

ReplicaInv == ReplicaTypeOK /\ OneBurst /\ CopyOfReturned

\* Nothing is written at first.
LEMMA ReplicaInitInv == ASSUME ReplicationInit PROVE ReplicaInv
BY DEF ReplicationInit, ReplicaInv, ReplicaTypeOK, OneBurst, OnItsWay, CopyOfReturned

\* Each step of a write keeps what is on its way, or held, within the burst.
LEMMA LeadersStep ==
  ASSUME ReplicaInv, NEW w \in Writes, WriteSync(w) \/ WriteAsync(w)
  PROVE  ReplicaInv'
<1> USE DEF ReplicaInv, ReplicaTypeOK, OneBurst, OnItsWay, CopyOfReturned, Uncopied, Goes
<1>1. CASE WriteLeader(w)
  BY <1>1 DEF WriteLeader
<1>2. CASE CopySync(w)
  BY <1>2 DEF CopySync
<1>3. CASE SpawnReplicate(w)
  BY <1>3 DEF SpawnReplicate
<1>4. CASE Replicate(w)
  BY <1>4 DEF Replicate
<1>5. CASE ReturnSync(w)
  BY <1>5 DEF ReturnSync
<1> QED BY <1>1, <1>2, <1>3, <1>4, <1>5 DEF WriteSync, WriteAsync

\* The ClusterManager does not touch the data.
LEMMA ReplicationStep ==
  ASSUME ReplicaInv, [ReplicationNext]_replicationVars
  PROVE  ReplicaInv'
<1>1. ASSUME UNCHANGED replicaVars PROVE ReplicaInv'
  BY <1>1 DEF replicaVars, ReplicaInv, ReplicaTypeOK, OneBurst, OnItsWay, CopyOfReturned, Uncopied
<1>2. CASE ClusterManager
  BY <1>1, <1>2 DEF ClusterManager, ElectLeader, BeginElection, EndElection, Die
<1>3. CASE Leaders
  BY <1>3, LeadersStep DEF Leaders
<1>4. CASE UNCHANGED replicationVars
  BY <1>1, <1>4 DEF replicationVars
<1> QED BY <1>2, <1>3, <1>4 DEF ReplicationNext

\* With nothing on its way the follower's write is of the burst as well.
LEMMA ReplicaInvHolds == ASSUME ReplicaInv PROVE ReplicasAgree
BY DEF ReplicaInv, ReplicaTypeOK, OneBurst, OnItsWay, Uncopied, ReplicasAgree

-----------------------------------------------------------------------------
(* The gateway: what a request has at each stage *)

BeforeAnswer == {"router", "limiter", "registry", "make", "read", "breaker", "backend"}
Recording    == {"record", "total", "answered"}

GatewayTypeOK ==
  /\ request \in [Calls -> UNION {Kinds[c] : c \in Calls}]
  /\ stage \in [Calls -> BeforeAnswer \cup {"logger"} \cup Recording]
  /\ answer \in [Calls -> Nat]
  /\ calls_left \in [Clients -> Int] /\ refills \in [Clients -> Nat]
  /\ breakers \in [Services -> Calls \cup {NoBreaker}]
  /\ mine \in [Calls -> Calls \cup {NoBreaker}]
  /\ failures \in [Calls -> Nat] /\ half \in [Calls -> Nat]
  /\ state \in [Calls -> {"CLOSED", "OPEN", "HALF_OPEN"}]
  /\ total_requests \in Nat /\ seen_total \in [Calls -> Nat]
  /\ streak \in [Services -> Nat]

Admissible(c) == request[c].service # NoRoute /\ Authenticated(c) /\ HasRole(c)

\* Who is past the router was admitted, and has no answer yet; who is past the
\* registry has a breaker.
StagesKept ==
  \A c \in Calls :
    /\ stage[c] \in BeforeAnswer => answer[c] = 0
    /\ stage[c] \in BeforeAnswer \ {"router"} => Admissible(c)
    /\ stage[c] = "read" => breakers[request[c].service] # NoBreaker
    /\ stage[c] \in {"breaker", "backend"} => mine[c] \in Calls

\* Who is admitted has a service and is a client.
LEMMA AdmissibleKnown ==
  ASSUME GatewayTypeOK, NEW c \in Calls, Admissible(c)
  PROVE  request[c].service \in Services /\ request[c].caller \in Clients
BY DEF GatewayTypeOK, Admissible, Authenticated, Services, Clients

\* The request says who is admitted, and it does not change.
LEMMA AdmissibleStays ==
  ASSUME NEW c \in Calls, UNCHANGED request
  PROVE  Admissible(c)' <=> Admissible(c)
BY DEF Admissible, Authenticated, HasRole

\* A step of a request changes no other request's stage, answer or breaker.
LEMMA OthersStay ==
  ASSUME GatewayTypeOK, NEW c \in Calls, Handle(c)
  PROVE  /\ UNCHANGED request
         /\ \A d \in Calls \ {c} : stage'[d] = stage[d] /\ answer'[d] = answer[d] /\ mine'[d] = mine[d]
<1> USE DEF GatewayTypeOK, GoesTo, Ends, counts, breakerVars
<1>1. CASE Admit(c)
  BY <1>1 DEF Admit
<1>2. CASE Allow(c)
  BY <1>2 DEF Allow
<1>3. CASE GetBreaker(c)
  BY <1>3 DEF GetBreaker, TestBreaker, MakeBreaker, ReadBreaker
<1>4. CASE CanAttempt(c)
  BY <1>4 DEF CanAttempt
<1>5. CASE CallBackend(c)
  BY <1>5 DEF CallBackend
<1>6. CASE LogCall(c) \/ RecordCall(c)
  BY <1>6 DEF LogCall, RecordCall, ReadRequests, WriteRequests
<1> QED BY <1>1, <1>2, <1>3, <1>4, <1>5, <1>6 DEF Handle

\* A request is admitted before it goes on, and answered before it is logged.
LEMMA StagesStep ==
  ASSUME GatewayTypeOK, StagesKept, NEW c \in Calls, Handle(c)
  PROVE  GatewayTypeOK' /\ StagesKept'
<1> USE GatewayAssumption DEF GatewayTypeOK, BeforeAnswer, Recording, GoesTo, Ends, counts, breakerVars
<1>a. \A d \in Calls : Admissible(d)' <=> Admissible(d)
  BY OthersStay, AdmissibleStays
<1>b. stage[c] \in BeforeAnswer \ {"router"} =>
        request[c].service \in Services /\ request[c].caller \in Clients
  BY AdmissibleKnown DEF StagesKept
<1>1. CASE Admit(c)
  <2>1. GatewayTypeOK'
    BY <1>1 DEF Admit
  <2>2. StagesKept'
    BY <1>1, <1>a DEF Admit, StagesKept, Admissible
  <2> QED BY <2>1, <2>2
<1>2. CASE Allow(c)
  <2>1. GatewayTypeOK'
    BY <1>2, <1>b DEF Allow
  <2>2. StagesKept'
    BY <1>2, <1>a DEF Allow, StagesKept
  <2> QED BY <2>1, <2>2
<1>3. CASE GetBreaker(c)
  <2>1. GatewayTypeOK'
    <3>1. CASE TestBreaker(c)
      BY <1>b, <3>1 DEF TestBreaker
    <3>2. CASE MakeBreaker(c)
      BY <1>b, <3>2 DEF MakeBreaker
    <3>3. CASE ReadBreaker(c)
      BY <1>b, <3>3 DEF ReadBreaker
    <3> QED BY <1>3, <3>1, <3>2, <3>3 DEF GetBreaker
  <2>2. StagesKept'
    <3>1. CASE TestBreaker(c)
      BY <1>a, <1>b, <3>1 DEF TestBreaker, StagesKept
    <3>2. CASE MakeBreaker(c)
      BY <1>a, <1>b, <3>2 DEF MakeBreaker, StagesKept
    <3>3. CASE ReadBreaker(c)
      BY <1>a, <1>b, <3>3 DEF ReadBreaker, StagesKept
    <3> QED BY <1>3, <3>1, <3>2, <3>3 DEF GetBreaker
  <2> QED BY <2>1, <2>2
<1>4. CASE CanAttempt(c)
  <2>1. GatewayTypeOK'
    BY <1>4 DEF CanAttempt
  <2>2. StagesKept'
    BY <1>4, <1>a DEF CanAttempt, StagesKept
  <2> QED BY <2>1, <2>2
<1>5. CASE CallBackend(c)
  <2>1. GatewayTypeOK'
    <3>1. PICK code \in {200, 404, 500} :
            /\ Ends(c, code)
            /\ RecordReply(c, code)
            /\ Counted(request[c].service, code >= 500)
      BY <1>5 DEF CallBackend
    <3>2. failures' \in [Calls -> Nat] /\ half' \in [Calls -> Nat]
          /\ state' \in [Calls -> {"CLOSED", "OPEN", "HALF_OPEN"}]
      <4>1. mine[c] \in Calls
        BY <1>5 DEF CallBackend, StagesKept
      <4>2. CASE Fails(mine[c])
        BY <4>1, <4>2 DEF Fails
      <4>3. CASE Succeeds(mine[c])
        BY <4>1, <4>3 DEF Succeeds
      <4> QED BY <3>1, <4>2, <4>3 DEF RecordReply
    <3>3. streak' \in [Services -> Nat]
      BY <3>1, <1>b, <1>5 DEF CallBackend, Counted
    <3>4. answer' \in [Calls -> Nat] /\ stage' \in [Calls -> BeforeAnswer \cup {"logger"} \cup Recording]
      BY <3>1
    <3>5. UNCHANGED <<calls_left, refills, request, total_requests, seen_total, breakers, mine>>
      BY <1>5 DEF CallBackend
    <3> QED BY <3>2, <3>3, <3>4, <3>5
  <2>2. StagesKept'
    BY <1>5, <1>a DEF CallBackend, StagesKept
  <2> QED BY <2>1, <2>2
<1>6. CASE LogCall(c) \/ RecordCall(c)
  <2>1. GatewayTypeOK'
    BY <1>6 DEF LogCall, RecordCall, ReadRequests, WriteRequests
  <2>2. StagesKept'
    BY <1>6, <1>a DEF LogCall, RecordCall, ReadRequests, WriteRequests, StagesKept
  <2> QED BY <2>1, <2>2
<1> QED BY <1>1, <1>2, <1>3, <1>4, <1>5, <1>6 DEF Handle

-----------------------------------------------------------------------------
(* The gateway: tokens, log entries and totals *)

Through(k) == {c \in Calls : request[c].caller = k /\ PastLimiter(c)}

\* Every token that is gone from a bucket let one call of its client through.
TokensKept ==
  \A k \in Clients :
    /\ IsFiniteSet(Through(k))
    /\ bucket_size + refills[k] - calls_left[k] = Cardinality(Through(k))

\* Nobody is through at first.
LEMMA TokensInit == ASSUME GatewayInit PROVE TokensKept
<1>1. \A k \in Clients : Through(k) = {}
  BY DEF GatewayInit, Through, PastLimiter
<1>2. \A k \in Clients : bucket_size + refills[k] - calls_left[k] = 0
  BY GatewayAssumption DEF GatewayInit
<1> QED BY <1>1, <1>2, FS_EmptySet DEF TokensKept

\* Only the limiter lets anybody through, and takes a token for it.
LEMMA TokensStep ==
  ASSUME GatewayTypeOK, StagesKept, TokensKept, NEW c \in Calls, Handle(c)
  PROVE  TokensKept'
<1> USE DEF GatewayTypeOK, BeforeAnswer, Recording, GoesTo, Ends, counts, breakerVars
<1>a. PastLimiter(c) <=> (Admissible(c) /\ stage[c] \notin {"router", "limiter"} /\ answer[c] # 429)
  BY DEF PastLimiter, Admissible
<1>b. PastLimiter(c)' <=> (Admissible(c) /\ stage'[c] \notin {"router", "limiter"} /\ answer'[c] # 429)
  <2>1. PastLimiter(c)' <=> (Admissible(c)' /\ stage'[c] \notin {"router", "limiter"} /\ answer'[c] # 429)
    BY DEF PastLimiter, Admissible
  <2>2. Admissible(c)' <=> Admissible(c)
    BY OthersStay, AdmissibleStays
  <2> QED BY <2>1, <2>2
<1>c. \A d \in Calls \ {c} : PastLimiter(d)' <=> PastLimiter(d)
  BY OthersStay, AdmissibleStays DEF PastLimiter, Admissible
<1>d. UNCHANGED request
  BY OthersStay
<1>1. ASSUME PastLimiter(c)' <=> PastLimiter(c), UNCHANGED <<calls_left, refills>>
      PROVE  TokensKept'
  <2>1. \A k \in Clients : Through(k)' = Through(k)
    BY <1>1, <1>c, <1>d DEF Through
  <2> QED BY <1>1, <2>1 DEF TokensKept
<1>2. CASE Admit(c)
  <2>1. PastLimiter(c)' <=> PastLimiter(c)
    BY <1>2, <1>a, <1>b DEF Admit, Admissible
  <2> QED BY <1>1, <1>2, <2>1 DEF Admit
<1>3. ASSUME Allow(c), calls_left[request[c].caller] >= 1 PROVE TokensKept'
  <2>1. Admissible(c) /\ request[c].caller \in Clients /\ answer[c] = 0
    BY <1>3, AdmissibleKnown DEF Allow, StagesKept
  <2> PICK k \in Clients : k = request[c].caller
    BY <2>1
  <2>2. Through(k)' = Through(k) \cup {c} /\ c \notin Through(k)
    <3>1. stage[c] = "limiter" /\ stage'[c] = "registry" /\ answer'[c] = 0
      BY <1>3, <2>1 DEF Allow
    <3>2. ~PastLimiter(c) /\ PastLimiter(c)'
      BY <1>a, <1>b, <2>1, <3>1
    <3>3. \A d \in Calls : d \in Through(k)' <=> d \in Through(k) \/ d = c
      BY <1>c, <1>d, <3>2 DEF Through
    <3> QED BY <3>2, <3>3 DEF Through
  <2>3. \A j \in Clients \ {k} : Through(j)' = Through(j)
    BY <1>c, <1>d DEF Through
  <2>4. IsFiniteSet(Through(k)') /\ Cardinality(Through(k)') = Cardinality(Through(k)) + 1
    <3> DEFINE T == Through(k)
               V == Through(k)'
    <3>1. IsFiniteSet(T)
      BY DEF TokensKept
    <3>2. V = T \cup {c} /\ c \notin T
      BY <2>2
    <3> HIDE DEF T, V
    <3>3. IsFiniteSet(V) /\ Cardinality(V) = Cardinality(T) + 1
      BY <3>1, <3>2, FS_AddElement
    <3> QED BY <3>3 DEF T, V
  <2>5. calls_left' = [calls_left EXCEPT ![k] = @ - 1] /\ UNCHANGED refills
    BY <1>3 DEF Allow
  <2>6. ASSUME NEW j \in Clients
        PROVE  /\ IsFiniteSet(Through(j)')
               /\ bucket_size + refills'[j] - calls_left'[j] = Cardinality(Through(j)')
    <3>1. CASE j = k
      <4>1. Cardinality(Through(k)) \in Nat
        BY <2>1, FS_CardinalityType DEF TokensKept
      <4>2. bucket_size + refills[k] - calls_left[k] = Cardinality(Through(k))
        BY <2>1 DEF TokensKept
      <4>3. calls_left'[k] = calls_left[k] - 1 /\ refills'[k] = refills[k]
        BY <2>1, <2>5
      <4>4. calls_left[k] \in Int /\ refills[k] \in Nat
        BY <2>1
      <4> QED BY <2>4, <3>1, <4>1, <4>2, <4>3, <4>4, GatewayAssumption
    <3>2. CASE j # k
      BY <2>3, <2>5, <3>2 DEF TokensKept
    <3> QED BY <3>1, <3>2
  <2> QED BY <2>6 DEF TokensKept
<1>4. ASSUME Allow(c), ~(calls_left[request[c].caller] >= 1) PROVE TokensKept'
  <2>1. PastLimiter(c)' <=> PastLimiter(c)
    BY <1>4, <1>a, <1>b DEF Allow
  <2> QED BY <1>1, <1>4, <2>1 DEF Allow
<1>5. CASE GetBreaker(c)
  <2>1. PastLimiter(c)' <=> PastLimiter(c)
    BY <1>5, <1>a, <1>b DEF GetBreaker, TestBreaker, MakeBreaker, ReadBreaker
  <2> QED BY <1>1, <1>5, <2>1 DEF GetBreaker, TestBreaker, MakeBreaker, ReadBreaker
<1>6. CASE CanAttempt(c)
  <2>1. PastLimiter(c)' <=> PastLimiter(c)
    BY <1>6, <1>a, <1>b DEF CanAttempt, StagesKept
  <2> QED BY <1>1, <1>6, <2>1 DEF CanAttempt
<1>7. CASE CallBackend(c)
  <2>1. PastLimiter(c)' <=> PastLimiter(c)
    BY <1>7, <1>a, <1>b DEF CallBackend, StagesKept
  <2> QED BY <1>1, <1>7, <2>1 DEF CallBackend
<1>8. CASE LogCall(c) \/ RecordCall(c)
  <2>1. PastLimiter(c)' <=> PastLimiter(c)
    BY <1>8, <1>a, <1>b DEF LogCall, RecordCall, ReadRequests, WriteRequests
  <2> QED BY <1>1, <1>8, <2>1 DEF LogCall, RecordCall, ReadRequests, WriteRequests
<1> QED BY <1>2, <1>3, <1>4, <1>5, <1>6, <1>7, <1>8 DEF Handle

\* A refill gives a token back and counts it.
LEMMA RefillStep ==
  ASSUME GatewayTypeOK, TokensKept, NEW k \in Clients, Refill(k)
  PROVE  GatewayTypeOK' /\ TokensKept'
<1>1. UNCHANGED <<request, stage, answer>>
  BY DEF Refill, counts
<1>2. \A j \in Clients : Through(j)' = Through(j)
  BY <1>1 DEF Through, PastLimiter, Authenticated, HasRole
<1>3. GatewayTypeOK'
  BY DEF Refill, GatewayTypeOK, counts, breakerVars
<1>4. \A j \in Clients : refills'[j] - calls_left'[j] = refills[j] - calls_left[j]
  BY DEF Refill, GatewayTypeOK
<1>5. \A j \in Clients : refills'[j] \in Nat /\ calls_left'[j] \in Int /\ refills[j] \in Nat /\ calls_left[j] \in Int
  BY <1>3 DEF GatewayTypeOK
<1> QED BY <1>2, <1>3, <1>4, <1>5, GatewayAssumption DEF TokensKept

\* Who has a log entry, and who is done with the total as well.
Logged   == {c \in Calls : stage[c] \in Recording}
Answered == {c \in Calls : stage[c] = "answered"}
Counting == {c \in Calls : stage[c] \in {"record", "total"}}

\* One entry for each who passed the logger, with its answer.
EntriesKept ==
  /\ logged = {<<c, answer[c]>> : c \in Logged}
  /\ IsFiniteSet(logged) /\ IsFiniteSet(Logged)
  /\ Cardinality(logged) = Cardinality(Logged)

\* The total and what is read of it count no request that is not through with it;
\* and if never two count at once it misses none.
TotalKept ==
  /\ total_requests <= Cardinality(Answered)
  /\ \A c \in Calls : stage[c] = "total" => seen_total[c] <= Cardinality(Answered)
  /\ ~crowded =>
       /\ \A c, d \in Counting : c = d
       /\ total_requests = Cardinality(Answered)
       /\ \A c \in Calls : stage[c] = "total" => seen_total[c] = total_requests

RecordsKept == EntriesKept /\ TotalKept

\* Those that are through with the total are some of those in the log.
LEMMA AnsweredCount ==
  ASSUME EntriesKept
  PROVE  /\ IsFiniteSet(Answered) /\ Cardinality(Answered) \in Nat
         /\ Cardinality(Answered) <= Cardinality(Logged)
<1>1. Answered \subseteq Logged
  BY DEF Answered, Logged, Recording
<1> QED BY <1>1, FS_Subset, FS_CardinalityType DEF EntriesKept

\* The log is empty at first.
LEMMA RecordsInit == ASSUME GatewayInit PROVE RecordsKept
<1>1. Logged = {} /\ Answered = {} /\ Counting = {}
  BY DEF GatewayInit, Logged, Answered, Counting, Recording
<1>2. EntriesKept
  BY <1>1, FS_EmptySet DEF GatewayInit, EntriesKept
<1>3. TotalKept
  BY <1>1, FS_EmptySet DEF GatewayInit, TotalKept
<1> QED BY <1>2, <1>3 DEF RecordsKept

\* Until a request is logged nothing of the records changes.
LEMMA RecordsUntouched ==
  ASSUME GatewayTypeOK, RecordsKept, NEW c \in Calls, Handle(c),
         stage[c] \notin Recording, stage'[c] \notin Recording,
         UNCHANGED <<logged, total_requests, seen_total, crowded>>
  PROVE  RecordsKept'
<1>1. \A d \in Calls \ {c} : stage'[d] = stage[d] /\ answer'[d] = answer[d]
  BY OthersStay
<1>2. Logged' = Logged /\ Answered' = Answered /\ Counting' = Counting
  BY <1>1 DEF Logged, Answered, Counting, Recording
<1>3. {<<d, answer'[d]>> : d \in Logged} = {<<d, answer[d]>> : d \in Logged}
  BY <1>1 DEF Logged
<1>4. EntriesKept'
  BY <1>2, <1>3 DEF RecordsKept, EntriesKept
<1>5. \A d \in Calls : stage'[d] = "total" <=> stage[d] = "total"
  BY <1>1 DEF Recording
<1> QED BY <1>2, <1>4, <1>5 DEF RecordsKept, TotalKept

\* The log entry is of a request that had none.
LEMMA LogStep ==
  ASSUME GatewayTypeOK, RecordsKept, NEW c \in Calls, LogCall(c)
  PROVE  RecordsKept'
<1> USE DEF RecordsKept
<1>1. /\ stage[c] = "logger" /\ stage' = [stage EXCEPT ![c] = "record"]
      /\ logged' = logged \cup {<<c, answer[c]>>}
      /\ crowded' = (crowded \/ Counting # {})
      /\ UNCHANGED <<answer, total_requests, seen_total>>
  BY DEF LogCall, GoesTo, Counting
<1>2. c \notin Logged /\ c \in Calls /\ Logged' = Logged \cup {c}
  BY <1>1 DEF Logged, Recording, GatewayTypeOK
<1>3. Answered' = Answered /\ Counting' = Counting \cup {c}
  BY <1>1 DEF Answered, Counting, GatewayTypeOK
<1>4. <<c, answer[c]>> \notin logged
  BY <1>2 DEF EntriesKept
<1>5. EntriesKept'
  <2>1. logged' = {<<d, answer'[d]>> : d \in Logged'}
    BY <1>1, <1>2 DEF EntriesKept
  <2>2. /\ IsFiniteSet(logged') /\ IsFiniteSet(Logged')
        /\ Cardinality(logged') = Cardinality(logged) + 1
        /\ Cardinality(Logged') = Cardinality(Logged) + 1
    BY <1>1, <1>2, <1>4, FS_AddElement DEF EntriesKept
  <2> QED BY <2>1, <2>2 DEF EntriesKept
<1>6. \A d \in Calls : stage'[d] = "total" <=> stage[d] = "total"
  BY <1>1 DEF GatewayTypeOK
<1>7. ~crowded' => ~crowded /\ \A d, e \in Counting' : d = e
  BY <1>1, <1>3
<1> QED BY <1>1, <1>3, <1>5, <1>6, <1>7 DEF TotalKept

\* The total that is written is what was read and one more.
LEMMA RecordStep ==
  ASSUME GatewayTypeOK, RecordsKept, NEW c \in Calls, RecordCall(c)
  PROVE  RecordsKept'
<1> USE DEF RecordsKept
<1>1. CASE ReadRequests(c)
  <2>1. /\ stage[c] = "record" /\ stage' = [stage EXCEPT ![c] = "total"]
        /\ seen_total' = [seen_total EXCEPT ![c] = total_requests]
        /\ UNCHANGED <<answer, logged, total_requests, crowded>>
    BY <1>1 DEF ReadRequests, GoesTo
  <2>2. Logged' = Logged /\ Answered' = Answered /\ Counting' = Counting
    BY <2>1 DEF Logged, Recording, Answered, Counting, GatewayTypeOK
  <2>3. EntriesKept'
    BY <2>1, <2>2 DEF EntriesKept
  <2>4. TotalKept'
    BY <2>1, <2>2 DEF TotalKept, GatewayTypeOK
  <2> QED BY <2>3, <2>4
<1>2. CASE WriteRequests(c)
  <2>1. /\ stage[c] = "total" /\ stage' = [stage EXCEPT ![c] = "answered"]
        /\ total_requests' = seen_total[c] + 1
        /\ UNCHANGED <<answer, logged, seen_total, crowded>>
    BY <1>2 DEF WriteRequests, GoesTo
  <2>2. Logged' = Logged /\ Answered' = Answered \cup {c} /\ c \notin Answered
    BY <2>1 DEF Logged, Recording, Answered, GatewayTypeOK
  <2>3. Counting' = Counting \ {c} /\ c \in Counting
    BY <2>1 DEF Counting, GatewayTypeOK
  <2>4. EntriesKept'
    BY <2>1, <2>2 DEF EntriesKept
  <2>5. Cardinality(Answered') = Cardinality(Answered) + 1 /\ Cardinality(Answered) \in Nat
    BY <2>2, AnsweredCount, FS_AddElement
  <2>6. \A d \in Calls : stage'[d] = "total" => stage[d] = "total" /\ d \in Counting' /\ d # c
    BY <2>1 DEF Counting, GatewayTypeOK
  <2>7. seen_total[c] \in Nat /\ \A d \in Calls : seen_total[d] \in Nat
    BY DEF GatewayTypeOK
  <2>8. TotalKept'
    BY <2>1, <2>3, <2>5, <2>6, <2>7 DEF TotalKept
  <2> QED BY <2>4, <2>8
<1> QED BY <1>1, <1>2 DEF RecordCall

\* Only the logger and the MetricsCollector touch the records.
LEMMA RecordsStep ==
  ASSUME GatewayTypeOK, RecordsKept, NEW c \in Calls, Handle(c)
  PROVE  RecordsKept'
<1> USE DEF GoesTo, Ends, counts, breakerVars, Recording, GatewayTypeOK
<1>1. CASE Admit(c)
  BY <1>1, RecordsUntouched DEF Admit
<1>2. CASE Allow(c)
  BY <1>2, RecordsUntouched DEF Allow
<1>3. CASE GetBreaker(c)
  BY <1>3, RecordsUntouched DEF GetBreaker, TestBreaker, MakeBreaker, ReadBreaker
<1>4. CASE CanAttempt(c)
  BY <1>4, RecordsUntouched DEF CanAttempt
<1>5. CASE CallBackend(c)
  BY <1>5, RecordsUntouched DEF CallBackend
<1> QED BY <1>1, <1>2, <1>3, <1>4, <1>5, LogStep, RecordStep DEF Handle

-----------------------------------------------------------------------------
(* The gateway: the registry and its breakers *)

\* A service that was given one breaker has that one: every call to it goes through
\* that one, and no other counts failures.
OneBreakerKept ==
  \A s \in Services \ twice :
    \A c \in Calls : request[c].service = s =>
      /\ stage[c] \in {"breaker", "backend"} => mine[c] = breakers[s]
      /\ failures[c] <= streak[s]
      /\ c # breakers[s] => failures[c] = 0
      /\ state[c] # "CLOSED" => s \in failed_enough

\* Who was turned away met a breaker that was not closed; and the breaker of a call
\* is one of its own service.
TurnedAwayKept ==
  \A c \in Calls :
    /\ answer[c] = 503 => request[c].service \in twice \cup failed_enough
    /\ mine[c] # NoBreaker => request[mine[c]].service = request[c].service

\* A breaker in the registry is of the service it is under.
RegistryKept ==
  \A s \in Services : breakers[s] # NoBreaker => request[breakers[s]].service = s

BreakersKept == OneBreakerKept /\ TurnedAwayKept /\ RegistryKept

\* No service has a breaker at first.
LEMMA BreakersInit == ASSUME GatewayInit PROVE BreakersKept
BY DEF GatewayInit, BreakersKept, OneBreakerKept, TurnedAwayKept, RegistryKept, BreakerIds

\* What leaves the breakers alone, and turns nobody away, keeps what is said of them.
LEMMA BreakersUntouched ==
  ASSUME GatewayTypeOK, BreakersKept, NEW c \in Calls, Handle(c), UNCHANGED breakerVars,
         stage'[c] \notin {"breaker", "backend"},
         answer'[c] = 503 => answer[c] = 503
  PROVE  BreakersKept'
<1>1. UNCHANGED request /\ \A d \in Calls \ {c} : stage'[d] = stage[d] /\ answer'[d] = answer[d]
  BY OthersStay
<1>2. /\ UNCHANGED <<breakers, mine, failures, state, streak, failed_enough, twice>>
      /\ Services' = Services
  BY DEF breakerVars, Services
<1>3. OneBreakerKept'
  BY <1>1, <1>2 DEF BreakersKept, OneBreakerKept
<1>4. TurnedAwayKept'
  BY <1>1, <1>2 DEF BreakersKept, TurnedAwayKept
<1>5. RegistryKept'
  BY <1>1, <1>2 DEF BreakersKept, RegistryKept
<1> QED BY <1>3, <1>4, <1>5 DEF BreakersKept

\* A breaker that is made is the first of its service, or the service is known to
\* have been given two.
LEMMA MakeStep ==
  ASSUME GatewayTypeOK, StagesKept, BreakersKept, NEW c \in Calls, MakeBreaker(c)
  PROVE  BreakersKept'
<1> USE GatewayAssumption DEF BreakersKept
<1> PICK s \in Services : s = request[c].service
  BY AdmissibleKnown DEF MakeBreaker, StagesKept, BeforeAnswer
<1>1. /\ breakers' = [breakers EXCEPT ![s] = c] /\ stage' = [stage EXCEPT ![c] = "read"]
      /\ twice' = IF breakers[s] = NoBreaker THEN twice ELSE twice \cup {s}
      /\ UNCHANGED <<request, answer, mine, failures, state, streak, failed_enough>>
  BY DEF MakeBreaker, GoesTo, counts
<1>2. OneBreakerKept'
  <2> SUFFICES ASSUME NEW t \in Services, t \notin twice', NEW d \in Calls, request[d].service = t
               PROVE  /\ stage'[d] \in {"breaker", "backend"} => mine[d] = breakers'[t]
                      /\ failures[d] <= streak[t]
                      /\ d # breakers'[t] => failures[d] = 0
                      /\ state[d] # "CLOSED" => t \in failed_enough
    BY <1>1 DEF OneBreakerKept
  <2>1. t \notin twice /\ (t = s => breakers[s] = NoBreaker)
    BY <1>1
  <2>2. stage'[d] \in {"breaker", "backend"} => stage[d] = stage'[d]
    BY <1>1 DEF GatewayTypeOK
  <2>3. CASE t = s
    BY <1>1, <2>1, <2>2, <2>3 DEF OneBreakerKept, StagesKept, GatewayTypeOK
  <2>4. CASE t # s
    BY <1>1, <2>1, <2>2, <2>4 DEF OneBreakerKept, GatewayTypeOK
  <2> QED BY <2>3, <2>4
<1>3. TurnedAwayKept'
  BY <1>1 DEF TurnedAwayKept
<1>4. RegistryKept'
  BY <1>1 DEF RegistryKept, GatewayTypeOK
<1> QED BY <1>2, <1>3, <1>4

\* A call takes the breaker that the registry has.
LEMMA ReadStep ==
  ASSUME GatewayTypeOK, StagesKept, BreakersKept, NEW c \in Calls, ReadBreaker(c)
  PROVE  BreakersKept'
<1> USE GatewayAssumption DEF BreakersKept, GatewayTypeOK
<1> PICK s \in Services : s = request[c].service
  BY AdmissibleKnown DEF ReadBreaker, StagesKept, BeforeAnswer
<1>1. /\ mine' = [mine EXCEPT ![c] = breakers[s]] /\ stage' = [stage EXCEPT ![c] = "breaker"]
      /\ UNCHANGED <<request, answer, breakers, failures, state, streak, failed_enough, twice>>
  BY DEF ReadBreaker, GoesTo, counts
<1>2. OneBreakerKept'
  BY <1>1 DEF OneBreakerKept
<1>3. TurnedAwayKept'
  BY <1>1 DEF TurnedAwayKept, RegistryKept
<1>4. RegistryKept'
  BY <1>1 DEF RegistryKept
<1> QED BY <1>2, <1>3, <1>4

\* A breaker is only not closed when its service has failed often enough.
LEMMA AttemptStep ==
  ASSUME GatewayTypeOK, StagesKept, BreakersKept, NEW c \in Calls, CanAttempt(c)
  PROVE  BreakersKept'
<1> USE GatewayAssumption DEF BreakersKept, GatewayTypeOK
<1> PICK s \in Services : s = request[c].service
  BY AdmissibleKnown DEF CanAttempt, StagesKept, BeforeAnswer
<1> PICK b \in Calls : b = mine[c]
  BY DEF CanAttempt, StagesKept
<1>1. request[b].service = s
  BY DEF TurnedAwayKept
<1>2. /\ stage[c] = "breaker" /\ stage' = [stage EXCEPT ![c] = stage'[c]]
      /\ answer' = [answer EXCEPT ![c] = answer'[c]]
      /\ answer'[c] = 503 => answer[c] = 503 \/ state[b] = "OPEN"
      /\ state' = [state EXCEPT ![b] = state'[b]]
      /\ state'[b] # "CLOSED" => state[b] # "CLOSED"
      /\ UNCHANGED <<request, mine, breakers, failures, streak, failed_enough, twice>>
  BY DEF CanAttempt, GoesTo, Ends, counts
<1>3. OneBreakerKept'
  BY <1>2 DEF OneBreakerKept
<1>4. TurnedAwayKept'
  BY <1>1, <1>2 DEF TurnedAwayKept, OneBreakerKept
<1>5. RegistryKept'
  BY <1>2 DEF RegistryKept
<1> QED BY <1>3, <1>4, <1>5

\* The count of a service's only breaker never runs ahead of its failures in a row.
LEMMA BackendStep ==
  ASSUME GatewayTypeOK, StagesKept, BreakersKept, NEW c \in Calls, CallBackend(c)
  PROVE  BreakersKept'
<1> USE GatewayAssumption DEF BreakersKept, GatewayTypeOK
<1> PICK s \in Services : s = request[c].service
  BY AdmissibleKnown DEF CallBackend, StagesKept, BeforeAnswer
<1> PICK b \in Calls : b = mine[c]
  BY DEF CallBackend, StagesKept
<1>1. request[b].service = s
  BY DEF TurnedAwayKept
<1>2. PICK reply \in {200, 404, 500} : Ends(c, reply) /\ RecordReply(c, reply) /\ Counted(s, reply >= 500)
  BY DEF CallBackend
<1>3. /\ stage[c] = "backend" /\ stage' = [stage EXCEPT ![c] = "logger"]
      /\ answer' = [answer EXCEPT ![c] = reply]
      /\ UNCHANGED <<request, mine, breakers, twice>>
  BY <1>2 DEF CallBackend, GoesTo, Ends, counts
<1>4. /\ \A d \in Calls \ {b} : failures'[d] = failures[d] /\ state'[d] = state[d]
      /\ \A t \in Services \ {s} : streak'[t] = streak[t]
      /\ failed_enough \subseteq failed_enough'
  <2>1. CASE reply >= 500
    BY <1>2, <2>1 DEF RecordReply, Fails, Counted
  <2>2. CASE ~(reply >= 500)
    BY <1>2, <2>2 DEF RecordReply, Succeeds, Counted
  <2> QED BY <2>1, <2>2
<1>5. failures[b] <= streak[s] =>
        /\ failures'[b] <= streak'[s]
        /\ state'[b] # "CLOSED" => state[b] # "CLOSED" \/ s \in failed_enough'
  <2>1. CASE reply >= 500
    BY <1>2, <2>1 DEF RecordReply, Fails, Counted
  <2>2. CASE ~(reply >= 500)
    BY <1>2, <2>2 DEF RecordReply, Succeeds, Counted
  <2> QED BY <2>1, <2>2
<1>6. failures'[b] \in Nat /\ streak'[s] \in Nat
  BY <1>2 DEF RecordReply, Fails, Succeeds, Counted
<1>7. \A d \in Calls : request[d].service = s /\ s \notin twice /\ d # b => failures[d] = 0
  BY <1>1, <1>3 DEF OneBreakerKept
<1>8. OneBreakerKept'
  <2> SUFFICES ASSUME NEW t \in Services, t \notin twice, NEW d \in Calls, request[d].service = t
               PROVE  /\ stage'[d] \in {"breaker", "backend"} => mine[d] = breakers[t]
                      /\ failures'[d] <= streak'[t]
                      /\ d # breakers[t] => failures'[d] = 0
                      /\ state'[d] # "CLOSED" => t \in failed_enough'
    BY <1>3 DEF OneBreakerKept
  <2>1. stage'[d] \in {"breaker", "backend"} => mine[d] = breakers[t]
    BY <1>3 DEF OneBreakerKept
  <2>2. CASE d = b
    BY <1>1, <1>3, <1>4, <1>5, <2>1, <2>2 DEF OneBreakerKept
  <2>3. CASE d # b /\ t = s
    BY <1>3, <1>4, <1>6, <1>7, <2>1, <2>3 DEF OneBreakerKept
  <2>4. CASE d # b /\ t # s
    BY <1>3, <1>4, <2>1, <2>4 DEF OneBreakerKept
  <2> QED BY <2>2, <2>3, <2>4
<1>9. TurnedAwayKept'
  BY <1>3, <1>4 DEF TurnedAwayKept
<1>10. RegistryKept'
  BY <1>3 DEF RegistryKept
<1> QED BY <1>8, <1>9, <1>10

\* Only these steps touch the breakers.
LEMMA BreakersStep ==
  ASSUME GatewayTypeOK, StagesKept, BreakersKept, NEW c \in Calls, Handle(c)
  PROVE  BreakersKept'
<1> USE DEF GoesTo, Ends, counts, GatewayTypeOK
<1>1. CASE Admit(c)
  BY <1>1, BreakersUntouched DEF Admit
<1>2. CASE Allow(c)
  BY <1>2, BreakersUntouched DEF Allow
<1>3. CASE TestBreaker(c)
  BY <1>3, BreakersUntouched DEF TestBreaker
<1>4. CASE LogCall(c)
  BY <1>4, BreakersUntouched DEF LogCall
<1>5. CASE RecordCall(c)
  BY <1>5, BreakersUntouched DEF RecordCall, ReadRequests, WriteRequests
<1> QED BY <1>1, <1>2, <1>3, <1>4, <1>5, MakeStep, ReadStep, AttemptStep, BackendStep
        DEF Handle, GetBreaker

-----------------------------------------------------------------------------
(* The gateway as a whole *)

GatewayInv == GatewayTypeOK /\ StagesKept /\ TokensKept /\ RecordsKept /\ BreakersKept

\* All requests are at the router.
LEMMA GatewayInitInv == ASSUME GatewayInit PROVE GatewayInv
<1>1. GatewayTypeOK
  BY GatewayAssumption DEF GatewayInit, GatewayTypeOK, BeforeAnswer, BreakerIds
<1>2. StagesKept
  BY DEF GatewayInit, StagesKept, BeforeAnswer
<1> QED BY <1>1, <1>2, TokensInit, RecordsInit, BreakersInit DEF GatewayInv

\* Whatever stage whatever request takes next.
LEMMA GatewayStep ==
  ASSUME GatewayInv, [GatewayNext]_gatewayVars
  PROVE  GatewayInv'
<1> USE DEF GatewayInv
<1>1. ASSUME NEW c \in Calls, Handle(c) PROVE GatewayInv'
  BY <1>1, StagesStep, TokensStep, RecordsStep, BreakersStep
<1>2. ASSUME NEW k \in Clients, Refill(k) PROVE GatewayInv'
  <2>1. UNCHANGED <<request, stage, answer, logged, total_requests, seen_total, crowded, breakerVars>>
    BY <1>2 DEF Refill, counts
  <2>2. StagesKept'
    BY <2>1 DEF StagesKept, Admissible, Authenticated, HasRole, breakerVars
  <2>3. RecordsKept'
    BY <2>1 DEF RecordsKept, EntriesKept, TotalKept, Logged, Answered, Counting
  <2>4. BreakersKept'
    BY <2>1 DEF BreakersKept, OneBreakerKept, TurnedAwayKept, RegistryKept, breakerVars
  <2> QED BY <1>2, <2>2, <2>3, <2>4, RefillStep
<1>3. CASE UNCHANGED gatewayVars
  <2> USE <1>3 DEF gatewayVars
  <2>1. GatewayTypeOK'
    BY DEF GatewayTypeOK
  <2>2. StagesKept'
    BY DEF StagesKept, Admissible, Authenticated, HasRole
  <2>3. TokensKept'
    BY DEF TokensKept, Through, PastLimiter, Authenticated, HasRole
  <2>4. RecordsKept'
    BY DEF RecordsKept, EntriesKept, TotalKept, Logged, Answered, Counting
  <2>5. BreakersKept'
    BY DEF BreakersKept, OneBreakerKept, TurnedAwayKept, RegistryKept
  <2> QED BY <2>1, <2>2, <2>3, <2>4, <2>5
<1> QED BY <1>1, <1>2, <1>3 DEF GatewayNext

\* What the pipeline keeps follows.
LEMMA GatewayInvHolds == ASSUME GatewayInv PROVE PipelineKept
<1> USE DEF GatewayInv, GatewayTypeOK, RecordsKept
<1>1. \A c \in Calls : stage[c] \in {"record", "total", "answered"} =>
        {l \in logged : l[1] = c} = {<<c, answer[c]>>}
  BY DEF EntriesKept, Logged, Recording
<1>2. \A k \in Clients :
        bucket_size + refills[k] - calls_left[k]
          = Cardinality({c \in Calls : request[c].caller = k /\ PastLimiter(c)})
  BY DEF TokensKept, Through
<1>3. total_requests <= Cardinality(logged)
  BY AnsweredCount, FS_CardinalityType DEF EntriesKept, TotalKept
<1>4. ~crowded /\ (\A c \in Calls : stage[c] \notin {"record", "total"}) =>
        total_requests = Cardinality(logged)
  <2>1. (\A c \in Calls : stage[c] \notin {"record", "total"}) => Answered = Logged
    BY DEF Answered, Logged, Recording
  <2> QED BY <2>1 DEF EntriesKept, TotalKept
<1>5. ShortCircuitEarned
  BY DEF ShortCircuitEarned, BreakersKept, TurnedAwayKept
<1> QED BY <1>1, <1>2, <1>3, <1>4, <1>5 DEF PipelineKept, EachAccountedFor

-----------------------------------------------------------------------------
(* The index: what a live document's current source says is in the postings    *)
(* and the keyword entries, whatever earlier versions left there.              *)

\* The documents that were indexed since the index was made.
Indexed == {d \in Ids : times[d] > 0}

SearchTypeOK ==
  /\ index \in {"absent", "mapped", "dynamic"}
  /\ Live \subseteq Indexed
  /\ \A d \in Live : documents[d].source \in Sources
  /\ term_freq \in [Terms -> [Ids -> Nat]]
  /\ total_docs \in Nat
  /\ keyword_fields \in [Keywords -> SUBSET Ids]
  /\ times \in [Ids -> Nat]

\* The words and keywords of document d's source.
WordsOf(d) == ToSet(TextOf(documents[d].source, index))
KeywordsOf(d) == KeysOf(documents[d].source, index)

\* The inverted index has every document under its words and its keywords, and one
\* that was indexed once under no others.
FoundByText ==
  \A d \in Live :
    /\ WordsOf(d) \subseteq Terms /\ KeywordsOf(d) \subseteq Keywords
    /\ \A t \in WordsOf(d) : term_freq[t][d] > 0
    /\ \A k \in KeywordsOf(d) : d \in keyword_fields[k]
    /\ times[d] = 1 =>
         /\ \A t \in Terms : term_freq[t][d] > 0 => t \in WordsOf(d)
         /\ \A k \in Keywords : d \in keyword_fields[k] => k \in KeywordsOf(d)

OnlyIndexed ==
  /\ \A d \in Ids \ Indexed :
       /\ \A t \in Terms : term_freq[t][d] = 0
       /\ \A k \in Keywords : d \notin keyword_fields[k]
  /\ IsFiniteSet(Indexed) /\ Cardinality(Indexed) <= total_docs

SearchInv ==
  /\ SearchTypeOK /\ FoundByText /\ OnlyIndexed
  /\ index = "absent" => Live = {}

\* An index without documents.
LEMMA EmptyIndex ==
  ASSUME documents = <<>>, total_docs = 0, index \in {"absent", "mapped", "dynamic"},
         term_freq = [t \in Terms |-> [d \in Ids |-> 0]],
         keyword_fields = [k \in Keywords |-> {}], times = [d \in Ids |-> 0]
  PROVE  SearchInv
<1>1. Live = {} /\ Indexed = {}
  BY DEF Live, Indexed
<1>2. SearchTypeOK
  BY <1>1 DEF SearchTypeOK
<1>3. OnlyIndexed
  BY <1>1, FS_EmptySet DEF OnlyIndexed
<1> QED BY <1>1, <1>2, <1>3 DEF SearchInv, FoundByText

LEMMA TextIs ==
  ASSUME NEW s \in Sources, NEW kind
  PROVE  /\ TextOf(s, kind) \in Seq(Terms) /\ ToSet(TextOf(s, kind)) \subseteq Terms
         /\ KeysOf(s, kind) \subseteq Keywords
         /\ \A t \in Terms : /\ Occurrences(t, TextOf(s, kind)) \in Nat
                             /\ Occurrences(t, TextOf(s, kind)) > 0
                                  <=> t \in ToSet(TextOf(s, kind))
<1> DEFINE name == s.name
           more == s.description
           rest == IF kind = "dynamic" THEN <<lower[s.category]>> ELSE <<>>
           text == TextOf(s, kind)
<1>1. name \in Seq(Terms) /\ more \in Seq(Terms) /\ lower[s.category] \in Terms
  BY SearchAssumption DEF Terms
<1>2. rest \in Seq(Terms)
  BY <1>1
<1>3. text = (name \o more) \o rest
  BY DEF TextOf
<1>4. KeysOf(s, kind) \subseteq Keywords
  BY DEF KeysOf, Keywords, Categories, Prices
<1> HIDE DEF name, more, rest
<1>5. text \in Seq(Terms)
  <2>1. name \o more \in Seq(Terms)
    BY <1>1, ConcatProperties
  <2> QED BY <1>2, <1>3, <2>1, ConcatProperties
<1> HIDE DEF text
<1>6. ToSet(text) \subseteq Terms /\ DOMAIN text = 1..Len(text) /\ Len(text) \in Nat
  BY <1>5 DEF ToSet
<1>7. ASSUME NEW t \in Terms
      PROVE  Occurrences(t, text) \in Nat /\ (Occurrences(t, text) > 0 <=> t \in ToSet(text))
  <2> DEFINE P == {i \in DOMAIN text : text[i] = t}
  <2>1. P \subseteq 1..Len(text) /\ IsFiniteSet(1..Len(text))
    BY <1>6, FS_Interval
  <2>2. P # {} <=> t \in ToSet(text)
    BY DEF ToSet
  <2>3. Occurrences(t, text) = Cardinality(P)
    BY DEF Occurrences
  <2> HIDE DEF P
  <2>4. IsFiniteSet(P)
    BY <2>1, FS_Subset
  <2>5. Cardinality(P) \in Nat /\ (Cardinality(P) = 0 <=> P = {})
    BY <2>4, FS_CardinalityType, FS_EmptySet
  <2> QED BY <2>2, <2>3, <2>5
<1> QED BY <1>4, <1>5, <1>6, <1>7 DEF text

LEMMA IndexStep ==
  ASSUME SearchInv, NEW d \in Ids, NEW s \in Sources, IndexDocument(d, s)
  PROVE  SearchInv'
<1> DEFINE kind == IF index = "absent" THEN "dynamic" ELSE index
           text == TextOf(s, kind)
           keys == KeysOf(s, kind)
           words == ToSet(text)
<1>1. /\ index' = kind /\ total_docs' = total_docs + 1
      /\ term_freq' = [t \in Terms |-> [term_freq[t] EXCEPT ![d] = @ + Occurrences(t, text)]]
      /\ keyword_fields' = [k \in Keywords |-> keyword_fields[k] \cup (IF k \in keys THEN {d} ELSE {})]
      /\ times' = [times EXCEPT ![d] = @ + 1]
  BY DEF IndexDocument, AddDocument, AddKeys
<1>2. /\ Live' = Live \cup {d} /\ documents'[d].source = s
      /\ \A e \in Live \ {d} : documents'[e] = documents[e]
  <2> DEFINE new == [source |-> s,
                     version |-> IF d \in DOMAIN documents THEN documents[d].version + 1 ELSE 1]
  <2>1. documents' = [e \in DOMAIN documents \cup {d} |-> IF e = d THEN new ELSE documents[e]]
    BY DEF IndexDocument
  <2>2. new.source = s
    OBVIOUS
  <2> HIDE DEF new
  <2> QED BY <2>1, <2>2 DEF Live
<1>3. SearchTypeOK
  BY DEF SearchInv
<1>4. /\ words \subseteq Terms /\ keys \subseteq Keywords
      /\ \A t \in Terms : Occurrences(t, text) \in Nat /\ (Occurrences(t, text) > 0 <=> t \in words)
  BY TextIs
<1> DEFINE more == [t \in Terms |-> Occurrences(t, text)]
<1>5. \A t \in Terms : more[t] \in Nat /\ (more[t] > 0 <=> t \in words)
  BY <1>4
<1>6. term_freq' = [t \in Terms |-> [term_freq[t] EXCEPT ![d] = @ + more[t]]]
  BY <1>1
<1>7. index # "absent" => kind = index
  OBVIOUS
<1>8. kind \in {"mapped", "dynamic"}
  BY <1>3 DEF SearchTypeOK
<1>a. index # "absent" \/ Live = {}
  BY DEF SearchInv
<1>b. WordsOf(d)' = words /\ KeywordsOf(d)' = keys
  BY <1>1, <1>2 DEF WordsOf, KeywordsOf, TextOf, KeysOf
<1>c. \A e \in Live \ {d} : WordsOf(e)' = WordsOf(e) /\ KeywordsOf(e)' = KeywordsOf(e)
  BY <1>1, <1>2, <1>7, <1>a DEF WordsOf, KeywordsOf, TextOf, KeysOf
<1> HIDE DEF kind, text, keys, words, more
<1>d. /\ term_freq' \in [Terms -> [Ids -> Nat]]
      /\ \A t \in Terms : /\ term_freq'[t][d] = term_freq[t][d] + more[t]
                          /\ term_freq[t][d] \in Nat
                          /\ \A e \in Ids \ {d} : term_freq'[t][e] = term_freq[t][e]
  BY <1>3, <1>5, <1>6 DEF SearchTypeOK
<1>e. /\ keyword_fields' \in [Keywords -> SUBSET Ids]
      /\ \A k \in Keywords : /\ d \in keyword_fields'[k] <=> d \in keyword_fields[k] \/ k \in keys
                             /\ \A e \in Ids \ {d} : e \in keyword_fields'[k] <=> e \in keyword_fields[k]
  BY <1>1, <1>3 DEF SearchTypeOK
<1>f. /\ times' \in [Ids -> Nat] /\ times'[d] = times[d] + 1 /\ times[d] \in Nat
      /\ \A e \in Ids \ {d} : times'[e] = times[e]
  BY <1>1, <1>3 DEF SearchTypeOK
<1>g. Indexed' = Indexed \cup {d} /\ Live \subseteq Ids /\ Live \subseteq Indexed
  BY <1>3, <1>f DEF Indexed, SearchTypeOK
<1>9. SearchTypeOK'
  <2>1. \A e \in Live' : documents'[e].source \in Sources
    BY <1>2, <1>3 DEF SearchTypeOK
  <2> QED BY <1>1, <1>2, <1>3, <1>8, <1>d, <1>e, <1>f, <1>g, <2>1 DEF SearchTypeOK
<1>10. FoundByText'
  <2> SUFFICES ASSUME NEW e \in Live'
               PROVE  /\ WordsOf(e)' \subseteq Terms /\ KeywordsOf(e)' \subseteq Keywords
                      /\ \A t \in WordsOf(e)' : term_freq'[t][e] > 0
                      /\ \A k \in KeywordsOf(e)' : e \in keyword_fields'[k]
                      /\ times'[e] = 1 =>
                           /\ \A t \in Terms : term_freq'[t][e] > 0 => t \in WordsOf(e)'
                           /\ \A k \in Keywords : e \in keyword_fields'[k] => k \in KeywordsOf(e)'
    BY DEF FoundByText
  <2>1. CASE e = d
    <3>1. times'[e] = 1 => d \in Ids \ Indexed
      BY <1>f, <2>1 DEF Indexed
    <3>2. times'[e] = 1 => /\ \A t \in Terms : term_freq[t][d] = 0
                           /\ \A k \in Keywords : d \notin keyword_fields[k]
      BY <3>1 DEF SearchInv, OnlyIndexed
    <3>3. \A t \in words : term_freq'[t][d] > 0
      BY <1>4, <1>5, <1>d
    <3>4. times'[e] = 1 => \A t \in Terms : term_freq'[t][d] > 0 => t \in words
      BY <1>5, <1>d, <3>2
    <3>5. \A k \in keys : d \in keyword_fields'[k]
      BY <1>4, <1>e
    <3>6. times'[e] = 1 => \A k \in Keywords : d \in keyword_fields'[k] => k \in keys
      BY <1>e, <3>2
    <3> QED BY <1>4, <1>b, <2>1, <3>3, <3>4, <3>5, <3>6
  <2>2. CASE e # d
    <3>1. e \in Live \ {d} /\ e \in Ids \ {d}
      BY <1>2, <1>g, <2>2
    <3>2. WordsOf(e)' = WordsOf(e) /\ KeywordsOf(e)' = KeywordsOf(e) /\ times'[e] = times[e]
      BY <1>c, <1>f, <3>1
    <3> QED BY <1>d, <1>e, <3>1, <3>2 DEF SearchInv, FoundByText
  <2> QED BY <2>1, <2>2
<1>11. OnlyIndexed'
  <2>1. IsFiniteSet(Indexed) /\ Cardinality(Indexed) <= total_docs /\ total_docs \in Nat
    BY <1>3 DEF SearchInv, OnlyIndexed, SearchTypeOK
  <2> DEFINE I == Indexed
             J == Indexed'
  <2>2. J = I \cup {d}
    BY <1>g
  <2> HIDE DEF I, J
  <2>3. IsFiniteSet(J) /\ Cardinality(J) <= Cardinality(I) + 1 /\ Cardinality(I) \in Nat /\ Cardinality(J) \in Nat
    <3>1. IsFiniteSet(I)
      BY <2>1 DEF I
    <3>2. /\ IsFiniteSet(I \cup {d})
          /\ Cardinality(I \cup {d}) = IF d \in I THEN Cardinality(I) ELSE Cardinality(I) + 1
      BY <3>1, FS_AddElement
    <3>3. IsFiniteSet(J)
      BY <2>2, <3>2
    <3>4. Cardinality(I) \in Nat /\ Cardinality(J) \in Nat
      BY <3>1, <3>3, FS_CardinalityType
    <3> QED BY <2>2, <3>2, <3>3, <3>4
  <2>4. IsFiniteSet(J) /\ Cardinality(J) <= total_docs'
    BY <1>1, <2>1, <2>3 DEF I
  <2>5. \A e \in Ids \ J : e # d /\ e \in Ids \ Indexed
    BY <2>2 DEF I
  <2>6. \A e \in Ids \ J : /\ \A t \in Terms : term_freq'[t][e] = 0
                           /\ \A k \in Keywords : e \notin keyword_fields'[k]
    BY <1>d, <1>e, <2>5 DEF SearchInv, OnlyIndexed
  <2> QED BY <2>4, <2>6 DEF OnlyIndexed, J
<1>12. index' # "absent"
  BY <1>1, <1>8
<1> QED BY <1>9, <1>10, <1>11, <1>12 DEF SearchInv

LEMMA SearchStep ==
  ASSUME SearchInv, [SearchNext]_<<indexVars, typedVars>>
  PROVE  SearchInv'
<1>1. CASE UNCHANGED indexVars
  <2>1. UNCHANGED <<index, documents, term_freq, total_docs, keyword_fields, times>>
    BY <1>1 DEF indexVars
  <2>2. Live' = Live /\ Indexed' = Indexed /\ \A d : WordsOf(d)' = WordsOf(d) /\ KeywordsOf(d)' = KeywordsOf(d)
    BY <2>1 DEF Live, Indexed, WordsOf, KeywordsOf, TextOf, KeysOf
  <2> QED BY <2>1, <2>2 DEF SearchInv, SearchTypeOK, FoundByText, OnlyIndexed
<1>2. CASE CreateIndex
  <2>1. /\ documents' = <<>> /\ total_docs' = 0 /\ index' = "mapped"
        /\ term_freq' = [t \in Terms |-> [d \in Ids |-> 0]]
        /\ keyword_fields' = [k \in Keywords |-> {}] /\ times' = [d \in Ids |-> 0]
    BY <1>2 DEF CreateIndex, Empty
  <2>2. Live' = {} /\ Indexed' = {}
    BY <2>1 DEF Live, Indexed
  <2>3. SearchTypeOK'
    BY <2>1, <2>2 DEF SearchTypeOK
  <2>4. OnlyIndexed'
    BY <2>1, <2>2, FS_EmptySet DEF OnlyIndexed
  <2> QED BY <2>1, <2>2, <2>3, <2>4 DEF SearchInv, FoundByText
<1>3. ASSUME NEW d \in Ids, DeleteDocument(d) PROVE SearchInv'
  <2>1. /\ documents' = [e \in Live \ {d} |-> documents[e]]
        /\ UNCHANGED <<index, term_freq, total_docs, keyword_fields, times>>
    BY <1>3 DEF DeleteDocument, Restrict, Live
  <2>2. Live' = Live \ {d} /\ \A e \in Live' : documents'[e] = documents[e]
    BY <2>1 DEF Live
  <2>3. /\ Indexed' = Indexed
        /\ \A e \in Live' : WordsOf(e)' = WordsOf(e) /\ KeywordsOf(e)' = KeywordsOf(e)
    BY <2>1, <2>2 DEF Indexed, WordsOf, KeywordsOf, TextOf, KeysOf
  <2>4. SearchTypeOK' /\ OnlyIndexed'
    BY <2>1, <2>2, <2>3 DEF SearchInv, SearchTypeOK, OnlyIndexed
  <2>5. FoundByText'
    BY <2>1, <2>2, <2>3 DEF SearchInv, FoundByText
  <2> QED BY <2>1, <2>2, <2>4, <2>5 DEF SearchInv
<1> QED BY <1>1, <1>2, <1>3, IndexStep
        DEF SearchNext, ESIndex, AutocompleteEngine, Typing, IndexText, Type

\* What a query made of one clause finds: every live document that answers it, and
\* of those indexed once only these.
LEMMA AtomFinds ==
  ASSUME SearchInv, NEW q \in Atoms, NEW d \in Live
  PROVE  /\ q.kind # "bool"
         /\ Answers(d, q) => d \in Scores(q)
         /\ times[d] = 1 => (d \in Scores(q) <=> Answers(d, q))
<1>1. /\ d \in Ids /\ documents[d].source \in Sources /\ WordsOf(d) \subseteq Terms
      /\ \A t \in WordsOf(d) : term_freq[t][d] > 0
      /\ \A k \in KeywordsOf(d) : d \in keyword_fields[k]
      /\ times[d] = 1 =>
           /\ \A t \in Terms : term_freq[t][d] > 0 => t \in WordsOf(d)
           /\ \A k \in Keywords : d \in keyword_fields[k] => k \in KeywordsOf(d)
  BY DEF SearchInv, SearchTypeOK, FoundByText, Indexed
<1>2. CASE \E k \in {"match", "match_phrase"}, t \in Pairs : q = [kind |-> k, terms |-> t]
  <2>1. q.kind \in {"match", "match_phrase"} /\ q.terms \subseteq Terms
    BY <1>2 DEF Pairs
  <2>2. CASE q.kind = "match"
    <3>1. Scores(q) = UNION {Postings(t) : t \in q.terms}
      BY <2>2 DEF Scores, SearchAny
    <3>2. Answers(d, q) <=> q.terms \cap WordsOf(d) # {}
      BY <2>2 DEF Answers, WordsOf
    <3>3. d \in Scores(q) <=> \E t \in q.terms : term_freq[t][d] > 0
      BY <1>1, <3>1 DEF Postings
    <3> QED BY <1>1, <2>1, <2>2, <3>2, <3>3
  <2>3. CASE q.kind = "match_phrase"
    <3>1. Scores(q) = SearchAll(q.terms)
      BY <2>3 DEF Scores
    <3>2. Answers(d, q) <=> q.terms # {} /\ q.terms \subseteq WordsOf(d)
      BY <2>3 DEF Answers, WordsOf
    <3>3. d \in Scores(q) <=> q.terms # {} /\ \A t \in q.terms : term_freq[t][d] > 0
      BY <1>1, <3>1 DEF Postings, SearchAll
    <3> QED BY <1>1, <2>1, <2>3, <3>2, <3>3
  <2> QED BY <2>1, <2>2, <2>3
<1>3. CASE \E v \in Categories : q = [kind |-> "terms", keys |-> {<<"category", v>>}]
  <2>1. q.kind = "terms" /\ q.keys \subseteq Keywords
    BY <1>3 DEF Keywords
  <2>2. Scores(q) = UNION {keyword_fields[k] : k \in q.keys}
    BY <2>1 DEF Scores
  <2>3. Answers(d, q) <=> q.keys \cap KeywordsOf(d) # {}
    BY <2>1 DEF Answers, KeywordsOf
  <2>4. d \in Scores(q) <=> \E k \in q.keys : d \in keyword_fields[k]
    BY <2>2
  <2> QED BY <1>1, <2>1, <2>3, <2>4
<1>4. CASE \E p \in Prices : q = [kind |-> "range", gte |-> 0, lt |-> p]
  <2>1. q.kind = "range"
    BY <1>4
  <2>2. Scores(q) = {e \in Live : q.gte <= documents[e].source.price /\ documents[e].source.price < q.lt}
    BY <2>1 DEF Scores
  <2>3. Answers(d, q) <=> q.gte <= documents[d].source.price /\ documents[d].source.price < q.lt
    BY <2>1 DEF Answers
  <2> QED BY <2>1, <2>2, <2>3
<1> QED BY <1>2, <1>3, <1>4 DEF Atoms

\* The clauses of a bool query, each an atom, without should.
LEMMA BoolFinds ==
  ASSUME SearchInv, NEW d \in Live, NEW must \in SUBSET Atoms, NEW filter \in SUBSET Atoms,
         NEW must_not \in SUBSET Atoms, NEW q,
         q = [kind |-> "bool", must |-> must, filter |-> filter, must_not |-> must_not, should |-> {}]
  PROVE  /\ must_not = {} /\ d \in Wanted(q) => d \in Execute(q)
         /\ times[d] = 1 => (d \in Execute(q) <=> d \in Wanted(q))
<1>1. /\ q.kind = "bool" /\ q.must = must /\ q.filter = filter /\ q.must_not = must_not /\ q.should = {}
  OBVIOUS
<1>2. d \in Ids
  BY DEF SearchInv, SearchTypeOK, Indexed
<1>3. d \in Wanted(q) <=> /\ \A c \in must \cup filter : Answers(d, c)
                          /\ \A c \in must_not : ~Answers(d, c)
  BY <1>1 DEF Wanted, AnswersBool
<1>4. d \in Execute(q) <=> /\ \A c \in must \cup filter : d \in Scores(c)
                           /\ \A c \in must_not : d \notin Scores(c)
  <2>1. d \in Execute(q) <=> d \in Bool(q)
    BY <1>1 DEF Execute
  <2>2. Bool(q) = {e \in IF must = {} THEN Live ELSE {e \in Ids : \A c \in must : e \in Scores(c)} :
                     /\ \A c \in filter : e \in Scores(c)
                     /\ \A c \in must_not : e \notin Scores(c)}
    BY <1>1 DEF Bool
  <2> QED BY <1>2, <2>1, <2>2
<1>5. \A c \in must \cup filter \cup must_not :
        /\ Answers(d, c) => d \in Scores(c)
        /\ times[d] = 1 => (d \in Scores(c) <=> Answers(d, c))
  BY AtomFinds
<1> QED BY <1>3, <1>4, <1>5

LEMMA SearchInvHolds == ASSUME SearchInv PROVE FindsMatches
<1>1. ASSUME NEW q \in Atoms, NEW d \in Live
      PROVE  /\ d \in Wanted(q) => d \in Execute(q)
             /\ times[d] = 1 => (d \in Execute(q) <=> d \in Wanted(q))
  BY AtomFinds DEF Wanted, Execute
<1>2. ASSUME NEW q \in Clauses, NEW d \in Live
      PROVE  /\ d \in Wanted(q) => d \in Execute(q)
             /\ times[d] = 1 => (d \in Execute(q) <=> d \in Wanted(q))
  <2>1. PICK m \in {{}} \cup {{a} : a \in Atoms}, b \in Atoms :
               q = [kind |-> "bool", must |-> m, filter |-> {b}, must_not |-> {}, should |-> {}]
    BY DEF Clauses
  <2>2. m \in SUBSET Atoms /\ {b} \in SUBSET Atoms /\ {} \in SUBSET Atoms
    BY <2>1
  <2> QED BY <2>1, <2>2, BoolFinds
<1>3. ASSUME NEW q \in Exclusions, NEW d \in Live
      PROVE  times[d] = 1 => (d \in Execute(q) <=> d \in Wanted(q))
  <2>1. PICK a \in Atoms, b \in Atoms :
               q = [kind |-> "bool", must |-> {a}, filter |-> {}, must_not |-> {b}, should |-> {}]
    BY DEF Exclusions
  <2>2. {a} \in SUBSET Atoms /\ {b} \in SUBSET Atoms /\ {} \in SUBSET Atoms
    BY <2>1
  <2> QED BY <2>1, <2>2, BoolFinds
<1>4. ASSUME NEW t \in Terms PROVE DocFrequency(t) <= total_docs
  <2> DEFINE P == Postings(t)
             I == Indexed
  <2>1. P \subseteq I
    BY DEF Postings, SearchInv, OnlyIndexed
  <2>2. IsFiniteSet(I) /\ Cardinality(I) <= total_docs /\ total_docs \in Nat
    BY DEF SearchInv, OnlyIndexed, SearchTypeOK
  <2> HIDE DEF P, I
  <2>3. IsFiniteSet(P) /\ Cardinality(P) <= Cardinality(I)
    BY <2>1, <2>2, FS_Subset
  <2>4. Cardinality(P) \in Nat /\ Cardinality(I) \in Nat
    BY <2>2, <2>3, FS_CardinalityType
  <2>5. Cardinality(P) <= total_docs
    BY <2>2, <2>3, <2>4
  <2> QED BY <2>5 DEF DocFrequency, P
<1>5. \A q : Execute(q) \subseteq Live /\ Wanted(q) \subseteq Live
  BY DEF Execute, Wanted
<1> QED BY <1>1, <1>2, <1>3, <1>4, <1>5 DEF FindsMatches

-----------------------------------------------------------------------------
(* Sums *)

\* A set of numbers has a least one, and Min is it.
LEMMA LeastOf ==
  ASSUME NEW P \in SUBSET Nat, P # {}
  PROVE  Min(P) \in P /\ \A m \in P : Min(P) <= m
<1> DEFINE R == OpToRel(<, Nat)
<1>1. PICK n \in P : \A m \in P : <<m, n>> \notin R
  <2>1. IsWellFoundedOn(R, Nat)
    BY NatLessThanWellFounded
  <2> HIDE DEF R
  <2> QED BY <2>1, WFMin
<1>2. \A m \in P : ~(m < n)
  <2>1. \A m \in P : <<m, n>> \in R <=> m < n
    BY DEF OpToRel
  <2> QED BY <1>1, <2>1
<1>3. \E x \in P : \A y \in P : x <= y
  BY <1>2
<1> QED BY <1>3 DEF Min

SumOver(f, S) == FoldFunctionOnSet(+, 0, f, S)

AnyOf(T) == CHOOSE x \in T : TRUE
SumTable(f, S, g) ==
  [T \in SUBSET S |-> IF T = {} THEN 0 ELSE f[AnyOf(T)] + g[T \ {AnyOf(T)}]]

TableOf(f, S) == CHOOSE g : g = SumTable(f, S, g)

\* A sum is an entry of the table of the sums of all parts.
LEMMA SumUnfolds == \A f, S : SumOver(f, S) = TableOf(f, S)[S]
BY DEF SumOver, FoldFunctionOnSet, MapThenFoldSet, TableOf, SumTable, AnyOf

\* Among some parts of a finite set one has no other inside it.
LEMMA SmallestSet ==
  ASSUME NEW S, IsFiniteSet(S), NEW Bad \in SUBSET SUBSET S, Bad # {}
  PROVE  \E T \in Bad : \A U \in SUBSET T : U # T => U \notin Bad
<1> DEFINE Sizes == {Cardinality(T) : T \in Bad}
<1>1. \A T \in SUBSET S : IsFiniteSet(T) /\ Cardinality(T) \in Nat
  BY FS_Subset, FS_CardinalityType
<1>2. Min(Sizes) \in Sizes /\ \A m \in Sizes : Min(Sizes) <= m
  <2>1. Sizes \in SUBSET Nat /\ Sizes # {}
    BY <1>1
  <2> QED BY <2>1, LeastOf
<1>3. PICK T \in Bad : \A U \in Bad : Cardinality(T) <= Cardinality(U)
  BY <1>2
<1>4. ASSUME NEW U \in SUBSET T, U # T, U \in Bad PROVE FALSE
  <2>1. Cardinality(U) < Cardinality(T)
    BY <1>1, <1>4, FS_Subset
  <2> QED BY <1>1, <1>3, <1>4, <2>1
<1> QED BY <1>4

\* There is such a table: an entry takes only that of a smaller part.
LEMMA SumTableExists ==
  ASSUME NEW S, IsFiniteSet(S), NEW f
  PROVE  \E g : g = SumTable(f, S, g)
<1> DEFINE UpTo(n) == {T \in SUBSET S : Cardinality(T) <= n}
           Entry(g, T) == IF T = {} THEN 0 ELSE f[AnyOf(T)] + g[T \ {AnyOf(T)}]
           Bad == {n \in Nat : ~ \E g : g = [T \in UpTo(n) |-> Entry(g, T)]}
<1>1. \A T \in SUBSET S : IsFiniteSet(T) /\ Cardinality(T) \in Nat
  BY FS_Subset, FS_CardinalityType
<1>2. \A T \in SUBSET S : T # {} =>
        Cardinality(T \ {AnyOf(T)}) = Cardinality(T) - 1 /\ Cardinality(T) # 0
  <2> TAKE T \in SUBSET S
  <2>1. T # {} => AnyOf(T) \in T
    BY DEF AnyOf
  <2> QED BY <1>1, <2>1, FS_RemoveElement, FS_EmptySet
<1>3. Bad = {}
  <2> SUFFICES ASSUME Bad # {} PROVE FALSE
    OBVIOUS
  <2> DEFINE n == Min(Bad)
  <2>1. n \in Bad /\ \A m \in Bad : n <= m
    BY LeastOf
  <2>2. PICK h : n # 0 => h = [T \in UpTo(n - 1) |-> Entry(h, T)]
    <3>1. CASE n = 0
      BY <3>1
    <3>2. CASE n # 0
      <4>1. n - 1 \in Nat /\ ~ (n <= n - 1) /\ n \in Nat
        <5>1. n \in Nat
          BY <2>1
        <5> HIDE DEF n
        <5> QED BY <3>2, <5>1
      <4>2. n - 1 \notin Bad
        <5> HIDE DEF Bad, n
        <5> QED BY <2>1, <4>1
      <4> QED BY <4>1, <4>2
    <3> QED BY <3>1, <3>2
  <2> DEFINE g == [T \in UpTo(n) |-> Entry(h, T)]
  <2>3. \A T \in UpTo(n) : Entry(h, T) = Entry(g, T)
    <3> TAKE T \in UpTo(n)
    <3>1. CASE T = {}
      BY <3>1
    <3>2. CASE T # {}
      <4> DEFINE U == T \ {AnyOf(T)}
      <4>1. n # 0 /\ U \in UpTo(n - 1) /\ U \in UpTo(n)
        BY <1>1, <1>2, <2>1, <3>2
      <4>2. h[U] = Entry(h, U) /\ g[U] = Entry(h, U)
        <5> HIDE DEF Entry
        <5> QED BY <2>2, <4>1
      <4> QED BY <3>2, <4>2
    <3> QED BY <3>1, <3>2
  <2>4. g = [T \in UpTo(n) |-> Entry(g, T)]
    <3> HIDE DEF Entry
    <3> QED BY <2>3
  <2> HIDE DEF g, Entry
  <2> QED BY <2>1, <2>4
<1>4. Cardinality(S) \in Nat /\ UpTo(Cardinality(S)) = SUBSET S
  <2>1. \A T \in SUBSET S : Cardinality(T) <= Cardinality(S)
    BY FS_Subset
  <2> QED BY <1>1, <2>1
<1>5. \E g : g = [T \in UpTo(Cardinality(S)) |-> Entry(g, T)]
  <2> HIDE DEF Entry, UpTo
  <2> QED BY <1>3, <1>4
<1> QED BY <1>4, <1>5 DEF SumTable

\* The sum of a set is that of its parts, in whatever order they are taken.
LEMMA SumParts ==
  ASSUME NEW S, IsFiniteSet(S), NEW f, \A x \in S : f[x] \in Int
  PROVE  \A T \in SUBSET S :
           /\ SumOver(f, T) \in Int
           /\ T = {} => SumOver(f, T) = 0
           /\ \A x \in T : SumOver(f, T) = f[x] + SumOver(f, T \ {x})
<1>1. \A T \in SUBSET S : TableOf(f, T) = SumTable(f, T, TableOf(f, T)) /\ SumOver(f, T) = TableOf(f, T)[T]
  <2> TAKE T \in SUBSET S
  <2>1. IsFiniteSet(T)
    BY FS_Subset
  <2> QED BY <2>1, SumTableExists, SumUnfolds DEF TableOf
<1>2. \A T \in SUBSET S, U \in SUBSET S :
        U \in SUBSET T =>
          TableOf(f, T)[U] = IF U = {} THEN 0 ELSE f[AnyOf(U)] + TableOf(f, T)[U \ {AnyOf(U)}]
  <2> TAKE T \in SUBSET S, U \in SUBSET S
  <2> HAVE U \in SUBSET T
  <2> QED BY <1>1 DEF SumTable
<1>3. \A T \in SUBSET S, U \in SUBSET S : U \in SUBSET T => TableOf(f, T)[U] = SumOver(f, U)
  <2> SUFFICES ASSUME NEW T \in SUBSET S PROVE \A U \in SUBSET T : TableOf(f, T)[U] = SumOver(f, U)
    OBVIOUS
  <2> DEFINE BadPairs == {U \in SUBSET T : \E V \in SUBSET T : U \in SUBSET V /\ TableOf(f, V)[U] # TableOf(f, T)[U]}
  <2>1. BadPairs = {}
    <3> SUFFICES ASSUME BadPairs # {} PROVE FALSE
      OBVIOUS
    <3>0. IsFiniteSet(T)
      BY FS_Subset
    <3>9. BadPairs \in SUBSET SUBSET T
      OBVIOUS
    <3>1. PICK U \in BadPairs : \A W \in SUBSET U : W # U => W \notin BadPairs
      <4> HIDE DEF BadPairs
      <4> QED BY <3>0, <3>9, SmallestSet
    <3>2. PICK V \in SUBSET T : U \in SUBSET V /\ TableOf(f, V)[U] # TableOf(f, T)[U]
      OBVIOUS
    <3>3. U # {}
      <4> QED BY <1>2, <3>2
    <3>4. U \ {AnyOf(U)} # U
      BY <3>3 DEF AnyOf
    <3>5. TableOf(f, V)[U \ {AnyOf(U)}] = TableOf(f, T)[U \ {AnyOf(U)}]
      <4> QED BY <3>1, <3>2, <3>4
    <3> QED BY <1>2, <3>2, <3>3, <3>5
  <2> QED BY <1>1, <2>1
<1>4. \A T \in SUBSET S :
        SumOver(f, T) = IF T = {} THEN 0 ELSE f[AnyOf(T)] + SumOver(f, T \ {AnyOf(T)})
  <2> TAKE T \in SUBSET S
  <2>1. TableOf(f, T)[T] = SumOver(f, T) /\ TableOf(f, T)[T \ {AnyOf(T)}] = SumOver(f, T \ {AnyOf(T)})
    BY <1>3
  <2> QED BY <1>2, <2>1
<1>5. /\ SumOver(f, {}) = 0
      /\ \A T \in SUBSET S : T # {} =>
           AnyOf(T) \in T /\ SumOver(f, T) = f[AnyOf(T)] + SumOver(f, T \ {AnyOf(T)})
  BY <1>4 DEF AnyOf
<1>6. \A T \in SUBSET S : SumOver(f, T) \in Int
  <2> DEFINE Bad == {T \in SUBSET S : SumOver(f, T) \notin Int}
  <2> SUFFICES ASSUME Bad # {} PROVE FALSE
    OBVIOUS
  <2>0. Bad \in SUBSET SUBSET S
    OBVIOUS
  <2>1. PICK T \in Bad : \A U \in SUBSET T : U # T => U \notin Bad
    <3> HIDE DEF Bad
    <3> QED BY <2>0, SmallestSet
  <2>2. T # {}
    <3>1. 0 \in Int
      OBVIOUS
    <3>2. SumOver(f, {}) \in Int
      BY <1>5, <3>1, Zenon
    <3> QED BY <3>2
  <2>3. SumOver(f, T \ {AnyOf(T)}) \in Int
    BY <1>5, <2>1, <2>2
  <2> QED BY <1>5, <2>2, <2>3
<1>7. \A T \in SUBSET S : \A x \in T : SumOver(f, T) = f[x] + SumOver(f, T \ {x})
  <2> DEFINE Bad == {T \in SUBSET S : \E x \in T : SumOver(f, T) # f[x] + SumOver(f, T \ {x})}
  <2> SUFFICES ASSUME Bad # {} PROVE FALSE
    OBVIOUS
  <2>0. Bad \in SUBSET SUBSET S
    OBVIOUS
  <2>1. PICK T \in Bad : \A U \in SUBSET T : U # T => U \notin Bad
    <3> HIDE DEF Bad
    <3> QED BY <2>0, SmallestSet
  <2>2. PICK x \in T : SumOver(f, T) # f[x] + SumOver(f, T \ {x})
    OBVIOUS
  <2> DEFINE c == AnyOf(T)
  <2>3. c \in T /\ SumOver(f, T) = f[c] + SumOver(f, T \ {c}) /\ c # x
    BY <1>5, <2>2
  <2>4. SumOver(f, T \ {c}) = f[x] + SumOver(f, (T \ {c}) \ {x})
    <3>1. T \ {c} \notin Bad /\ x \in T \ {c} /\ T \ {c} \in SUBSET S
      BY <2>1, <2>3
    <3> QED BY <3>1
  <2>5. SumOver(f, T \ {x}) = f[c] + SumOver(f, (T \ {x}) \ {c})
    <3>1. T \ {x} \notin Bad /\ c \in T \ {x} /\ T \ {x} \in SUBSET S
      BY <2>1, <2>2, <2>3
    <3> QED BY <3>1
  <2>6. (T \ {c}) \ {x} = (T \ {x}) \ {c}
    OBVIOUS
  <2> DEFINE r == SumOver(f, (T \ {x}) \ {c})
  <2>7. r \in Int /\ f[c] \in Int /\ f[x] \in Int
    <3>1. (T \ {x}) \ {c} \in SUBSET S
      OBVIOUS
    <3> QED BY <1>6, <2>3, <3>1
  <2>8. f[c] + (f[x] + r) = f[x] + (f[c] + r)
    <3> HIDE DEF r, c
    <3> QED BY <2>7
  <2> QED BY <2>2, <2>3, <2>4, <2>5, <2>6, <2>8
<1> QED BY <1>5, <1>6, <1>7

-----------------------------------------------------------------------------
(* Facets *)

HitsIn(hits, some) == {d \in hits : documents[d].source.category \in some}

\* The counts of some values add up to the hits that have one of them.
LEMMA BucketsAddUp ==
  ASSUME NEW hits, IsFiniteSet(hits), NEW values, IsFiniteSet(values), NEW f,
         \A v \in values : f[v] = Cardinality(HitsIn(hits, {v})),
         NEW some \in SUBSET values
  PROVE  TotalOf(f, some) = Cardinality(HitsIn(hits, some))
<1> DEFINE Bad == {C \in SUBSET values : SumOver(f, C) # Cardinality(HitsIn(hits, C))}
<1>1. \A C : IsFiniteSet(HitsIn(hits, C)) /\ Cardinality(HitsIn(hits, C)) \in Nat
  <2> TAKE C
  <2>1. HitsIn(hits, C) \in SUBSET hits
    BY DEF HitsIn
  <2> QED BY <2>1, FS_Subset, FS_CardinalityType
<1>2. \A v \in values : f[v] = Cardinality(HitsIn(hits, {v})) /\ f[v] \in Int
  BY <1>1
<1>3. \A C \in SUBSET values :
        /\ SumOver(f, C) \in Int /\ (C = {} => SumOver(f, C) = 0)
        /\ \A v \in C : SumOver(f, C) = f[v] + SumOver(f, C \ {v})
  <2>1. \A v \in values : f[v] \in Int
    BY <1>2
  <2> QED BY <2>1, SumParts
<1>4. Bad = {}
  <2> SUFFICES ASSUME Bad # {} PROVE FALSE
    OBVIOUS
  <2>0. Bad \in SUBSET SUBSET values
    OBVIOUS
  <2>1. PICK C \in Bad : \A U \in SUBSET C : U # C => U \notin Bad
    <3> HIDE DEF Bad
    <3> QED BY <2>0, SmallestSet
  <2>2. C \in SUBSET values /\ SumOver(f, C) # Cardinality(HitsIn(hits, C))
    BY <2>0
  <2>3. C # {}
    <3> SUFFICES ASSUME C = {} PROVE FALSE
      OBVIOUS
    <3>1. HitsIn(hits, C) = {}
      BY DEF HitsIn
    <3> QED BY <1>3, <2>2, <3>1, FS_EmptySet
  <2>4. PICK v : v \in C
    BY <2>3
  <2> DEFINE R == C \ {v}
  <2>5. SumOver(f, R) = Cardinality(HitsIn(hits, R)) /\ R \in SUBSET values
    <3>1. R \in SUBSET C /\ R # C /\ R \in SUBSET values
      BY <2>2, <2>4
    <3>2. R \notin Bad
      BY <2>1, <3>1
    <3> QED BY <3>1, <3>2
  <2>6. HitsIn(hits, C) = HitsIn(hits, R) \cup HitsIn(hits, {v}) /\ HitsIn(hits, R) \cap HitsIn(hits, {v}) = {}
    BY <2>4 DEF HitsIn
  <2> HIDE DEF R, Bad
  <2>7. Cardinality(HitsIn(hits, C)) = Cardinality(HitsIn(hits, R)) + Cardinality(HitsIn(hits, {v}))
    <3> DEFINE A == HitsIn(hits, R)
               B == HitsIn(hits, {v})
    <3>1. IsFiniteSet(A) /\ IsFiniteSet(B) /\ Cardinality(A) \in Nat /\ Cardinality(B) \in Nat
      BY <1>1
    <3> HIDE DEF A, B
    <3>2. Cardinality(A \cup B) = Cardinality(A) + Cardinality(B) - Cardinality(A \cap B)
      BY <3>1, FS_Union
    <3>3. A \cap B = {} => Cardinality(A \cap B) = 0
      BY FS_EmptySet
    <3>4. A \cap B = {} => Cardinality(A \cup B) = Cardinality(A) + Cardinality(B)
      BY <3>1, <3>2, <3>3
    <3> QED BY <2>6, <3>4 DEF A, B
  <2>8. SumOver(f, C) = f[v] + SumOver(f, R)
    BY <1>3, <2>2, <2>4 DEF R
  <2>9. f[v] = Cardinality(HitsIn(hits, {v})) /\ Cardinality(HitsIn(hits, R)) \in Nat /\ Cardinality(HitsIn(hits, {v})) \in Nat
    BY <1>1, <1>2, <2>2, <2>4
  <2> QED BY <2>2, <2>5, <2>7, <2>8, <2>9
<1>5. SumOver(f, some) = Cardinality(HitsIn(hits, some))
  BY <1>4
<1> QED BY <1>5 DEF TotalOf, SumOver

\* A finite set of numbers has a greatest one, and Max is it.
LEMMA GreatestOf ==
  ASSUME NEW P \in SUBSET Nat, IsFiniteSet(P), P # {}
  PROVE  Max(P) \in P /\ \A m \in P : m <= Max(P)
<1> DEFINE Above(x) == {y \in P : y > x}
           Sizes == {Cardinality(Above(x)) : x \in P}
<1>1. \A x : IsFiniteSet(Above(x)) /\ Cardinality(Above(x)) \in Nat
  <2> TAKE x
  <2>1. Above(x) \in SUBSET P
    OBVIOUS
  <2> HIDE DEF Above
  <2> QED BY <2>1, FS_Subset, FS_CardinalityType
<1>2. PICK x \in P : \A y \in P : Cardinality(Above(x)) <= Cardinality(Above(y))
  <2>1. Sizes \in SUBSET Nat /\ Sizes # {}
    BY <1>1
  <2>2. Min(Sizes) \in Sizes /\ \A m \in Sizes : Min(Sizes) <= m
    <3> HIDE DEF Sizes
    <3> QED BY <2>1, LeastOf
  <2> QED BY <2>2
<1>3. Above(x) = {}
  <2> SUFFICES ASSUME NEW y \in Above(x) PROVE FALSE
    OBVIOUS
  <2>1. y \in P /\ y > x
    OBVIOUS
  <2>2. Above(y) \in SUBSET Above(x) /\ Above(y) # Above(x)
    <3>1. y \notin Above(y) /\ y \in Above(x)
      BY <2>1
    <3>2. \A z \in P : z > y => z > x
      BY <2>1
    <3> QED BY <3>1, <3>2
  <2> DEFINE A == Above(x)
             B == Above(y)
  <2>3. Cardinality(A) <= Cardinality(B) /\ IsFiniteSet(A) /\ B \in SUBSET A /\ B # A
        /\ Cardinality(A) \in Nat /\ Cardinality(B) \in Nat
    BY <1>1, <1>2, <2>1, <2>2
  <2> HIDE DEF A, B
  <2>4. Cardinality(B) <= Cardinality(A) /\ Cardinality(B) # Cardinality(A)
    BY <2>3, FS_Subset
  <2> QED BY <2>3, <2>4
<1>4. \E z \in P : \A y \in P : z >= y
  <2>1. \A y \in P : x >= y
    BY <1>3
  <2> QED BY <2>1
<1> QED BY <1>4 DEF Max

\* A filter leaves, of what a query finds, what the filter scores.
LEMMA NarrowedFinds ==
  ASSUME SearchInv, NEW q, q.kind # "bool", NEW f
  PROVE  Execute(Narrowed(q, f)) = {d \in Execute(q) : d \in Scores(f)}
<1> DEFINE n == Narrowed(q, f)
<1>1. n.kind = "bool" /\ n.must = {q} /\ n.filter = {f} /\ n.must_not = {} /\ n.should = {}
  BY DEF Narrowed
<1>2. Live \subseteq Ids
  BY DEF SearchInv, SearchTypeOK, Indexed
<1> HIDE DEF n
<1>3. Bool(n) = {d \in Ids : d \in Scores(q) /\ d \in Scores(f)}
  BY <1>1 DEF Bool
<1>4. Execute(n) = {d \in Live : d \in Bool(n)} /\ Execute(q) = {d \in Live : d \in Scores(q)}
  BY <1>1 DEF Execute
<1>5. Execute(n) = {d \in Execute(q) : d \in Scores(f)}
  BY <1>2, <1>3, <1>4
<1> QED BY <1>5 DEF n

\* Every facet counts what drilling down into it finds.
LEMMA FacetsHold == ASSUME SearchInv PROVE FacetsDrillDown
<1>1. /\ IsFiniteSet(Live)
      /\ \A d \in Live : /\ documents[d].source.category \in Categories
                         /\ documents[d].source \in Sources
  <2>1. IsFiniteSet(Live)
    <3>1. Live \in SUBSET Indexed /\ IsFiniteSet(Indexed)
      BY DEF SearchInv, SearchTypeOK, OnlyIndexed
    <3> QED BY <3>1, FS_Subset
  <2>3. \A d \in Live : documents[d].source \in Sources
    BY DEF SearchInv, SearchTypeOK
  <2> QED BY <2>1, <2>3 DEF Categories
<1>2. ASSUME NEW hits \in SUBSET Live
      PROVE  /\ IsFiniteSet(hits) /\ Cardinality(hits) \in Nat
             /\ IsFiniteSet(Values(hits)) /\ Cardinality(Values(hits)) \in Nat
             /\ \A v \in Values(hits) : Counts(hits)[v] = Cardinality(HitsIn(hits, {v}))
  <2>1. IsFiniteSet(hits) /\ Cardinality(hits) \in Nat
    BY <1>1, FS_Subset, FS_CardinalityType
  <2>2. IsFiniteSet(Values(hits))
    <3> DEFINE g == [d \in hits |-> documents[d].source.category]
    <3>1. g \in Surjection(hits, Values(hits))
      BY DEF Surjection, Values
    <3> QED BY <2>1, <3>1, FS_Surjection
  <2>3. \A v \in Values(hits) : Counts(hits)[v] = Cardinality(HitsIn(hits, {v}))
    <3> TAKE v \in Values(hits)
    <3>1. {d \in hits : documents[d].source.category = v} = HitsIn(hits, {v})
      BY DEF HitsIn
    <3>2. Counts(hits)[v] = Cardinality({d \in hits : documents[d].source.category = v})
      BY DEF Counts
    <3> QED BY <3>1, <3>2, Zenon
  <2> QED BY <2>1, <2>2, <2>3, FS_CardinalityType
<1>3. \A q \in Atoms : q.kind # "bool" /\ Execute(q) \in SUBSET Live
  BY DEF Atoms, Execute
<1>4. ASSUME NEW q \in Atoms, NEW agg \in TermsAgg(Execute(q))
      PROVE  /\ \A v \in DOMAIN agg :
                  LET drilled == Execute(Narrowed(q, [kind |-> "terms", keys |-> {<<"category", v>>}]))
                  IN  index = "mapped" =>
                        /\ agg[v] <= Cardinality(drilled)
                        /\ (\A d \in drilled : times[d] = 1) => agg[v] = Cardinality(drilled)
             /\ TotalOf(agg, DOMAIN agg) <= Cardinality(Execute(q))
             /\ TotalOf(agg, DOMAIN agg) = Cardinality(Execute(q))
                  <=> Cardinality(Values(Execute(q))) <= agg_size
  <2> DEFINE hits == Execute(q)
  <2>1. hits \in SUBSET Live
    BY <1>3
  <2>2. PICK B \in SUBSET Values(hits) :
          /\ agg = Restrict(Counts(hits), B)
          /\ Cardinality(B) = Min({agg_size, Cardinality(Values(hits))})
    BY DEF TermsAgg
  <2>3. DOMAIN agg = B /\ \A v \in B : agg[v] = Cardinality(HitsIn(hits, {v}))
    BY <1>2, <2>1, <2>2 DEF Restrict
  <2>4. ASSUME NEW v \in B, index = "mapped"
        PROVE  LET drilled == Execute(Narrowed(q, [kind |-> "terms", keys |-> {<<"category", v>>}]))
               IN  /\ agg[v] <= Cardinality(drilled)
                   /\ (\A d \in drilled : times[d] = 1) => agg[v] = Cardinality(drilled)
    <3> DEFINE filter == [kind |-> "terms", keys |-> {<<"category", v>>}]
               drilled == Execute(Narrowed(q, filter))
               key == <<"category", v>>
    <3>1. Scores(filter) = keyword_fields[key]
      BY DEF Scores
    <3>2. drilled = {d \in hits : d \in keyword_fields[key]}
      BY <1>3, <3>1, NarrowedFinds
    <3>3. v \in Categories /\ key \in Keywords
      BY <1>1, <2>1 DEF Values, Keywords
    <3>4. \A d \in Live : key \in KeywordsOf(d) <=> documents[d].source.category = v
      BY <2>4 DEF KeywordsOf, KeysOf
    <3>5. HitsIn(hits, {v}) \in SUBSET drilled
      BY <2>1, <3>2, <3>4 DEF HitsIn, SearchInv, FoundByText
    <3>6. (\A d \in drilled : times[d] = 1) => drilled \in SUBSET HitsIn(hits, {v})
      BY <2>1, <3>2, <3>3, <3>4 DEF HitsIn, SearchInv, FoundByText
    <3>7. IsFiniteSet(drilled)
      BY <1>2, <2>1, <3>2, FS_Subset
    <3> DEFINE H == HitsIn(hits, {v})
    <3>8. agg[v] = Cardinality(H) /\ H \in SUBSET drilled
      BY <2>3, <3>5
    <3>9. (\A d \in drilled : times[d] = 1) => drilled = H
      BY <3>5, <3>6
    <3> HIDE DEF H, drilled
    <3>10. Cardinality(H) <= Cardinality(drilled)
      BY <3>7, <3>8, FS_Subset
    <3>11. /\ agg[v] <= Cardinality(drilled)
           /\ (\A d \in drilled : times[d] = 1) => agg[v] = Cardinality(drilled)
      BY <3>8, <3>9, <3>10
    <3> QED BY <3>11 DEF drilled
  <2> DEFINE in == HitsIn(hits, B)
             all == Values(hits)
  <2>5. TotalOf(agg, DOMAIN agg) = Cardinality(in)
    <3>1. IsFiniteSet(hits) /\ IsFiniteSet(B)
      BY <1>2, <2>1, FS_Subset
    <3>2. TotalOf(agg, B) = Cardinality(HitsIn(hits, B))
      BY <2>3, <3>1, BucketsAddUp
    <3> QED BY <2>3, <3>2
  <2>6. in \in SUBSET hits /\ IsFiniteSet(hits) /\ B \in SUBSET all /\ IsFiniteSet(all)
        /\ Cardinality(all) \in Nat /\ Cardinality(hits) \in Nat
    BY <1>2, <2>1 DEF HitsIn
  <2>7. in = hits <=> B = all
    <3>1. B = all => in = hits
      BY DEF HitsIn, Values
    <3>2. ASSUME NEW v \in all \ B PROVE in # hits
      <4>1. PICK d \in hits : documents[d].source.category = v
        BY DEF Values
      <4> QED BY <4>1 DEF HitsIn
    <3> QED BY <2>6, <3>1, <3>2
  <2>8. B = all <=> Cardinality(all) <= agg_size
    <3>1. agg_size \in Nat
      BY SearchAssumption
    <3>2. Cardinality(B) = IF Cardinality(all) <= agg_size THEN Cardinality(all) ELSE agg_size
      <4> DEFINE two == {agg_size, Cardinality(all)}
      <4>1. Min(two) \in two /\ \A m \in two : Min(two) <= m
        BY <2>6, <3>1, LeastOf
      <4>2. Min(two) = IF Cardinality(all) <= agg_size THEN Cardinality(all) ELSE agg_size
        <5> DEFINE least == Min(two)
                   many == Cardinality(all)
        <5>1. (least = agg_size \/ least = many) /\ least <= agg_size /\ least <= many
          BY <4>1
        <5>2. many \in Nat
          BY <2>6
        <5> HIDE DEF least, many
        <5>3. least = IF many <= agg_size THEN many ELSE agg_size
          BY <3>1, <5>1, <5>2
        <5> QED BY <5>3 DEF least, many
      <4> QED BY <2>2, <4>2
    <3> HIDE DEF all, in
    <3>3. Cardinality(B) = Cardinality(all) => B = all
      BY <2>6, FS_Subset
    <3> QED BY <2>6, <3>1, <3>2, <3>3
  <2>9. Cardinality(in) <= Cardinality(hits) /\ (in = hits <=> Cardinality(in) = Cardinality(hits))
    <3> HIDE DEF in, hits
    <3> QED BY <2>6, FS_Subset
  <2>10. /\ TotalOf(agg, DOMAIN agg) <= Cardinality(hits)
         /\ TotalOf(agg, DOMAIN agg) = Cardinality(hits) <=> Cardinality(all) <= agg_size
    <3> HIDE DEF in, hits, all
    <3> QED BY <2>5, <2>7, <2>8, <2>9
  <2> QED BY <2>3, <2>4, <2>10
<1>5. ASSUME NEW q \in Atoms, NEW from \in Prices, NEW to \in Prices
      PROVE  RangeAgg(Execute(q), from, to)
               = Cardinality(Execute(Narrowed(q, [kind |-> "range", gte |-> from, lt |-> to])))
  <2> DEFINE filter == [kind |-> "range", gte |-> from, lt |-> to]
             hits == Execute(q)
  <2>1. Scores(filter) = {d \in Live : from <= documents[d].source.price /\ documents[d].source.price < to}
    BY DEF Scores
  <2>2. Execute(Narrowed(q, filter))
          = {d \in hits : from <= documents[d].source.price /\ documents[d].source.price < to}
    BY <1>3, <2>1, NarrowedFinds
  <2> QED BY <2>2 DEF RangeAgg
<1>6. ASSUME NEW query \in Queries, NEW v \in Categories
      PROVE  LET found == FacetedSearch(query, {})
             IN  Cardinality(FacetedSearch(query, {v}))
                   = TotalOf(Counts(found), {u \in Values(found) : lower[u] = lower[v]})
  <2> DEFINE found == FacetedSearch(query, {})
             same == {u \in Values(found) : lower[u] = lower[v]}
  <2>1. FacetedSearch(query, {v}) = HitsIn(found, same)
    BY DEF HitsIn, FacetedSearch, Values
  <2>2. found \in SUBSET Live
    BY DEF FacetedSearch
  <2>3. same \in SUBSET Values(found)
    OBVIOUS
  <2> HIDE DEF same, found
  <2>4. TotalOf(Counts(found), same) = Cardinality(HitsIn(found, same))
    <3> DEFINE f == Counts(found)
               values == Values(found)
    <3>1. IsFiniteSet(found) /\ IsFiniteSet(values)
      BY <1>2, <2>2
    <3>2. \A u \in values : f[u] = Cardinality(HitsIn(found, {u}))
      BY <1>2, <2>2
    <3>3. same \in SUBSET values
      BY <2>3
    <3> HIDE DEF f, values
    <3>4. TotalOf(f, same) = Cardinality(HitsIn(found, same))
      BY <3>1, <3>2, <3>3, BucketsAddUp
    <3> QED BY <3>4 DEF f
  <2>5. Cardinality(FacetedSearch(query, {v})) = TotalOf(Counts(found), same)
    BY <2>1, <2>4
  <2> QED BY <2>5 DEF same, found
<1> QED BY <1>4, <1>5, <1>6 DEF FacetsDrillDown

-----------------------------------------------------------------------------
(* Suggestions: every entry is of a phrase all of whose entries are there.     *)

EntriesOf(p) ==
  Entries(p.text, 10 * p.weight, p.text)
    \cup (UNION {Entries(w, 8 * p.weight, p.text) :
                   w \in {w \in p.words : Len(w) >= min_prefix_len}})

TypingInv ==
  /\ typed \in Seq(Letters)
  /\ IsFiniteSet(edge_ngrams)
  /\ \A e \in edge_ngrams : \E p \in Phrases : e \in EntriesOf(p) /\ EntriesOf(p) \subseteq edge_ngrams

\* The ones short of m better ones are m or more, and none of the rest is better.
LEMMA BestRanked ==
  ASSUME NEW texts, IsFiniteSet(texts), NEW w \in [texts -> Nat], NEW m \in Nat,
         NEW given, given = {t \in texts : Cardinality({u \in texts : w[u] > w[t]}) < m},
         NEW p \in texts, p \notin given
  PROVE  IsFiniteSet(given) /\ Cardinality(given) >= m /\ \A t \in given : w[t] >= w[p]
<1> DEFINE Better(t) == {u \in texts : w[u] > w[t]}
           Rest == texts \ given
           Weights_ == {w[t] : t \in Rest}
<1>1. \A t \in texts : IsFiniteSet(Better(t)) /\ Cardinality(Better(t)) \in Nat
  <2> TAKE t \in texts
  <2> DEFINE B == Better(t)
  <2>1. B \in SUBSET texts
    OBVIOUS
  <2>2. IsFiniteSet(B) /\ Cardinality(B) \in Nat
    <3> HIDE DEF B
    <3> QED BY <2>1, FS_Subset, FS_CardinalityType
  <2> QED BY <2>2
<1>2. IsFiniteSet(given) /\ given \in SUBSET texts /\ Cardinality(given) \in Nat
  <2>1. given \in SUBSET texts
    OBVIOUS
  <2> QED BY <2>1, FS_Subset, FS_CardinalityType
<1>3. PICK r \in Rest : \A t \in Rest : w[t] <= w[r]
  <2>1. Weights_ \in SUBSET Nat /\ Weights_ # {}
    OBVIOUS
  <2>2. IsFiniteSet(Weights_)
    <3> DEFINE f == [t \in Rest |-> w[t]]
    <3>1. f \in Surjection(Rest, Weights_)
      BY DEF Surjection
    <3>2. Rest \in SUBSET texts
      OBVIOUS
    <3>3. IsFiniteSet(Rest)
      <4> HIDE DEF Rest
      <4> QED BY <3>2, FS_Subset
    <3> HIDE DEF f, Rest, Weights_
    <3> QED BY <3>1, <3>3, FS_Surjection
  <2>3. Max(Weights_) \in Weights_ /\ \A x \in Weights_ : x <= Max(Weights_)
    <3> HIDE DEF Weights_
    <3> QED BY <2>1, <2>2, GreatestOf
  <2> QED BY <2>3
<1>4. r \in texts /\ ~(Cardinality(Better(r)) < m)
  BY <1>3
<1>5. Better(r) \in SUBSET given
  <2> SUFFICES ASSUME NEW u \in Better(r), u \notin given PROVE FALSE
    OBVIOUS
  <2>1. u \in Rest /\ w[u] > w[r] /\ w[u] \in Nat /\ w[r] \in Nat
    BY <1>4
  <2> QED BY <1>3, <2>1
<1>6. Cardinality(given) >= m
  <2> DEFINE B == Better(r)
  <2>1. B \in SUBSET given /\ Cardinality(B) \in Nat /\ ~(Cardinality(B) < m)
    BY <1>1, <1>4, <1>5
  <2> HIDE DEF B
  <2>2. Cardinality(B) <= Cardinality(given)
    BY <1>2, <2>1, FS_Subset
  <2> QED BY <1>2, <2>1, <2>2
<1>7. ASSUME NEW t \in given PROVE w[t] >= w[p]
  <2> SUFFICES ASSUME ~(w[t] >= w[p]) PROVE FALSE
    OBVIOUS
  <2>1. t \in texts /\ w[t] \in Nat /\ w[p] \in Nat /\ w[t] < w[p]
    BY <1>2
  <2> DEFINE A == Better(p)
             B == Better(t)
  <2>2. A \in SUBSET B
    BY <2>1
  <2>3. Cardinality(B) < m /\ ~(Cardinality(A) < m)
    BY <2>1
  <2>4. IsFiniteSet(B) /\ Cardinality(A) \in Nat /\ Cardinality(B) \in Nat
    BY <1>1, <2>1
  <2> HIDE DEF A, B
  <2>5. Cardinality(A) <= Cardinality(B)
    BY <2>2, <2>4, FS_Subset
  <2> QED BY <2>3, <2>4, <2>5
<1> QED BY <1>2, <1>6, <1>7

\* A word has finitely many prefixes, and none when it is too short.
LEMMA NgramsFinite ==
  ASSUME NEW word, Len(word) \in Nat
  PROVE  /\ IsFiniteSet(Ngrams(word))
         /\ Ngrams(word) # {} => Len(word) >= min_prefix_len
<1> DEFINE last_ == Min({Len(word), max_prefix_len})
           sizes == min_prefix_len..last_
<1>1. min_prefix_len \in Nat /\ max_prefix_len \in Nat
  BY TypingAssumption
<1>2. last_ \in {Len(word), max_prefix_len} /\ last_ <= Len(word)
  <2> DEFINE P == {Len(word), max_prefix_len}
  <2>1. P \in SUBSET Nat /\ P # {} /\ Len(word) \in P
    BY <1>1
  <2>2. Min(P) \in P /\ \A x \in P : Min(P) <= x
    <3> HIDE DEF P
    <3> QED BY <2>1, LeastOf
  <2> QED BY <2>1, <2>2
<1>3. last_ \in Nat
  BY <1>1, <1>2
<1> HIDE DEF last_
<1>4. IsFiniteSet(sizes)
  BY <1>1, <1>3, FS_Interval
<1>5. Ngrams(word) = {SubSeq(word, 1, n) : n \in sizes}
  BY DEF Ngrams, last_
<1>6. IsFiniteSet(Ngrams(word))
  <2> DEFINE f == [n \in sizes |-> SubSeq(word, 1, n)]
  <2>1. f \in Surjection(sizes, Ngrams(word))
    BY <1>5 DEF Surjection
  <2> HIDE DEF f
  <2> QED BY <1>4, <2>1, FS_Surjection
<1>7. Ngrams(word) # {} => Len(word) >= min_prefix_len
  BY <1>1, <1>2, <1>3, <1>5
<1> QED BY <1>6, <1>7

\* A phrase is indexed by finitely many entries.
LEMMA EntriesFinite ==
  ASSUME NEW p \in Phrases
  PROVE  IsFiniteSet(EntriesOf(p))
<1>1. ASSUME NEW word \in p.words \cup {p.text}, NEW weight
      PROVE  IsFiniteSet(Entries(word, weight, p.text))
  <2> DEFINE f == [g \in Ngrams(word) |-> [ngram |-> g, weight |-> weight, text |-> p.text]]
             all == Entries(word, weight, p.text)
  <2>1. IsFiniteSet(Ngrams(word))
    BY NgramsFinite, TypingAssumption
  <2>2. f \in Surjection(Ngrams(word), all)
    BY DEF Surjection, Entries
  <2> HIDE DEF f, all
  <2>3. IsFiniteSet(all)
    BY <2>1, <2>2, FS_Surjection
  <2> QED BY <2>3 DEF all
<1> DEFINE Long == {w \in p.words : Len(w) >= min_prefix_len}
           Of(w) == Entries(w, 8 * p.weight, p.text)
           Sets == {Entries(w, 8 * p.weight, p.text) : w \in Long}
<1>2. IsFiniteSet(Sets)
  <2>1. Long \in SUBSET p.words /\ IsFiniteSet(p.words)
    BY TypingAssumption
  <2>2. IsFiniteSet(Long)
    <3> HIDE DEF Long
    <3> QED BY <2>1, FS_Subset
  <2> DEFINE f == [w \in Long |-> Entries(w, 8 * p.weight, p.text)]
  <2>3. f \in Surjection(Long, Sets)
    BY DEF Surjection
  <2> HIDE DEF f, Long, Sets
  <2> QED BY <2>2, <2>3, FS_Surjection
<1>3. \A T \in Sets : IsFiniteSet(T)
  BY <1>1
<1>4. IsFiniteSet(UNION Sets)
  <2> HIDE DEF Sets
  <2> QED BY <1>2, <1>3, FS_UNION
<1>5. IsFiniteSet(Entries(p.text, 10 * p.weight, p.text))
  BY <1>1
<1>6. EntriesOf(p) = Entries(p.text, 10 * p.weight, p.text) \cup UNION Sets
  BY DEF EntriesOf
<1> HIDE DEF Sets
<1> QED BY <1>4, <1>5, <1>6, FS_Union

\* Nothing is typed or indexed at first.
LEMMA TypingInitInv == ASSUME SearchInit PROVE TypingInv
BY FS_EmptySet DEF SearchInit, TypingInv

\* A phrase is indexed with all its entries, and none is ever taken out.
LEMMA TypingStep ==
  ASSUME TypingInv, [SearchNext]_<<indexVars, typedVars>>
  PROVE  TypingInv'
<1>1. ASSUME NEW p \in Phrases, IndexText(p) PROVE TypingInv'
  <2>1. edge_ngrams' = edge_ngrams \cup EntriesOf(p) /\ typed' = typed
    BY <1>1 DEF IndexText, EntriesOf
  <2>2. IsFiniteSet(edge_ngrams \cup EntriesOf(p))
    BY EntriesFinite, FS_Union DEF TypingInv
  <2>3. IsFiniteSet(edge_ngrams') /\ typed' \in Seq(Letters)
    BY <2>1, <2>2 DEF TypingInv
  <2>4. \A e \in edge_ngrams' :
          \E q \in Phrases : e \in EntriesOf(q) /\ EntriesOf(q) \subseteq edge_ngrams'
    BY <2>1 DEF TypingInv
  <2> QED BY <2>3, <2>4 DEF TypingInv
<1>2. ASSUME NEW l \in Letters, Type(l) PROVE TypingInv'
  BY <1>2 DEF Type, TypingInv
<1>3. CASE ESIndex
  BY <1>3 DEF ESIndex, CreateIndex, IndexDocument, DeleteDocument, typedVars, TypingInv
<1>4. CASE UNCHANGED <<indexVars, typedVars>>
  BY <1>4 DEF typedVars, TypingInv
<1> QED BY <1>1, <1>2, <1>3, <1>4 DEF SearchNext, AutocompleteEngine, Typing

\* The suggestions are the best of what begins with what is typed.
LEMMA BestHeld == ASSUME TypingInv PROVE BestSuggested
<1> DEFINE Begins(p) == typed \in Ngrams(p.text) \/ \E w \in p.words : typed \in Ngrams(w)
           known == {p \in Phrases : \E e \in edge_ngrams : e.text = p.text}
           given == Suggest(typed)
           found == EntriesFor(typed)
           texts == {e.text : e \in found}
<1> SUFFICES ASSUME Len(typed) \in min_prefix_len..max_prefix_len
             PROVE  /\ given \subseteq {p.text : p \in {p \in known : Begins(p)}}
                    /\ \A p \in known : Begins(p) =>
                         \/ p.text \in given
                         \/ /\ Cardinality(given) >= max_suggestions
                            /\ \A t \in given : BestWeight(typed, t) >= BestWeight(typed, p.text)
  BY DEF BestSuggested
<1>1. found = {e \in edge_ngrams : e.ngram = typed} /\ IsFiniteSet(found)
  <2>1. ~(Len(typed) < min_prefix_len)
    BY TypingAssumption DEF TypingInv
  <2>2. found = {e \in edge_ngrams : e.ngram = typed}
    BY <2>1 DEF EntriesFor
  <2>3. found \in SUBSET edge_ngrams /\ IsFiniteSet(edge_ngrams)
    BY <2>2 DEF TypingInv
  <2> QED BY <2>2, <2>3, FS_Subset
<1>2. \A p \in Phrases : \A e \in EntriesOf(p) :
        /\ e.text = p.text /\ e.weight \in Nat
        /\ e.ngram = typed => Begins(p)
  <2> SUFFICES ASSUME NEW p \in Phrases, NEW e \in EntriesOf(p)
               PROVE  e.text = p.text /\ e.weight \in Nat /\ (e.ngram = typed => Begins(p))
    OBVIOUS
  <2>1. 10 * p.weight \in Nat /\ 8 * p.weight \in Nat
    BY TypingAssumption
  <2>2. CASE e \in Entries(p.text, 10 * p.weight, p.text)
    BY <2>1, <2>2 DEF Entries
  <2>3. ASSUME NEW w \in p.words, e \in Entries(w, 8 * p.weight, p.text)
        PROVE  e.text = p.text /\ e.weight \in Nat /\ (e.ngram = typed => Begins(p))
    BY <2>1, <2>3 DEF Entries
  <2> QED BY <2>2, <2>3 DEF EntriesOf
<1>3. \A t \in texts : \E p \in known : Begins(p) /\ p.text = t
  <2> TAKE t \in texts
  <2>1. PICK e \in edge_ngrams : e.ngram = typed /\ e.text = t
    BY <1>1
  <2>2. PICK p \in Phrases : e \in EntriesOf(p)
    BY DEF TypingInv
  <2> QED BY <1>2, <2>1, <2>2
<1>4. ASSUME NEW p \in known, Begins(p) PROVE p.text \in texts
  <2>1. PICK e \in edge_ngrams : e.text = p.text
    OBVIOUS
  <2>2. PICK q \in Phrases : e \in EntriesOf(q) /\ EntriesOf(q) \subseteq edge_ngrams
    BY DEF TypingInv
  <2>3. q.text = p.text /\ q.words = p.words
    BY <1>2, <2>1, <2>2, TypingAssumption
  <2>4. \E f \in EntriesOf(q) : f.ngram = typed /\ f.text = p.text
    <3>1. CASE typed \in Ngrams(p.text)
      <4> DEFINE f == [ngram |-> typed, weight |-> 10 * q.weight, text |-> q.text]
      <4>1. f \in Entries(q.text, 10 * q.weight, q.text)
        BY <2>3, <3>1 DEF Entries
      <4>2. f \in EntriesOf(q) /\ f.ngram = typed /\ f.text = p.text
        BY <2>3, <4>1 DEF EntriesOf
      <4> QED BY <4>2
    <3>2. ASSUME NEW w \in p.words, typed \in Ngrams(w)
          PROVE  \E f \in EntriesOf(q) : f.ngram = typed /\ f.text = p.text
      <4> DEFINE f == [ngram |-> typed, weight |-> 8 * q.weight, text |-> q.text]
      <4>1. Len(w) >= min_prefix_len
        BY <3>2, NgramsFinite, TypingAssumption
      <4>2. f \in Entries(w, 8 * q.weight, q.text) /\ w \in {x \in q.words : Len(x) >= min_prefix_len}
        BY <2>3, <3>2, <4>1 DEF Entries
      <4>3. f \in EntriesOf(q) /\ f.ngram = typed /\ f.text = p.text
        BY <2>3, <4>2 DEF EntriesOf
      <4> QED BY <4>3
    <3> QED BY <1>4, <3>1, <3>2
  <2> QED BY <1>1, <2>2, <2>4
<1>5. IsFiniteSet(texts)
  <2> DEFINE f == [e \in found |-> e.text]
  <2>1. f \in Surjection(found, texts)
    BY DEF Surjection
  <2> HIDE DEF f, found, texts
  <2> QED BY <1>1, <2>1, FS_Surjection
<1>6. ASSUME NEW t \in texts PROVE BestWeight(typed, t) \in Nat
  <2> DEFINE own == {e \in found : e.text = t}
             P == {e.weight : e \in own}
  <2>1. P \in SUBSET Nat /\ P # {}
    BY <1>1, <1>2 DEF TypingInv
  <2>2. IsFiniteSet(P)
    <3> DEFINE f == [e \in own |-> e.weight]
    <3>1. own \in SUBSET found /\ f \in Surjection(own, P)
      BY DEF Surjection
    <3> HIDE DEF f, own, P, found
    <3> QED BY <1>1, <3>1, FS_Subset, FS_Surjection
  <2>3. BestWeight(typed, t) = Max(P)
    BY DEF BestWeight
  <2>4. Max(P) \in P
    <3> HIDE DEF P
    <3> QED BY <2>1, <2>2, GreatestOf
  <2> QED BY <2>1, <2>3, <2>4
<1> DEFINE w == [t \in texts |-> BestWeight(typed, t)]
<1>7. w \in [texts -> Nat] /\ given \in SUBSET texts
      /\ given = {t \in texts : Cardinality({u \in texts : w[u] > w[t]}) < max_suggestions}
  <2>1. w \in [texts -> Nat]
    BY <1>6
  <2>2. given = {t \in texts :
                   Cardinality({u \in texts : BestWeight(typed, u) > BestWeight(typed, t)}) < max_suggestions}
    BY DEF Suggest
  <2>3. \A t \in texts : {u \in texts : BestWeight(typed, u) > BestWeight(typed, t)}
                            = {u \in texts : w[u] > w[t]}
    <3> HIDE DEF texts
    <3> QED OBVIOUS
  <2> HIDE DEF texts, w, given
  <2> QED BY <2>1, <2>2, <2>3
<1>8. ASSUME NEW p \in known, Begins(p), p.text \notin given
      PROVE  /\ Cardinality(given) >= max_suggestions
             /\ \A t \in given : BestWeight(typed, t) >= BestWeight(typed, p.text)
  <2>1. p.text \in texts /\ max_suggestions \in Nat
    BY <1>4, <1>8, TypingAssumption
  <2> HIDE DEF texts, w, given, known
  <2>2. Cardinality(given) >= max_suggestions /\ \A t \in given : w[t] >= w[p.text]
    BY <1>5, <1>7, <1>8, <2>1, BestRanked
  <2>3. \A t \in texts : w[t] = BestWeight(typed, t)
    BY DEF w
  <2> QED BY <1>7, <2>1, <2>2, <2>3
<1>9. given \subseteq {p.text : p \in {p \in known : Begins(p)}}
  <2> HIDE DEF texts, given, known
  <2> QED BY <1>3, <1>7
<1> QED BY <1>8, <1>9

-----------------------------------------------------------------------------
(* Edit distance: the table of the prefixes, row by row *)

DistanceEntry(a, b, g, i, j) ==
  IF i = 0 THEN j ELSE IF j = 0 THEN i
  ELSE IF a[i] = b[j] THEN g[<<i - 1, j - 1>>]
  ELSE 1 + Min({g[<<i - 1, j>>], g[<<i, j - 1>>], g[<<i - 1, j - 1>>]})

DistanceTable(a, b, g) ==
  [p \in (0..Len(a)) \X (0..Len(b)) |-> DistanceEntry(a, b, g, p[1], p[2])]

DistancesOf(a, b) == CHOOSE g : g = DistanceTable(a, b, g)

\* The distance of the first i letters of a from the first j letters of b.
Distance(a, b, i, j) == DistancesOf(a, b)[<<i, j>>]

\* The distance of two words is the last entry of their table.
LEMMA DistanceUnfolds == \A a, b : EditDistance(a, b) = Distance(a, b, Len(a), Len(b))
BY DEF EditDistance, Distance, DistancesOf, DistanceTable, DistanceEntry

\* There is a table: an entry takes only entries of shorter prefixes.
LEMMA DistanceTableExists ==
  ASSUME NEW a, NEW b, Len(a) \in Nat, Len(b) \in Nat
  PROVE  \E g : g = DistanceTable(a, b, g)
<1> DEFINE All == (0..Len(a)) \X (0..Len(b))
           UpTo(n) == {p \in All : p[1] + p[2] <= n}
           Entry(g, p) == DistanceEntry(a, b, g, p[1], p[2])
           Bad == {n \in Nat : ~ \E g : g = [p \in UpTo(n) |-> Entry(g, p)]}
<1>1. Bad = {}
  <2> SUFFICES ASSUME Bad # {} PROVE FALSE
    OBVIOUS
  <2> DEFINE n == Min(Bad)
  <2>1. n \in Bad /\ n \in Nat /\ \A m \in Bad : n <= m
    BY LeastOf
  <2>2. PICK h : n # 0 => h = [p \in UpTo(n - 1) |-> Entry(h, p)]
    <3>1. CASE n = 0
      BY <3>1
    <3>2. CASE n # 0
      <4>1. n - 1 \in Nat /\ ~ (n <= n - 1)
        <5> HIDE DEF n
        <5> QED BY <2>1, <3>2
      <4>2. n - 1 \notin Bad
        <5> HIDE DEF Bad, n
        <5> QED BY <2>1, <4>1
      <4> QED BY <4>1, <4>2
    <3> QED BY <3>1, <3>2
  <2> HIDE DEF Bad
  <2> HIDE DEF n
  <2> DEFINE g == [p \in UpTo(n) |-> Entry(h, p)]
  <2>3. ASSUME NEW i \in 0..Len(a), NEW j \in 0..Len(b), i + j < n
        PROVE  h[<<i, j>>] = g[<<i, j>>]
    <3>1. <<i, j>> \in UpTo(n - 1) /\ <<i, j>> \in UpTo(n) /\ n # 0
      BY <2>1, <2>3
    <3>2. h[<<i, j>>] = Entry(h, <<i, j>>)
      <4> HIDE DEF Entry, UpTo
      <4> QED BY <2>2, <3>1
    <3>3. g[<<i, j>>] = Entry(h, <<i, j>>)
      <4> HIDE DEF Entry, UpTo
      <4> QED BY <3>1
    <3> QED BY <3>2, <3>3
  <2>4. \A p \in UpTo(n) : Entry(h, p) = Entry(g, p)
    <3> SUFFICES ASSUME NEW i \in 0..Len(a), NEW j \in 0..Len(b), i + j <= n
                 PROVE  Entry(h, <<i, j>>) = Entry(g, <<i, j>>)
      OBVIOUS
    <3>1. CASE i = 0 \/ j = 0
      BY <3>1 DEF DistanceEntry
    <3>2. CASE i # 0 /\ j # 0
      <4>1. /\ i - 1 \in 0..Len(a) /\ j - 1 \in 0..Len(b)
            /\ (i - 1) + (j - 1) < n /\ (i - 1) + j < n /\ i + (j - 1) < n
        BY <2>1, <3>2
      <4>2. /\ h[<<i - 1, j - 1>>] = g[<<i - 1, j - 1>>]
            /\ h[<<i - 1, j>>] = g[<<i - 1, j>>]
            /\ h[<<i, j - 1>>] = g[<<i, j - 1>>]
        <5> HIDE DEF g
        <5> QED BY <2>3, <4>1
      <4> HIDE DEF g
      <4> QED BY <3>2, <4>2 DEF DistanceEntry
    <3> QED BY <3>1, <3>2
  <2>5. g = [p \in UpTo(n) |-> Entry(g, p)]
    <3> HIDE DEF Entry, UpTo
    <3> QED BY <2>4
  <2> HIDE DEF g
  <2> QED BY <2>1, <2>5 DEF Bad
<1>2. Len(a) + Len(b) \in Nat /\ UpTo(Len(a) + Len(b)) = All
  OBVIOUS
<1>3. PICK g : g = [p \in All |-> Entry(g, p)]
  <2> HIDE DEF Entry, UpTo, All
  <2>1. Len(a) + Len(b) \notin Bad
    <3> HIDE DEF Bad
    <3> QED BY <1>1
  <2> QED BY <1>2, <2>1
<1> QED BY <1>3 DEF DistanceTable

Shortest(a, b, i, j) ==
  {Distance(a, b, i - 1, j), Distance(a, b, i, j - 1), Distance(a, b, i - 1, j - 1)}

\* An entry of the table from those before it.
LEMMA DistanceIs ==
  ASSUME NEW a, NEW b, Len(a) \in Nat, Len(b) \in Nat,
         NEW i \in 0..Len(a), NEW j \in 0..Len(b)
  PROVE  Distance(a, b, i, j) =
           IF i = 0 THEN j ELSE IF j = 0 THEN i
           ELSE IF a[i] = b[j] THEN Distance(a, b, i - 1, j - 1)
           ELSE 1 + Min(Shortest(a, b, i, j))
<1>1. DistancesOf(a, b) = DistanceTable(a, b, DistancesOf(a, b))
  BY DistanceTableExists DEF DistancesOf
<1>2. DistancesOf(a, b)[<<i, j>>] = DistanceEntry(a, b, DistancesOf(a, b), i, j)
  BY <1>1 DEF DistanceTable
<1> QED BY <1>2 DEF Distance, DistanceEntry, Shortest

\* Every distance is a number, and where the letters differ one more than the least
\* of the three before it.
LEMMA DistanceSteps ==
  ASSUME NEW a, NEW b, Len(a) \in Nat, Len(b) \in Nat
  PROVE  \A i \in 0..Len(a), j \in 0..Len(b) :
           /\ Distance(a, b, i, j) \in Nat
           /\ i = 0 => Distance(a, b, i, j) = j
           /\ j = 0 => Distance(a, b, i, j) = i
           /\ i # 0 /\ j # 0 /\ a[i] = b[j] => Distance(a, b, i, j) = Distance(a, b, i - 1, j - 1)
           /\ i # 0 /\ j # 0 /\ a[i] # b[j] =>
                \E x \in Shortest(a, b, i, j) :
                  Distance(a, b, i, j) = 1 + x /\ \A y \in Shortest(a, b, i, j) : x <= y
<1> DEFINE Odd(i, j) == Distance(a, b, i, j) \notin Nat
           Bad == {n \in Nat : \E i \in 0..Len(a), j \in 0..Len(b) : i + j = n /\ Odd(i, j)}
<1>1. ASSUME NEW i \in 0..Len(a), NEW j \in 0..Len(b), i # 0, j # 0
      PROVE  i - 1 \in 0..Len(a) /\ j - 1 \in 0..Len(b)
  BY <1>1
<1>2. ASSUME NEW i \in 0..Len(a), NEW j \in 0..Len(b), i # 0, j # 0,
             Shortest(a, b, i, j) \in SUBSET Nat
      PROVE  \E x \in Shortest(a, b, i, j) :
               Min(Shortest(a, b, i, j)) = x /\ \A y \in Shortest(a, b, i, j) : x <= y
  <2>1. Shortest(a, b, i, j) # {}
    BY DEF Shortest
  <2> QED BY <1>2, <2>1, LeastOf
<1>3. Bad = {}
  <2> SUFFICES ASSUME Bad # {} PROVE FALSE
    OBVIOUS
  <2>1. PICK n \in Bad : \A m \in Bad : n <= m
    <3> HIDE DEF Bad
    <3>1. Bad \in SUBSET Nat
      BY DEF Bad
    <3> QED BY <3>1, LeastOf
  <2>2. PICK i \in 0..Len(a), j \in 0..Len(b) : i + j = n /\ Distance(a, b, i, j) \notin Nat
    OBVIOUS
  <2>3. ASSUME NEW k \in 0..Len(a), NEW l \in 0..Len(b), k + l < n
        PROVE  Distance(a, b, k, l) \in Nat
    <3>1. k + l \notin Bad
      <4> HIDE DEF Bad
      <4>1. n \in Nat
        BY <2>1 DEF Bad
      <4> QED BY <2>1, <2>3, <4>1
    <3> QED BY <3>1
  <2> HIDE DEF Bad
  <2>4. i # 0 /\ j # 0
    BY <2>2, DistanceIs
  <2>5. /\ Distance(a, b, i - 1, j) \in Nat
        /\ Distance(a, b, i, j - 1) \in Nat
        /\ Distance(a, b, i - 1, j - 1) \in Nat
    <3>1. i - 1 \in 0..Len(a) /\ j - 1 \in 0..Len(b)
      BY <1>1, <2>4
    <3>2. (i - 1) + j < n /\ i + (j - 1) < n /\ (i - 1) + (j - 1) < n
      BY <2>2
    <3> QED BY <2>3, <3>1, <3>2
  <2>6. Shortest(a, b, i, j) \in SUBSET Nat
    BY <2>5 DEF Shortest
  <2>7. PICK x \in Shortest(a, b, i, j) : Min(Shortest(a, b, i, j)) = x
    BY <1>2, <2>4, <2>6
  <2>8. 1 + Min(Shortest(a, b, i, j)) \in Nat
    BY <2>6, <2>7
  <2>9. Distance(a, b, i, j) \in {Distance(a, b, i - 1, j - 1), 1 + Min(Shortest(a, b, i, j))}
    BY <2>4, DistanceIs
  <2> QED BY <2>2, <2>5, <2>8, <2>9
<1>4. \A i \in 0..Len(a), j \in 0..Len(b) : Distance(a, b, i, j) \in Nat
  <2> SUFFICES ASSUME NEW i \in 0..Len(a), NEW j \in 0..Len(b), Odd(i, j) PROVE FALSE
    OBVIOUS
  <2>1. i + j \in Bad
    OBVIOUS
  <2> QED BY <1>3, <2>1
<1>5. ASSUME NEW i \in 0..Len(a), NEW j \in 0..Len(b), i # 0, j # 0, a[i] # b[j]
      PROVE  \E x \in Shortest(a, b, i, j) :
               Distance(a, b, i, j) = 1 + x /\ \A y \in Shortest(a, b, i, j) : x <= y
  <2>1. Shortest(a, b, i, j) \in SUBSET Nat
    BY <1>1, <1>4, <1>5 DEF Shortest
  <2>2. Distance(a, b, i, j) = 1 + Min(Shortest(a, b, i, j))
    BY <1>5, DistanceIs
  <2>3. PICK x \in Shortest(a, b, i, j) :
          Min(Shortest(a, b, i, j)) = x /\ \A y \in Shortest(a, b, i, j) : x <= y
    BY <1>2, <1>5, <2>1
  <2> QED BY <2>2, <2>3
<1> HIDE DEF Bad, Odd
<1>6. ASSUME NEW i \in 0..Len(a), NEW j \in 0..Len(b)
      PROVE  /\ i = 0 => Distance(a, b, i, j) = j
             /\ j = 0 => Distance(a, b, i, j) = i
             /\ i # 0 /\ j # 0 /\ a[i] = b[j] => Distance(a, b, i, j) = Distance(a, b, i - 1, j - 1)
  BY DistanceIs
<1> QED BY <1>4, <1>5, <1>6

-----------------------------------------------------------------------------
(* Edit distance: what is near *)

\* Up to here the letters agree.
Agree(a, b, i, j) == i = j /\ \A m \in 1..i : a[m] = b[m]

\* One letter changed, added or left out.
OneSlip(a, b, i, j) ==
  \/ i = j /\ \E k \in 1..i : \A m \in 1..i : m # k => a[m] = b[m]
  \/ i = j + 1 /\ \E k \in 1..i : /\ \A m \in 1..j : m < k => a[m] = b[m]
                                  /\ \A m \in 1..j : k <= m => a[m + 1] = b[m]
  \/ j = i + 1 /\ \E k \in 1..j : /\ \A m \in 1..i : m < k => a[m] = b[m]
                                  /\ \A m \in 1..i : k <= m => a[m] = b[m + 1]

\* One letter more, the same on both sides, changes nothing.
LEMMA SlipGoesOn ==
  ASSUME NEW a, NEW b, NEW i \in Nat \ {0}, NEW j \in Nat \ {0}, a[i] = b[j]
  PROVE  /\ Agree(a, b, i - 1, j - 1) => Agree(a, b, i, j)
         /\ OneSlip(a, b, i - 1, j - 1) => OneSlip(a, b, i, j)
<1>1. Agree(a, b, i - 1, j - 1) => Agree(a, b, i, j)
  BY DEF Agree
<1>2. ASSUME i = j, NEW k \in 1..i - 1, \A m \in 1..i - 1 : m # k => a[m] = b[m]
      PROVE  OneSlip(a, b, i, j)
  <2>1. k \in 1..i /\ \A m \in 1..i : m # k => a[m] = b[m]
    BY <1>2
  <2> QED BY <1>2, <2>1 DEF OneSlip
<1>3. ASSUME i = j + 1, NEW k \in 1..i - 1,
             \A m \in 1..j - 1 : m < k => a[m] = b[m],
             \A m \in 1..j - 1 : k <= m => a[m + 1] = b[m]
      PROVE  OneSlip(a, b, i, j)
  <2>1. k \in 1..i /\ \A m \in 1..j : (m < k => a[m] = b[m]) /\ (k <= m => a[m + 1] = b[m])
    BY <1>3
  <2> QED BY <1>3, <2>1 DEF OneSlip
<1>4. ASSUME j = i + 1, NEW k \in 1..j - 1,
             \A m \in 1..i - 1 : m < k => a[m] = b[m],
             \A m \in 1..i - 1 : k <= m => a[m] = b[m + 1]
      PROVE  OneSlip(a, b, i, j)
  <2>1. k \in 1..j /\ \A m \in 1..i : (m < k => a[m] = b[m]) /\ (k <= m => a[m] = b[m + 1])
    BY <1>4
  <2> QED BY <1>4, <2>1 DEF OneSlip
<1>5. OneSlip(a, b, i - 1, j - 1) => OneSlip(a, b, i, j)
  <2> SUFFICES ASSUME OneSlip(a, b, i - 1, j - 1) PROVE OneSlip(a, b, i, j)
    OBVIOUS
  <2>1. CASE i - 1 = j - 1 /\ \E k \in 1..i - 1 : \A m \in 1..i - 1 : m # k => a[m] = b[m]
    BY <1>2, <2>1
  <2>2. CASE i - 1 = (j - 1) + 1 /\ \E k \in 1..i - 1 :
               /\ \A m \in 1..j - 1 : m < k => a[m] = b[m]
               /\ \A m \in 1..j - 1 : k <= m => a[m + 1] = b[m]
    <3>1. i = j + 1
      BY <2>2
    <3> QED BY <1>3, <2>2, <3>1
  <2>3. CASE j - 1 = (i - 1) + 1 /\ \E k \in 1..j - 1 :
               /\ \A m \in 1..i - 1 : m < k => a[m] = b[m]
               /\ \A m \in 1..i - 1 : k <= m => a[m] = b[m + 1]
    <3>1. j = i + 1
      BY <2>3
    <3> QED BY <1>4, <2>3, <3>1
  <2> QED BY <2>1, <2>2, <2>3 DEF OneSlip
<1> QED BY <1>1, <1>5

\* At distance zero the letters agree, at distance one there is one slip.
LEMMA NearIsOneSlip ==
  ASSUME NEW a, NEW b, Len(a) \in Nat, Len(b) \in Nat
  PROVE  \A i \in 0..Len(a), j \in 0..Len(b) :
           /\ Distance(a, b, i, j) = 0 => Agree(a, b, i, j)
           /\ Distance(a, b, i, j) = 1 => OneSlip(a, b, i, j)
<1> DEFINE Right(i, j) == /\ Distance(a, b, i, j) = 0 => Agree(a, b, i, j)
                          /\ Distance(a, b, i, j) = 1 => OneSlip(a, b, i, j)
           Bad == {n \in Nat : \E i \in 0..Len(a), j \in 0..Len(b) : i + j = n /\ ~Right(i, j)}
<1> SUFFICES ASSUME Bad # {} PROVE FALSE
  <2> SUFFICES ASSUME NEW i \in 0..Len(a), NEW j \in 0..Len(b), ~Right(i, j) PROVE FALSE
    OBVIOUS
  <2>1. i + j \in Bad
    OBVIOUS
  <2> QED BY <2>1
<1>1. PICK n \in Bad : \A m \in Bad : n <= m
  <2>1. Bad \in SUBSET Nat
    OBVIOUS
  <2> HIDE DEF Bad
  <2> QED BY <2>1, LeastOf
<1>2. PICK i \in 0..Len(a), j \in 0..Len(b) : i + j = n /\ ~Right(i, j)
  OBVIOUS
<1>3. ASSUME NEW k \in 0..Len(a), NEW l \in 0..Len(b), k + l < n
      PROVE  /\ Distance(a, b, k, l) = 0 => Agree(a, b, k, l)
             /\ Distance(a, b, k, l) = 1 => OneSlip(a, b, k, l)
             /\ Distance(a, b, k, l) \in Nat
  <2>1. k + l \notin Bad
    <3>1. n \in Nat
      OBVIOUS
    <3> HIDE DEF Bad
    <3> QED BY <1>1, <1>3, <3>1
  <2> QED BY <2>1, DistanceSteps
<1> HIDE DEF Bad
<1>4. ASSUME i = 0 \/ j = 0 PROVE FALSE
  <2>1. (i = 0 => Distance(a, b, i, j) = j) /\ (j = 0 => Distance(a, b, i, j) = i)
    BY DistanceSteps
  <2>2. CASE i = 0 /\ j = 0
    BY <1>2, <2>1, <2>2 DEF Agree
  <2>3. CASE i = 0 /\ j # 0
    BY <1>2, <2>1, <2>3 DEF OneSlip
  <2>4. CASE j = 0 /\ i # 0
    BY <1>2, <2>1, <2>4 DEF OneSlip
  <2> QED BY <1>4, <2>2, <2>3, <2>4
<1>5. i \in Nat \ {0} /\ j \in Nat \ {0} /\ i - 1 \in 0..Len(a) /\ j - 1 \in 0..Len(b)
      /\ (i - 1) + (j - 1) < n /\ (i - 1) + j < n /\ i + (j - 1) < n
  BY <1>2, <1>4
<1>6. ASSUME a[i] = b[j] PROVE FALSE
  <2>1. Distance(a, b, i, j) = Distance(a, b, i - 1, j - 1)
    BY <1>5, <1>6, DistanceSteps
  <2> QED BY <1>2, <1>3, <1>5, <1>6, <2>1, SlipGoesOn
<1>7. ASSUME a[i] # b[j] PROVE FALSE
  <2>1. PICK x \in Shortest(a, b, i, j) : Distance(a, b, i, j) = 1 + x
    BY <1>5, <1>7, DistanceSteps
  <2>2. \A y \in Shortest(a, b, i, j) : y \in Nat
    BY <1>3, <1>5 DEF Shortest
  <2>3. x = 0 /\ ~OneSlip(a, b, i, j)
    BY <1>2, <2>1, <2>2
  <2>4. CASE x = Distance(a, b, i - 1, j)
    <3>1. i - 1 = j /\ \A m \in 1..i - 1 : a[m] = b[m]
      <4>1. Agree(a, b, i - 1, j)
        BY <1>3, <1>5, <2>3, <2>4
      <4> QED BY <4>1 DEF Agree
    <3>3. i = j + 1
      BY <1>5, <3>1
    <3>2. i \in 1..i /\ \A m \in 1..j : (m < i => a[m] = b[m]) /\ (i <= m => a[m + 1] = b[m])
      <4>1. \A m \in 1..j : m \in 1..i - 1 /\ ~(i <= m)
        BY <1>5, <3>1
      <4> QED BY <1>5, <3>1, <4>1
    <3> QED BY <2>3, <3>2, <3>3 DEF OneSlip
  <2>5. CASE x = Distance(a, b, i, j - 1)
    <3>1. i = j - 1 /\ \A m \in 1..i : a[m] = b[m]
      BY <1>3, <1>5, <2>3, <2>5 DEF Agree
    <3>2. j = i + 1
      BY <1>5, <3>1
    <3>3. j \in 1..j /\ \A m \in 1..i : (m < j => a[m] = b[m]) /\ (j <= m => a[m] = b[m + 1])
      BY <1>5, <3>1, <3>2
    <3> QED BY <2>3, <3>2, <3>3 DEF OneSlip
  <2>6. CASE x = Distance(a, b, i - 1, j - 1)
    <3>1. i - 1 = j - 1 /\ \A m \in 1..i - 1 : a[m] = b[m]
      BY <1>3, <1>5, <2>3, <2>6 DEF Agree
    <3>2. i = j /\ \A m \in 1..i : m # i => a[m] = b[m]
      <4>1. \A m \in 1..i : m # i => m \in 1..i - 1
        BY <1>5
      <4> QED BY <1>5, <3>1, <4>1
    <3>3. i \in 1..i
      BY <1>5
    <3>4. i = j /\ \E k \in 1..i : \A m \in 1..i : m # k => a[m] = b[m]
      BY <3>2, <3>3
    <3>5. OneSlip(a, b, i, j)
      BY <3>4 DEF OneSlip
    <3> QED BY <2>3, <3>5
  <2> QED BY <2>4, <2>5, <2>6 DEF Shortest
<1> QED BY <1>6, <1>7

\* The other way round: one slip is at most distance one, whatever the letters are.
LEMMA SameIsNear ==
  ASSUME NEW a, NEW b, Len(a) \in Nat, Len(b) \in Nat,
         NEW k \in Nat, k <= Len(a), k <= Len(b), \A m \in 1..k : a[m] = b[m]
  PROVE  \A i \in 0..k : Distance(a, b, i, i) = 0
<1> DEFINE Bad == {i \in 0..k : Distance(a, b, i, i) # 0}
<1> SUFFICES ASSUME Bad # {} PROVE FALSE
  OBVIOUS
<1>1. PICK i \in Bad : \A m \in Bad : i <= m
  <2>1. Bad \in SUBSET Nat
    OBVIOUS
  <2> HIDE DEF Bad
  <2> QED BY <2>1, LeastOf
<1>2. i \in 0..Len(a) /\ i \in 0..Len(b) /\ i \in 0..k
  OBVIOUS
<1>3. i # 0
  BY <1>1, <1>2, DistanceSteps
<1>4. i - 1 \in 0..k /\ i - 1 \notin Bad
  BY <1>1, <1>2, <1>3
<1>5. Distance(a, b, i, i) = Distance(a, b, i - 1, i - 1)
  BY <1>2, <1>3, DistanceSteps
<1> QED BY <1>1, <1>4, <1>5

\* Whatever the two letters are, an entry is at most one more than a zero before it.
LEMMA AtMostOneMore ==
  ASSUME NEW a, NEW b, Len(a) \in Nat, Len(b) \in Nat,
         NEW i \in 1..Len(a), NEW j \in 1..Len(b), a[i] # b[j],
         \/ Distance(a, b, i - 1, j) = 0
         \/ Distance(a, b, i, j - 1) = 0
         \/ Distance(a, b, i - 1, j - 1) = 0
  PROVE  Distance(a, b, i, j) <= 1
<1>1. i \in 0..Len(a) /\ i - 1 \in 0..Len(a) /\ j \in 0..Len(b) /\ j - 1 \in 0..Len(b) /\ i # 0 /\ j # 0
  OBVIOUS
<1>2. PICK x \in Shortest(a, b, i, j) :
        Distance(a, b, i, j) = 1 + x /\ \A y \in Shortest(a, b, i, j) : x <= y
  BY <1>1, DistanceSteps
<1>3. Shortest(a, b, i, j) \in SUBSET Nat
  <2>1. \A k \in 0..Len(a), l \in 0..Len(b) : Distance(a, b, k, l) \in Nat
    BY DistanceSteps
  <2> QED BY <1>1, <2>1 DEF Shortest
<1>4. x <= 0
  BY <1>2 DEF Shortest
<1> QED BY <1>2, <1>3, <1>4

\* One slip is at most distance one: along its diagonal the entries are one, after the
\* zeros of the letters before the slip.
LEMMA SlipIsNear ==
  ASSUME NEW a, NEW b, Len(a) \in Nat, Len(b) \in Nat, OneSlip(a, b, Len(a), Len(b))
  PROVE  Distance(a, b, Len(a), Len(b)) <= 1
<1>1. ASSUME Len(a) = Len(b), NEW k \in 1..Len(a),
             \A m \in 1..Len(a) : m # k => a[m] = b[m]
      PROVE  Distance(a, b, Len(a), Len(b)) <= 1
  <2>1. \A i \in 0..k - 1 : Distance(a, b, i, i) = 0
    <3>1. k - 1 \in Nat /\ k - 1 <= Len(a) /\ k - 1 <= Len(b) /\ \A m \in 1..k - 1 : a[m] = b[m]
      BY <1>1
    <3> QED BY <3>1, SameIsNear
  <2> DEFINE Bad == {i \in 0..Len(a) : ~(Distance(a, b, i, i) <= 1)}
  <2> SUFFICES ASSUME Bad # {} PROVE FALSE
    BY <1>1
  <2>2. PICK i \in Bad : \A m \in Bad : i <= m
    <3>1. Bad \in SUBSET Nat
      OBVIOUS
    <3> HIDE DEF Bad
    <3> QED BY <3>1, LeastOf
  <2>3. i \in 0..Len(a) /\ i \in 0..Len(b) /\ i # 0 /\ ~(i \in 0..k - 1)
    <3>1. i \in 0..Len(a) /\ i \in 0..Len(b) /\ ~(Distance(a, b, i, i) <= 1)
      BY <1>1
    <3>2. i # 0
      BY <3>1, DistanceSteps
    <3>3. ~(i \in 0..k - 1)
      BY <2>1, <3>1
    <3> QED BY <3>1, <3>2, <3>3
  <2>4. i - 1 \in 0..Len(a) /\ i - 1 \in 0..Len(b) /\ Distance(a, b, i - 1, i - 1) <= 1
    BY <1>1, <2>2, <2>3
  <2>5. CASE a[i] = b[i]
    <3>1. Distance(a, b, i, i) = Distance(a, b, i - 1, i - 1)
      BY <2>3, <2>5, DistanceSteps
    <3> QED BY <2>2, <2>4, <3>1
  <2>6. CASE a[i] # b[i]
    <3>1. i = k
      BY <1>1, <2>3, <2>6
    <3>2. Distance(a, b, i - 1, i - 1) = 0
      BY <2>1, <3>1
    <3>3. i \in 1..Len(a) /\ i \in 1..Len(b)
      BY <2>3
    <3> QED BY <2>2, <2>6, <3>2, <3>3, AtMostOneMore
  <2> QED BY <2>5, <2>6
<1>2. ASSUME Len(a) = Len(b) + 1, NEW k \in 1..Len(a),
             \A m \in 1..Len(b) : m < k => a[m] = b[m],
             \A m \in 1..Len(b) : k <= m => a[m + 1] = b[m]
      PROVE  Distance(a, b, Len(a), Len(b)) <= 1
  <2>1. \A i \in 0..k - 1 : Distance(a, b, i, i) = 0
    <3>1. k - 1 \in Nat /\ k - 1 <= Len(a) /\ k - 1 <= Len(b) /\ \A m \in 1..k - 1 : a[m] = b[m]
      BY <1>2
    <3> QED BY <3>1, SameIsNear
  <2> DEFINE Bad == {i \in 0..Len(b) : ~(Distance(a, b, i + 1, i) <= 1)}
  <2> SUFFICES ASSUME Bad # {} PROVE FALSE
    BY <1>2
  <2>2. PICK i \in Bad : \A m \in Bad : i <= m
    <3>1. Bad \in SUBSET Nat
      OBVIOUS
    <3> HIDE DEF Bad
    <3> QED BY <3>1, LeastOf
  <2>3. i \in 0..Len(b) /\ i + 1 \in 0..Len(a) /\ i + 1 # 0
    BY <1>2
  <2>4. i # 0
    <3>1. \A l \in 0..Len(a) : Distance(a, b, l, 0) = l
      BY DistanceSteps
    <3> QED BY <2>2, <2>3, <3>1
  <2>5. i - 1 \in 0..Len(b) /\ i \in 0..Len(a) /\ Distance(a, b, i, i - 1) <= 1
    <3>1. i - 1 \in 0..Len(b) /\ ~(i <= i - 1)
      BY <2>3, <2>4
    <3>2. i - 1 \notin Bad /\ (i - 1) + 1 = i
      BY <2>2, <2>3, <3>1
    <3> QED BY <2>3, <3>1, <3>2
  <2>6. CASE a[i + 1] = b[i]
    <3>1. Distance(a, b, i + 1, i) = Distance(a, b, (i + 1) - 1, i - 1)
      BY <2>3, <2>4, <2>6, DistanceSteps
    <3>2. (i + 1) - 1 = i
      BY <2>3
    <3> QED BY <2>2, <2>5, <3>1, <3>2
  <2>7. CASE a[i + 1] # b[i]
    <3>1. i \in 0..k - 1
      BY <1>2, <2>3, <2>4, <2>7
    <3>2. Distance(a, b, i, i) = 0
      BY <2>1, <3>1
    <3>3. i + 1 \in 1..Len(a) /\ i \in 1..Len(b) /\ (i + 1) - 1 = i
      BY <2>3, <2>4
    <3> QED BY <2>2, <2>7, <3>2, <3>3, AtMostOneMore
  <2> QED BY <2>6, <2>7
<1>3. ASSUME Len(b) = Len(a) + 1, NEW k \in 1..Len(b),
             \A m \in 1..Len(a) : m < k => a[m] = b[m],
             \A m \in 1..Len(a) : k <= m => a[m] = b[m + 1]
      PROVE  Distance(a, b, Len(a), Len(b)) <= 1
  <2>1. \A i \in 0..k - 1 : Distance(a, b, i, i) = 0
    <3>1. k - 1 \in Nat /\ k - 1 <= Len(a) /\ k - 1 <= Len(b) /\ \A m \in 1..k - 1 : a[m] = b[m]
      BY <1>3
    <3> QED BY <3>1, SameIsNear
  <2> DEFINE Bad == {i \in 0..Len(a) : ~(Distance(a, b, i, i + 1) <= 1)}
  <2> SUFFICES ASSUME Bad # {} PROVE FALSE
    BY <1>3
  <2>2. PICK i \in Bad : \A m \in Bad : i <= m
    <3>1. Bad \in SUBSET Nat
      OBVIOUS
    <3> HIDE DEF Bad
    <3> QED BY <3>1, LeastOf
  <2>3. i \in 0..Len(a) /\ i + 1 \in 0..Len(b) /\ i + 1 # 0
    BY <1>3
  <2>4. i # 0
    <3>1. i = 0 => Distance(a, b, i, i + 1) = i + 1
      BY <2>3, DistanceSteps
    <3> QED BY <2>2, <3>1
  <2>5. i - 1 \in 0..Len(a) /\ i \in 0..Len(b) /\ Distance(a, b, i - 1, i) <= 1
    <3>1. i - 1 \in 0..Len(a) /\ ~(i <= i - 1)
      BY <2>3, <2>4
    <3>2. i - 1 \notin Bad /\ (i - 1) + 1 = i
      BY <2>2, <2>3, <3>1
    <3> QED BY <2>3, <3>1, <3>2
  <2>6. CASE a[i] = b[i + 1]
    <3>1. Distance(a, b, i, i + 1) = Distance(a, b, i - 1, (i + 1) - 1)
      BY <2>3, <2>4, <2>6, DistanceSteps
    <3>2. (i + 1) - 1 = i
      BY <2>3
    <3> QED BY <2>2, <2>5, <3>1, <3>2
  <2>7. CASE a[i] # b[i + 1]
    <3>1. i \in 0..k - 1
      BY <1>3, <2>3, <2>4, <2>7
    <3>2. Distance(a, b, i, i) = 0
      BY <2>1, <3>1
    <3>3. i \in 1..Len(a) /\ i + 1 \in 1..Len(b) /\ (i + 1) - 1 = i
      BY <2>3, <2>4
    <3> QED BY <2>2, <2>7, <3>2, <3>3, AtMostOneMore
  <2> QED BY <2>6, <2>7
<1> QED BY <1>1, <1>2, <1>3 DEF OneSlip

-----------------------------------------------------------------------------
(* Edits *)

\* Without its k-th letter a word keeps the others in their order.
LEMMA RemovedIs ==
  ASSUME NEW S, NEW q \in Seq(S), NEW k \in 1..Len(q)
  PROVE  /\ RemoveAt(q, k) \in Seq(S) /\ Len(RemoveAt(q, k)) = Len(q) - 1
         /\ \A i \in 1..Len(q) - 1 : RemoveAt(q, k)[i] = IF i < k THEN q[i] ELSE q[i + 1]
<1>1. /\ SubSeq(q, 1, k - 1) \in Seq(S) /\ Len(SubSeq(q, 1, k - 1)) = k - 1
      /\ \A i \in 1..k - 1 : SubSeq(q, 1, k - 1)[i] = q[i]
  OBVIOUS
<1>2. /\ SubSeq(q, k + 1, Len(q)) \in Seq(S) /\ Len(SubSeq(q, k + 1, Len(q))) = Len(q) - k
      /\ \A i \in 1..Len(q) - k : SubSeq(q, k + 1, Len(q))[i] = q[k + i]
  OBVIOUS
<1> DEFINE a == SubSeq(q, 1, k - 1)
           b == SubSeq(q, k + 1, Len(q))
<1>3. RemoveAt(q, k) = a \o b
  BY DEF RemoveAt
<1>4. k \in 1..Len(q) /\ Len(q) \in Nat
  OBVIOUS
<1> HIDE DEF a, b
<1>5. a \in Seq(S) /\ b \in Seq(S) /\ Len(a) = k - 1 /\ Len(b) = Len(q) - k
  BY <1>1, <1>2 DEF a, b
<1>6. a \o b \in Seq(S) /\ Len(a \o b) = Len(q) - 1
      /\ \A i \in 1..Len(q) - 1 : (a \o b)[i] = IF i <= k - 1 THEN a[i] ELSE b[i - (k - 1)]
  BY <1>4, <1>5
<1>7. \A i \in 1..Len(q) - 1 : (a \o b)[i] = IF i < k THEN q[i] ELSE q[i + 1]
  <2> TAKE i \in 1..Len(q) - 1
  <2>1. CASE i < k
    BY <1>1, <1>4, <1>6, <2>1 DEF a
  <2>2. CASE ~(i < k)
    <3>1. i - (k - 1) \in 1..Len(q) - k /\ k + (i - (k - 1)) = i + 1
      BY <1>4, <2>2
    <3>2. b[i - (k - 1)] = q[i + 1]
      BY <1>2, <3>1 DEF b
    <3>3. ~(i <= k - 1)
      BY <1>4, <2>2
    <3> QED BY <1>6, <2>2, <3>2, <3>3
  <2> QED BY <2>1, <2>2
<1> QED BY <1>3, <1>6, <1>7

\* With a letter added it keeps all of them.
LEMMA InsertedIs ==
  ASSUME NEW S, NEW q \in Seq(S), NEW k \in 1..Len(q) + 1, NEW e \in S
  PROVE  /\ InsertAt(q, k, e) \in Seq(S) /\ Len(InsertAt(q, k, e)) = Len(q) + 1
         /\ \A i \in 1..Len(q) + 1 :
              InsertAt(q, k, e)[i] = IF i < k THEN q[i] ELSE IF i = k THEN e ELSE q[i - 1]
<1> DEFINE a == SubSeq(q, 1, k - 1)
           b == SubSeq(q, k, Len(q))
           c == a \o <<e>>
<1>1. a \in Seq(S) /\ Len(a) = k - 1 /\ \A i \in 1..k - 1 : a[i] = q[i]
  OBVIOUS
<1>2. b \in Seq(S) /\ Len(b) = Len(q) + 1 - k /\ \A i \in 1..Len(q) + 1 - k : b[i] = q[k + i - 1]
  <2>1. CASE k = Len(q) + 1
    BY <2>1
  <2>2. CASE k # Len(q) + 1
    <3>1. k \in 1..Len(q)
      BY <2>2
    <3> QED BY <3>1
  <2> QED BY <2>1, <2>2
<1>3. InsertAt(q, k, e) = c \o b
  BY DEF InsertAt
<1>4. Len(q) \in Nat /\ k \in Nat /\ 1 <= k /\ k <= Len(q) + 1
  OBVIOUS
<1> HIDE DEF a, b
<1>5. c \in Seq(S) /\ Len(c) = k /\ c[k] = e /\ \A i \in 1..k - 1 : c[i] = q[i]
  BY <1>1, <1>4
<1> HIDE DEF c
<1>8. b \in Seq(S) /\ Len(b) = Len(q) + 1 - k /\ c \in Seq(S) /\ Len(c) = k
  BY <1>2, <1>5
<1>6. /\ c \o b \in Seq(S) /\ Len(c \o b) = Len(q) + 1
      /\ \A i \in 1..Len(q) + 1 : (c \o b)[i] = IF i <= k THEN c[i] ELSE b[i - k]
  <2>1. c \o b \in Seq(S) /\ Len(c \o b) = Len(c) + Len(b)
        /\ \A i \in 1..Len(c) + Len(b) : (c \o b)[i] = IF i <= Len(c) THEN c[i] ELSE b[i - Len(c)]
    BY <1>8, ConcatProperties
  <2>2. Len(c) + Len(b) = Len(q) + 1
    BY <1>4, <1>8
  <2> QED BY <1>8, <2>1, <2>2
<1>7. ASSUME NEW i \in 1..Len(q) + 1
      PROVE  (c \o b)[i] = IF i < k THEN q[i] ELSE IF i = k THEN e ELSE q[i - 1]
  <2>1. CASE i <= k
    BY <1>4, <1>5, <1>6, <2>1
  <2>2. CASE ~(i <= k)
    <3>1. i - k \in 1..Len(q) + 1 - k /\ k + (i - k) - 1 = i - 1
      BY <1>4, <2>2
    <3>2. b[i - k] = q[i - 1]
      BY <1>2, <3>1
    <3> QED BY <1>4, <1>6, <2>2, <3>2
  <2> QED BY <2>1, <2>2
<1> QED BY <1>3, <1>6, <1>7

\* The edits of a word are what is one slip away from it.
LEMMA EditsAreSlips ==
  ASSUME NEW a \in Seq(Letters), NEW b \in Seq(Letters)
  PROVE  /\ a \in Edits(b) => OneSlip(a, b, Len(a), Len(b))
         /\ OneSlip(a, b, Len(a), Len(b)) => a \in Edits(b)
         /\ Agree(a, b, Len(a), Len(b)) => a = b
<1>0. Len(a) \in Nat /\ Len(b) \in Nat /\ DOMAIN a = 1..Len(a) /\ DOMAIN b = 1..Len(b)
  OBVIOUS
<1>1. ASSUME NEW k \in 1..Len(b), a = RemoveAt(b, k) PROVE OneSlip(a, b, Len(a), Len(b))
  <2>1. /\ Len(a) = Len(b) - 1
        /\ \A i \in 1..Len(b) - 1 : a[i] = IF i < k THEN b[i] ELSE b[i + 1]
    BY <1>0, <1>1, RemovedIs
  <2>2. Len(b) = Len(a) + 1
    BY <1>0, <1>1, <2>1
  <2>3. \A m \in 1..Len(a) : (m < k => a[m] = b[m]) /\ (k <= m => a[m] = b[m + 1])
    BY <1>0, <2>1, <2>2
  <2> QED BY <2>2, <2>3 DEF OneSlip
<1>2. ASSUME NEW k \in 1..Len(b), NEW l \in Letters, a = [b EXCEPT ![k] = l]
      PROVE  OneSlip(a, b, Len(a), Len(b))
  <2>1. Len(a) = Len(b)
    BY <1>2
  <2>2. \A m \in 1..Len(a) : m # k => a[m] = b[m]
    BY <1>0, <1>2, <2>1
  <2> QED BY <2>1, <2>2 DEF OneSlip
<1>3. ASSUME NEW k \in 1..Len(b) + 1, NEW l \in Letters, a = InsertAt(b, k, l)
      PROVE  OneSlip(a, b, Len(a), Len(b))
  <2>1. /\ Len(a) = Len(b) + 1
        /\ \A i \in 1..Len(b) + 1 : a[i] = IF i < k THEN b[i] ELSE IF i = k THEN l ELSE b[i - 1]
    BY <1>3, InsertedIs
  <2>2. \A m \in 1..Len(b) : (m < k => a[m] = b[m]) /\ (k <= m => a[m + 1] = b[m])
    <3> TAKE m \in 1..Len(b)
    <3>1. m < k => a[m] = b[m]
      BY <1>0, <2>1
    <3>2. ASSUME k <= m PROVE a[m + 1] = b[m]
      <4>1. m + 1 \in 1..Len(b) + 1 /\ ~(m + 1 < k) /\ m + 1 # k /\ (m + 1) - 1 = m
        BY <1>0, <3>2
      <4> QED BY <2>1, <4>1
    <3> QED BY <3>1, <3>2
  <2>3. k \in 1..Len(a)
    BY <2>1
  <2> QED BY <2>1, <2>2, <2>3 DEF OneSlip
<1>4. ASSUME a \in Edits(b) PROVE OneSlip(a, b, Len(a), Len(b))
  BY <1>1, <1>2, <1>3, <1>4 DEF Edits
<1>5. ASSUME Len(a) = Len(b), NEW k \in 1..Len(a), \A m \in 1..Len(a) : m # k => a[m] = b[m]
      PROVE  a \in Edits(b)
  <2>1. a[k] \in Letters
    BY <1>0
  <2>2. a = [b EXCEPT ![k] = a[k]]
    <3> DEFINE c == [b EXCEPT ![k] = a[k]]
    <3>1. DOMAIN c = 1..Len(a) /\ c = [m \in 1..Len(a) |-> c[m]] /\ \A m \in 1..Len(a) : c[m] = a[m]
      BY <1>0, <1>5
    <3>2. a = [m \in 1..Len(a) |-> a[m]]
      BY <1>0
    <3> HIDE DEF c
    <3>3. a = c
      BY <3>1, <3>2
    <3> QED BY <3>3 DEF c
  <2> QED BY <1>0, <1>5, <2>1, <2>2 DEF Edits
<1>6. ASSUME Len(a) = Len(b) + 1, NEW k \in 1..Len(b) + 1, NEW l \in Letters, a[k] = l,
             \A m \in 1..Len(b) : m < k => a[m] = b[m],
             \A m \in 1..Len(b) : k <= m => a[m + 1] = b[m]
      PROVE  a \in Edits(b)
  <2> DEFINE c == InsertAt(b, k, l)
  <2>1. /\ c \in Seq(Letters) /\ Len(c) = Len(b) + 1
        /\ \A i \in 1..Len(b) + 1 : c[i] = IF i < k THEN b[i] ELSE IF i = k THEN l ELSE b[i - 1]
    BY InsertedIs
  <2> HIDE DEF c
  <2>2. ASSUME NEW i \in 1..Len(b) + 1 PROVE a[i] = c[i]
    <3>1. CASE i < k
      <4>1. i \in 1..Len(b)
        BY <1>0, <3>1
      <4> QED BY <1>6, <2>1, <3>1, <4>1
    <3>2. CASE i = k
      BY <1>6, <2>1, <3>2
    <3>3. CASE k < i
      <4>1. i - 1 \in 1..Len(b) /\ k <= i - 1 /\ (i - 1) + 1 = i /\ ~(i < k) /\ i # k
        BY <1>0, <3>3
      <4>2. a[(i - 1) + 1] = b[i - 1]
        BY <1>6, <4>1
      <4> QED BY <2>1, <4>1, <4>2
    <3> QED BY <1>0, <3>1, <3>2, <3>3
  <2>3. a = c
    BY <1>6, <2>1, <2>2, SeqEqual
  <2> QED BY <2>3 DEF Edits, c
<1>7. ASSUME Len(b) = Len(a) + 1, NEW k \in 1..Len(b),
             \A m \in 1..Len(a) : m < k => a[m] = b[m],
             \A m \in 1..Len(a) : k <= m => a[m] = b[m + 1]
      PROVE  a \in Edits(b)
  <2> DEFINE c == RemoveAt(b, k)
  <2>1. /\ c \in Seq(Letters) /\ Len(c) = Len(b) - 1
        /\ \A i \in 1..Len(b) - 1 : c[i] = IF i < k THEN b[i] ELSE b[i + 1]
    BY <1>0, RemovedIs
  <2> HIDE DEF c
  <2>2. Len(c) = Len(a)
    BY <1>0, <1>7, <2>1
  <2>3. \A i \in 1..Len(a) : a[i] = c[i]
    BY <1>0, <1>7, <2>1
  <2>4. a = c
    BY <2>1, <2>2, <2>3, SeqEqual
  <2> QED BY <2>4 DEF Edits, c
<1>8. OneSlip(a, b, Len(a), Len(b)) => a \in Edits(b)
  <2>1. \A k \in 1..Len(a) : a[k] \in Letters
    BY <1>0
  <2> QED BY <1>5, <1>6, <1>7, <2>1 DEF OneSlip
<1>9. Agree(a, b, Len(a), Len(b)) => a = b
  BY SeqEqual DEF Agree
<1> QED BY <1>4, <1>8, <1>9

\* A word of three letters or more is found from any slip, and up to five letters
\* nothing but a slip is offered.
LEMMA TyposHeld == ASSUME TypingInv PROVE TyposFound
<1>0. typed \in Seq(Letters) /\ Len(typed) \in Nat
  BY DEF TypingInv
<1> SUFFICES ASSUME NEW w \in Dictionary
             PROVE  /\ Len(typed) > 2 /\ typed \in Edits(w) /\ typed[1] = w[1] => w \in FuzzySearch(typed)
                    /\ w \in FuzzySearch(typed) => typed = w \/ typed \in Edits(w) \/ Len(typed) > 5
  BY DEF TyposFound
<1>1. w \in Seq(Letters) /\ Len(w) \in Nat
  BY TypingAssumption
<1>2. EditDistance(typed, w) = Distance(typed, w, Len(typed), Len(w)) /\ EditDistance(typed, w) \in Nat
  <2>1. EditDistance(typed, w) = Distance(typed, w, Len(typed), Len(w))
    BY DistanceUnfolds, Zenon
  <2>2. Len(typed) \in 0..Len(typed) /\ Len(w) \in 0..Len(w)
    BY <1>0, <1>1
  <2> QED BY <1>0, <1>1, <2>1, <2>2, DistanceSteps
<1>3. ASSUME Len(typed) > 2, typed \in Edits(w), typed[1] = w[1] PROVE w \in FuzzySearch(typed)
  <2>1. OneSlip(typed, w, Len(typed), Len(w))
    BY <1>0, <1>1, <1>3, EditsAreSlips
  <2>2. EditDistance(typed, w) <= 1
    BY <1>0, <1>1, <1>2, <2>1, SlipIsNear
  <2>3. AutoFuzziness(typed) \in {1, 2}
    BY <1>0, <1>3 DEF AutoFuzziness
  <2>4. EditDistance(typed, w) <= AutoFuzziness(typed)
    BY <1>2, <2>2, <2>3
  <2> QED BY <1>3, <2>4 DEF FuzzySearch
<1>4. ASSUME w \in FuzzySearch(typed), ~(Len(typed) > 5) PROVE typed = w \/ typed \in Edits(w)
  <2>1. EditDistance(typed, w) <= AutoFuzziness(typed)
    BY <1>4 DEF FuzzySearch
  <2>2. AutoFuzziness(typed) \in {0, 1}
    BY <1>0, <1>4 DEF AutoFuzziness
  <2>3. EditDistance(typed, w) \in {0, 1}
    BY <1>2, <2>1, <2>2
  <2>4. Len(typed) \in 0..Len(typed) /\ Len(w) \in 0..Len(w)
    BY <1>0, <1>1
  <2>5. Agree(typed, w, Len(typed), Len(w)) \/ OneSlip(typed, w, Len(typed), Len(w))
    BY <1>0, <1>1, <1>2, <2>3, <2>4, NearIsOneSlip
  <2> QED BY <1>0, <1>1, <2>5, EditsAreSlips
<1> QED BY <1>3, <1>4
-----------------------------------------------------------------------------
\* A step of the whole is one of one system, and none of the others.
LEMMA OneSystemSteps ==
  ASSUME [Next]_mcVars
  PROVE  /\ [TransactionsNext]_transactionVars
         /\ [ReplicationNext]_replicationVars
         /\ [GatewayNext]_gatewayVars
         /\ [SearchNext]_<<indexVars, typedVars>>
BY DEF Next, mcVars, InCluster, InCopies, InTx, InIndex, InTyping, InGateway, ReplicationNext,
       transactionVars, replicationVars, searchVars, SearchNext

\* "All or Nothing", tickets never oversold under the row lock, and a follower that
\* agrees with its leader, or differs from it within one burst of overlapping writes,
\* when nothing is on its way: for any number of transfers,
\* buyers and writes, whatever step fails or dies.
THEOREM DataStaysWhole == Spec => []DataKept
<1>1. Init => TransactionsInv /\ ReplicaInv
  BY AccountInitInv, TicketInitInv, ReplicaInitInv DEF Init, TransactionsInv
<1>2. TransactionsInv /\ ReplicaInv /\ [Next]_mcVars => TransactionsInv' /\ ReplicaInv'
  BY OneSystemSteps, TransactionsStep, ReplicationStep
<1>3. TransactionsInv /\ ReplicaInv => DataKept
  BY TransactionsInvHolds, ReplicaInvHolds DEF DataKept
<1> QED BY <1>1, <1>2, <1>3, PTL DEF Spec

\* For any number of requests at any stages: each is logged once with its answer,
\* exactly those that the limiter let through cost their client a token, the total
\* counts what was logged, and nobody is turned away from a service that has not
\* failed often enough or been given two breakers.
THEOREM GatewayAccounts == Spec => []PipelineKept
<1>1. Init => GatewayInv
  BY GatewayInitInv DEF Init
<1>2. GatewayInv /\ [Next]_mcVars => GatewayInv'
  BY OneSystemSteps, GatewayStep
<1> QED BY <1>1, <1>2, GatewayInvHolds, PTL DEF Spec

\* What a search promises, for any documents, texts, keywords and prices, however
\* documents were indexed, indexed again and deleted: a query without must_not finds
\* all that answer it and only what exists, of the documents indexed once exactly
\* those that answer; drilling down into a bucket of an index with a mapping finds all
\* the bucket counted, and just that when nothing found was indexed twice.  And
\* what the box promises, for any phrases, dictionary and limits: the suggestions are
\* the best of the texts that begin with what is typed, a slip in a word of three
\* letters or more is put right, and up to five letters nothing farther off is offered.
THEOREM SearchHolds == Spec => []SearchHelps
<1>1. Init => SearchInv /\ TypingInv
  BY EmptyIndex, TypingInitInv DEF Init, SearchInit
<1>2. SearchInv /\ TypingInv /\ [Next]_mcVars => SearchInv' /\ TypingInv'
  BY OneSystemSteps, SearchStep, TypingStep
<1>3. SearchInv /\ TypingInv => SearchHelps
  BY SearchInvHolds, FacetsHold, BestHeld, TyposHeld
     DEF SearchHelps, IndexAnswers, BoxHelps, SearchAnswers, TypingHelped
<1> QED BY <1>1, <1>2, <1>3, PTL DEF Spec
=============================================================================
