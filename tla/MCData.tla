--------------------------------- MODULE MCData ---------------------------------
(***************************************************************************)
(* Instances of what keeps and finds data and of the gateway in front, for  *)
(* TLC: a cluster of three, transactions, an index with its search box and  *)
(* three requests in the pipeline; `system` says which.                     *)
(***************************************************************************)
EXTENDS Replication, Transactions, Search, Gateway

CONSTANTS n1, n2, n3, w1, w2, w3, b1, b2, d1, d2, r1, r2, r3

VARIABLE system

mcVars == <<system, clusterVars, replicaVars, accountVars, ticketVars, indexVars, typedVars,
            gatewayVars>>

MCNodes    == {n1, n2, n3}
MCLog      == [n \in MCNodes |-> IF n = n1 THEN 3 ELSE IF n = n2 THEN 2 ELSE 1]
MCWrites   == {w1, w2, w3}
MCBuyers   == {b1, b2}
MCTickets  == [u \in MCBuyers |-> IF u = b1 THEN 6 ELSE 7]
MCIds      == {d1, d2}

MCSources ==
  {[name |-> <<"shoe">>, description |-> <<"run", "shoe">>, category |-> "Nike", price |-> 50],
   [name |-> <<"shoe">>, description |-> <<"boot">>, category |-> "nike", price |-> 150],
   [name |-> <<"boot">>, description |-> <<"run">>, category |-> "Nike", price |-> 150]}
MCLower == [v \in {"Nike", "nike"} |-> "nike"]

MCLetters    == {"a", "b", "c"}
MCDictionary == {<<"a", "b", "c">>, <<"a", "c", "b", "b">>, <<"b", "c">>}
MCPhrases ==
  {[text |-> <<"a", "b">>, words |-> {<<"a", "b">>}, weight |-> 1],
   [text |-> <<"a", "b", "c", "c">>, words |-> {<<"a", "b", "c", "c">>}, weight |-> 2],
   [text |-> <<"c", "a", " ", "a", "b">>, words |-> {<<"c", "a">>, <<"a", "b">>}, weight |-> 3]}

MCCalls    == {r1, r2, r3}
MCRole     == [k \in {"alice", "anonymous"} |-> IF k = "alice" THEN "USER" ELSE "PUBLIC"]
MCKinds ==
  LET Order(k)    == [service |-> "orders", caller |-> k, required |-> "PUBLIC"]
      Refused     == [service |-> "users", caller |-> "anonymous", required |-> "USER"]
      Invalid     == [service |-> "users", caller |-> "invalid", required |-> "USER"]
      Nowhere     == [service |-> NoRoute, caller |-> "anonymous", required |-> "PUBLIC"]
  IN  [c \in MCCalls |-> IF c = r1 THEN {Order("alice")}
                         ELSE IF c = r2 THEN {Order("anonymous")}
                         ELSE {Order("anonymous"), Refused, Invalid, Nowhere}]

transactionVars == <<accountVars, ticketVars>>
replicationVars == <<clusterVars, replicaVars>>
searchVars      == <<indexVars, typedVars>>

Init ==
  /\ system \in {"cluster", "copies", "transactions", "index", "typing", "gateway"}
  /\ ReplicationInit /\ TransactionsInit /\ SearchInit /\ GatewayInit
  /\ system # "copies" => synchronous
  /\ system # "transactions" => serializable
  /\ system # "gateway" => request[r3].service = NoRoute

InCluster(A) == system = "cluster" /\ A /\ UNCHANGED <<system, transactionVars, searchVars, gatewayVars>>
InCopies(A)  == system = "copies" /\ A /\ UNCHANGED <<system, transactionVars, searchVars, gatewayVars>>
InTx(A)      == system = "transactions" /\ A
                /\ UNCHANGED <<system, replicationVars, searchVars, gatewayVars>>
InIndex(A)   == system = "index" /\ A
                /\ UNCHANGED <<system, replicationVars, transactionVars, gatewayVars>>
InTyping(A)  == system = "typing" /\ A
                /\ UNCHANGED <<system, replicationVars, transactionVars, gatewayVars>>
InGateway(A) == system = "gateway" /\ A
                /\ UNCHANGED <<system, replicationVars, transactionVars, searchVars>>

Next ==
  \/ InCluster(ClusterManager) \/ InCopies(Leaders)
  \/ InTx(TransactionsNext)
  \/ InIndex(ESIndex) \/ InTyping(AutocompleteEngine \/ Typing)
  \/ InGateway(GatewayNext)

Spec == Init /\ [][Next]_mcVars

\* The manager goes on with its pings and its elections.
FairSpec == Spec /\ WF_mcVars(InCluster(BeginElection)) /\ WF_mcVars(InCluster(EndElection))

\* SearchAnswers and TypingHelped of Search, in the states that are their own.
IndexAnswers == system = "index" => SearchAnswers
BoxHelps     == system = "typing" => TypingHelped

\* FailoverCompletes of Replication, in the behaviours that are its own.
ClusterRecovers == system = "cluster" => FailoverCompletes

\* What is stored stays whole, in one place and in two: TransactionsHold and
\* ReplicasAgree.
DataKept == TransactionsHold /\ ReplicasAgree

\* The index answers for the documents it holds, the box for what is typed.
SearchHelps == IndexAnswers /\ BoxHelps
=============================================================================
