----------------------------------- MODULE Rpc -----------------------------------
(***************************************************************************)
(* RPCServer of message_queue/patterns.py: callers append a request that    *)
(* names their own reply queue and poll that queue until a deadline; serve  *)
(* empties the request queue, then handles and answers one by one. A        *)
(* handler that raises ends serve, and the requests it held are gone.       *)
(* A request, its payload and its reply queue are named by the caller.      *)
(***************************************************************************)
EXTENDS Naturals, Sequences, FiniteSets

CONSTANTS RpcClients, RpcServers, Nobody

ASSUME RpcAssumption == Nobody \notin RpcClients

VARIABLES
  requests,      \* _request_queue
  reply_queue,   \* _reply_queues: whose requests the replies in each answer
  call_at,       \* where each caller stands
  got,           \* what each call returned: whose reply, or Nobody for None
  serving,       \* what is left of the local list `requests` of each serve
  result,        \* the request a serve has handled and not yet answered
  lost           \* requests dropped by a serve that raised

rpcVars == <<requests, reply_queue, call_at, got, serving, result, lost>>

RpcInit ==
  /\ requests = <<>>
  /\ reply_queue = [c \in RpcClients |-> <<>>]
  /\ call_at = [c \in RpcClients |-> "new"]
  /\ got = [c \in RpcClients |-> Nobody]
  /\ serving = [s \in RpcServers |-> <<>>]
  /\ result = [s \in RpcServers |-> Nobody]
  /\ lost = {}

SendRequest(c) ==
  /\ call_at[c] = "new"
  /\ requests' = Append(requests, c)
  /\ call_at' = [call_at EXCEPT ![c] = "polling"]
  /\ UNCHANGED <<reply_queue, got, serving, result, lost>>

\* A reply with another correlation id would be dropped and polling go on.
PollReply(c) ==
  /\ call_at[c] = "polling" /\ reply_queue[c] # <<>>
  /\ reply_queue' = [reply_queue EXCEPT ![c] = Tail(@)]
  /\ IF Head(reply_queue[c]) = c
     THEN got' = [got EXCEPT ![c] = c] /\ call_at' = [call_at EXCEPT ![c] = "returned"]
     ELSE UNCHANGED <<got, call_at>>
  /\ UNCHANGED <<requests, serving, result, lost>>

CallTimesOut(c) ==
  /\ call_at[c] = "polling"
  /\ call_at' = [call_at EXCEPT ![c] = "timed_out"]
  /\ UNCHANGED <<requests, reply_queue, got, serving, result, lost>>

TakeRequests(s) ==
  /\ serving[s] = <<>> /\ result[s] = Nobody /\ requests # <<>>
  /\ serving' = [serving EXCEPT ![s] = requests]
  /\ requests' = <<>>
  /\ UNCHANGED <<reply_queue, call_at, got, result, lost>>

HandleRequest(s) ==
  /\ serving[s] # <<>> /\ result[s] = Nobody
  /\ result' = [result EXCEPT ![s] = Head(serving[s])]
  /\ serving' = [serving EXCEPT ![s] = Tail(@)]
  /\ UNCHANGED <<requests, reply_queue, call_at, got, lost>>

ServeRaises(s) ==
  /\ serving[s] # <<>> /\ result[s] = Nobody
  /\ lost' = lost \cup {serving[s][i] : i \in DOMAIN serving[s]}
  /\ serving' = [serving EXCEPT ![s] = <<>>]
  /\ UNCHANGED <<requests, reply_queue, call_at, got, result>>

SendReply(s) ==
  /\ result[s] # Nobody
  /\ reply_queue' = [reply_queue EXCEPT ![result[s]] = Append(@, result[s])]
  /\ result' = [result EXCEPT ![s] = Nobody]
  /\ UNCHANGED <<requests, call_at, got, serving, lost>>

ServeRpc(s) == TakeRequests(s) \/ HandleRequest(s) \/ ServeRaises(s) \/ SendReply(s)
CallRpc(c)  == SendRequest(c) \/ PollReply(c) \/ CallTimesOut(c)

RpcNext == (\E c \in RpcClients : CallRpc(c)) \/ (\E s \in RpcServers : ServeRpc(s))

RpcSpec == RpcInit /\ [][RpcNext]_rpcVars
-----------------------------------------------------------------------------
\* The places a request of c, or its reply, can be in.
Places(c) ==
  {<<"requests", i>> : i \in {k \in DOMAIN requests : requests[k] = c}}
  \cup {<<"result", s>> : s \in {r \in RpcServers : result[r] = c}}
  \cup (UNION {{<<"reply", d, i>> : i \in {k \in DOMAIN reply_queue[d] : reply_queue[d][k] = c}}
               : d \in RpcClients})
  \cup (UNION {{<<"serving", s, i>> : i \in {k \in DOMAIN serving[s] : serving[s][k] = c}}
               : s \in RpcServers})

\* With several servers and callers that give up, every request is in one place
\* or has been answered or lost, once; nobody gets the answer to another's
\* request; and the late answer to a call that timed out stays in its own queue.
AnsweredOnceToItsCaller ==
  \A c \in RpcClients :
    /\ Cardinality(Places(c)) + (IF c \in lost THEN 1 ELSE 0)
         + (IF got[c] = c THEN 1 ELSE 0) = (IF call_at[c] = "new" THEN 0 ELSE 1)
    /\ \A i \in DOMAIN reply_queue[c] : reply_queue[c][i] = c
    /\ call_at[c] = "returned" <=> got[c] = c
=============================================================================
