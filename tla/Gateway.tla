-------------------------------- MODULE Gateway --------------------------------
(***************************************************************************)
(* api_gateway/main.py: the pipeline that takes each request through the    *)
(* router, authentication and authorization, the limiter, the registry's    *)
(* breaker of the service, the backend and the log, with requests of several *)
(* threads at different stages.                                             *)
(*                                                                          *)
(* A request is what the stages read of it.  Headers and bodies are left    *)
(* out, and so are the timings; of a breaker there is what decides whether  *)
(* a call may go through (CircuitBreaker has the rest).                     *)
(***************************************************************************)
EXTENDS Integers, FiniteSets

CONSTANTS
  Calls,           \* the requests
  Kinds,           \* of each, what it may be: the service it is routed to or NoRoute,
                   \* what its credentials prove (a client, "anonymous" or "invalid"),
                   \* and the role it needs: [service, caller, required]
  role,            \* the role of every caller
  NoRoute, NoBreaker,
  bucket_size,     \* capacity of the TokenBucketRateLimiter
  failure_limit,   \* failure_threshold of the breakers
  success_limit,   \* and their success_threshold
  MaxRefills

ASSUME GatewayAssumption ==
  /\ bucket_size \in Nat \ {0} /\ failure_limit \in Nat \ {0} /\ success_limit \in Nat \ {0}
  /\ MaxRefills \in Nat /\ NoBreaker \notin Calls

VARIABLES
  request,    \* which of its Kinds each request is
  stage,      \* the next stage of each request
  answer,     \* the status it is answered with, 0 before
  calls_left, \* the tokens of each client
  breakers,   \* service to the identity of its breaker
  mine,       \* the breaker a request was given
  failures, half, state,   \* of each breaker: its counts of failures in a row and of
              \* successes when half open, and its state
  logged,     \* <<request, status>> of every log entry
  total_requests, seen_total,   \* of the MetricsCollector, and as a thread read it
  refills,    \* history: tokens given back to each client
  streak, failed_enough,   \* history: the failures in a row of each service, and the
              \* services that had failure_limit of them
  crowded, \* history: two threads were in the MetricsCollector at once
  twice       \* history: the services that were given a second breaker

gatewayVars == <<request, stage, answer, calls_left, breakers, mine, failures, half, state, logged,
                 total_requests, seen_total, crowded, refills, streak, failed_enough, twice>>

Services == {k.service : k \in UNION {Kinds[c] : c \in Calls}} \ {NoRoute}
Clients  == {k.caller : k \in UNION {Kinds[c] : c \in Calls}} \ {"invalid"}
BreakerIds == Calls      \* a breaker is named for the request that made it

ROLE_HIERARCHY == [r \in {"PUBLIC", "USER", "ADMIN"} |->
                     IF r = "PUBLIC" THEN 0 ELSE IF r = "USER" THEN 1 ELSE 2]

GatewayInit ==
  /\ request \in {f \in [Calls -> UNION {Kinds[c] : c \in Calls}] : \A c \in Calls : f[c] \in Kinds[c]}
  /\ stage = [c \in Calls |-> "router"] /\ answer = [c \in Calls |-> 0]
  /\ calls_left = [k \in Clients |-> bucket_size] /\ refills = [k \in Clients |-> 0]
  /\ breakers = [s \in Services |-> NoBreaker] /\ mine = [c \in Calls |-> NoBreaker]
  /\ failures = [b \in BreakerIds |-> 0] /\ state = [b \in BreakerIds |-> "CLOSED"]
  /\ half = [b \in BreakerIds |-> 0]
  /\ total_requests = 0 /\ seen_total = [c \in Calls |-> 0] /\ crowded = FALSE
  /\ logged = {} /\ streak = [s \in Services |-> 0] /\ failed_enough = {} /\ twice = {}

-----------------------------------------------------------------------------
GoesTo(c, where) == stage' = [stage EXCEPT ![c] = where]

Ends(c, status) == GoesTo(c, "logger") /\ answer' = [answer EXCEPT ![c] = status]

counts == <<request, total_requests, seen_total, crowded>>
breakerVars == <<breakers, mine, failures, half, state, streak, failed_enough, twice>>

Authenticated(c) == request[c].caller # "invalid"
HasRole(c) == ROLE_HIERARCHY[role[request[c].caller]] >= ROLE_HIERARCHY[request[c].required]

\* Router and AuthMiddleware read nothing that is shared.
Admit(c) ==
  /\ stage[c] = "router"
  /\ \/ request[c].service = NoRoute /\ Ends(c, 404)
     \/ request[c].service # NoRoute /\ ~Authenticated(c) /\ Ends(c, 401)
     \/ request[c].service # NoRoute /\ Authenticated(c) /\ ~HasRole(c) /\ Ends(c, 403)
     \/ /\ request[c].service # NoRoute /\ Authenticated(c) /\ HasRole(c)
        /\ GoesTo(c, "limiter") /\ UNCHANGED answer
  /\ UNCHANGED <<calls_left, refills, logged, counts, breakerVars>>

\* Mutant: a refusal costs a token as well.
AllowCharging(c) ==
  /\ stage[c] = "limiter"
  /\ calls_left' = [calls_left EXCEPT ![request[c].caller] = @ - 1]
  /\ IF calls_left[request[c].caller] >= 1 THEN GoesTo(c, "registry") /\ UNCHANGED answer
     ELSE Ends(c, 429)
  /\ UNCHANGED <<refills, logged, counts, breakerVars>>

Allow(c) ==
  /\ stage[c] = "limiter"
  /\ IF calls_left[request[c].caller] >= 1
     THEN /\ calls_left' = [calls_left EXCEPT ![request[c].caller] = @ - 1]
          /\ GoesTo(c, "registry") /\ UNCHANGED answer
     ELSE Ends(c, 429) /\ UNCHANGED calls_left
  /\ UNCHANGED <<refills, logged, counts, breakerVars>>

\* The elapsed time refills a bucket; anonymous callers share one.
Refill(k) ==
  /\ calls_left[k] < bucket_size /\ refills[k] < MaxRefills
  /\ calls_left' = [calls_left EXCEPT ![k] = @ + 1]
  /\ refills' = [refills EXCEPT ![k] = @ + 1]
  /\ UNCHANGED <<stage, answer, logged, counts, breakerVars>>

\* CircuitBreakerRegistry.get takes no lock: it tests, makes, and reads again.
TestBreaker(c) ==
  /\ stage[c] = "registry"
  /\ GoesTo(c, IF breakers[request[c].service] = NoBreaker THEN "make" ELSE "read")
  /\ UNCHANGED <<answer, calls_left, refills, logged, counts, breakerVars>>

MakeBreaker(c) ==
  /\ stage[c] = "make" /\ GoesTo(c, "read")
  /\ twice' = IF breakers[request[c].service] = NoBreaker THEN twice ELSE twice \cup {request[c].service}
  /\ breakers' = [breakers EXCEPT ![request[c].service] = c]
  /\ UNCHANGED <<answer, calls_left, refills, logged, counts, mine, failures, state, half, streak, failed_enough>>

ReadBreaker(c) ==
  /\ stage[c] = "read" /\ GoesTo(c, "breaker")
  /\ mine' = [mine EXCEPT ![c] = breakers[request[c].service]]
  /\ UNCHANGED <<answer, calls_left, refills, logged, counts, breakers, failures, state, half, streak, failed_enough, twice>>

GetBreaker(c) == TestBreaker(c) \/ MakeBreaker(c) \/ ReadBreaker(c)

\* An open breaker lets a call through once its recovery_timeout has passed.
CanAttempt(c) ==
  /\ stage[c] = "breaker"
  /\ \/ state[mine[c]] = "OPEN" /\ Ends(c, 503) /\ UNCHANGED <<state, half>>
     \/ /\ state[mine[c]] = "OPEN" /\ state' = [state EXCEPT ![mine[c]] = "HALF_OPEN"]
        /\ half' = [half EXCEPT ![mine[c]] = 0]
        /\ GoesTo(c, "backend") /\ UNCHANGED answer
     \/ state[mine[c]] # "OPEN" /\ GoesTo(c, "backend") /\ UNCHANGED <<answer, state, half>>
  /\ UNCHANGED <<calls_left, refills, logged, counts, breakers, mine, failures, streak, failed_enough, twice>>

Succeeds(b) ==
  /\ failures' = [failures EXCEPT ![b] = 0]
  /\ half' = [half EXCEPT ![b] = IF state[b] = "HALF_OPEN" THEN @ + 1 ELSE @]
  /\ state' = [state EXCEPT ![b] = IF @ = "HALF_OPEN" /\ half[b] + 1 >= success_limit
                                   THEN "CLOSED" ELSE @]

\* Failures are counted while the breaker is closed; the probe's opens it again.
Fails(b) ==
  LET n == failures[b] + 1
  IN  /\ failures' = [failures EXCEPT ![b] = IF state[b] = "CLOSED" THEN n ELSE @]
      /\ state' = [state EXCEPT ![b] =
                     IF @ = "HALF_OPEN" \/ (@ = "CLOSED" /\ n >= failure_limit) THEN "OPEN" ELSE @]
      /\ UNCHANGED half

\* A reply of 500 or more is a failure, and so is an exception.
RecordReply(c, status) == IF status >= 500 THEN Fails(mine[c]) ELSE Succeeds(mine[c])

Counted(s, failed) ==
  LET n == IF failed THEN streak[s] + 1 ELSE 0
  IN  /\ streak' = [streak EXCEPT ![s] = n]
      /\ failed_enough' = IF n >= failure_limit THEN failed_enough \cup {s} ELSE failed_enough

\* 500 stands for the other failures too.
CallBackend(c) ==
  /\ stage[c] = "backend"
  /\ \E status \in {200, 404, 500} :
       /\ Ends(c, status)
       /\ RecordReply(c, status)
       /\ Counted(request[c].service, status >= 500)
  /\ UNCHANGED <<calls_left, refills, logged, counts, breakers, mine, twice>>

\* The log entry; MetricsCollector.record then adds to total_requests without a lock.
LogCall(c) ==
  /\ stage[c] = "logger" /\ GoesTo(c, "record")
  /\ logged' = logged \cup {<<c, answer[c]>>}
  /\ crowded' = (crowded \/ \E d \in Calls : stage[d] \in {"record", "total"})
  /\ UNCHANGED <<request, answer, calls_left, refills, total_requests, seen_total, breakerVars>>

ReadRequests(c) ==
  /\ stage[c] = "record" /\ GoesTo(c, "total")
  /\ seen_total' = [seen_total EXCEPT ![c] = total_requests]
  /\ UNCHANGED <<answer, calls_left, refills, logged, request, total_requests, crowded, breakerVars>>

WriteRequests(c) ==
  /\ stage[c] = "total" /\ GoesTo(c, "answered")
  /\ total_requests' = seen_total[c] + 1
  /\ UNCHANGED <<answer, calls_left, refills, logged, request, seen_total, crowded, breakerVars>>

RecordCall(c) == ReadRequests(c) \/ WriteRequests(c)

Handle(c) ==
  \/ Admit(c) \/ Allow(c)
  \/ GetBreaker(c) \/ CanAttempt(c) \/ CallBackend(c) \/ LogCall(c) \/ RecordCall(c)

GatewayNext == (\E c \in Calls : Handle(c)) \/ \E k \in Clients : Refill(k)
-----------------------------------------------------------------------------
PastLimiter(c) ==
  /\ request[c].service # NoRoute /\ Authenticated(c) /\ HasRole(c)
  /\ stage[c] \notin {"router", "limiter"} /\ answer[c] # 429

\* However the stages of several requests interleave: each is logged once, with the
\* status it is answered with; of every client exactly the requests the limiter let
\* through cost a token; and the total counts what was logged, if never two at once.
EachAccountedFor ==
  /\ \A c \in Calls : stage[c] \in {"record", "total", "answered"} =>
       {l \in logged : l[1] = c} = {<<c, answer[c]>>}
  /\ \A k \in Clients :
       bucket_size + refills[k] - calls_left[k]
         = Cardinality({c \in Calls : request[c].caller = k /\ PastLimiter(c)})
  /\ total_requests <= Cardinality(logged)
  /\ ~crowded /\ (\A c \in Calls : stage[c] \notin {"record", "total"}) =>
       total_requests = Cardinality(logged)

\* Nobody is turned away from a service that has not failed failure_limit times in a
\* row, other services' failures and refusals notwithstanding, as long as the
\* registry gave the service one breaker.
ShortCircuitEarned ==
  \A c \in Calls : answer[c] = 503 =>
    request[c].service \in twice \cup failed_enough

\* "Circuit Breaker Registry (one per service)".
OneBreakerEach == twice = {}

\* What the pipeline keeps.
PipelineKept == EachAccountedFor /\ ShortCircuitEarned
=============================================================================
