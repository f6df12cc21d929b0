# Verification of the system-design building blocks

This directory holds TLA+ models of the stateful components of the repository, the
TLC configurations that check them on small instances, and TLAPS proofs that hold
for every instance. Python sources are named relative to `src/`.

The repository is a set of independent packages, one per topic of system design.
Each is a simulation in memory, with Python threads and `threading.Lock` where it
is concurrent. Packages import nothing from each other (the gateway and the
message-queue packages import their own siblings), so there is one model per
component and no global composition. Components interact inside a package: through
shared objects, locks, a condition variable and callbacks.

## Inventory

| component | state | operations | what is hard | what makes it correct |
|---|---|---|---|---|
| Task queue, workers, result backend (`async_workers/task_queue.py`) | heap, revoked set, counters; per worker its loop; task fields; records with a TTL | enqueue, dequeue, revoke, start, stop, execute, retry after a delay, store, get | condition variable, retry threads, timeouts that abandon a running function, stop and revoke at any time | one owner per task, bounded attempts, no lost wake-up, truthful records, every submission settles |
| Async patterns, pools (`async_workers/patterns.py`, `worker_types.py`) | batch and totals; saga log; futures, job records | add, flush, saga steps and compensations, fan-out, map, gather, submit, wait | two flushers, compensation failing, pollers that give up | each item in one batch, in order; a saga all or compensated; results final |
| Gateway circuit breaker (`api_gateway/circuit_breaker.py`) | state, two counters, `opened_at` | can_attempt, record_success, record_failure, call | results recorded in a later state than the one that admitted the call; calls that never return | transitions earned by results; converges with the backend's health |
| Gateway pipeline (`api_gateway/main.py` and its siblings) | buckets, breakers by service, log, metrics | handle a request through its stages | registry and metrics without a lock; stages of several requests interleave | each request logged once with its answer; refusals earned |
| Idempotency middleware (`idempotency/idempotency_key.py`) | records by key, shared by reference | get, set, delete, execute | check-then-act over locked calls, records written field by field, failing operations, expiry | at most one effect per key, no orphaned key, truthful replies |
| Delivery, database patterns, HTTP methods (`idempotency/` otherwise) | topic, seen ids, outbox, rows with versions, users | send, consume, process, relay_outbox, upsert, update_with_retry, the five methods | check, handle and mark apart; two relays that die; rows replaced under a caller; retried requests | how often a message takes effect; no update lost; a retry changes nothing |
| RabbitMQ simulation (`message_queue/rabbitmq_simulation.py`) | pending deque, unacked dict, dead letters, counters, bindings | put, get, ack, nack, requeue_unacked, consume, bind, publish | stale delivery tags, redelivery, retry limits, overlapping patterns | conservation, retry budget, copies go where bound |
| Kafka simulation (`message_queue/kafka_simulation.py`) | logs, offsets, committed offsets, assignments | send, append, read, compact, assign, commit_offset, poll | commits across a rebalance, failures inside a batch, compaction under readers | commit follows work, nothing unseen, latest value kept, order per key |
| Messaging patterns (`message_queue/patterns.py`) | queues, heaps, reply queues | competing consumers, priority, delay, RPC, publish-subscribe | timeouts against late replies, clock read outside the lock | each message once, urgent first, replies to their callers |
| Cache patterns, stampede (`caching/cache_patterns.py`, `cache_stampede.py`) | cache, database, write queue; entry, `_refreshing` | read, write, flush, stop, get, refresh | stale fill after an invalidation, order of two stores, expiry during a query | staleness bounded; one query per miss |
| Eviction, Redis structures, CDN edge (`caching/eviction_policies.py`, `redis_data_structures.py`, `cdn/edge_caching.py`) | dictionaries with lists, buckets and deadlines beside them | get, put, sweep; the commands; request, push, purge | two structures out of step over a long sequence of calls | evicts by policy; answers as Redis; stays bounded |
| Load balancers (`load_balancer/`) | indices, weights, connection counts, hash ring | get_server, connect, release, add, remove, health marks | pointer and weights carried over removals and failures | fair shares; only a server's own clients move |
| Rate limiters (`rate_limiting/`) | buckets, windows, logs | allow_request, get_status | status read outside the lock, window boundaries | admissions bounded in every stretch of time |
| Health checks, autoscaling (`health_autoscaling/`) | nodes and their load; instance states | evaluate, distribute, probe, restart | rounding in both directions; probes of busy and of dead nodes | no flapping; a pool that recovers |
| Replication, election (`database_repl/`) | node status, log index, leader; two copies | heartbeat, elect, write, replicate | a death during an election, reordered replication | failover completes; copies agree |
| Transactions, isolation (`database/`) | storage, workspace, inventory | begin, update, commit, rollback, purchase | failure at every step; lost update | all or nothing; never oversold |
| Search engine (`search_engine/`) | documents, posting lists, keyword fields, n-grams | index, delete, query, aggregate, suggest | what earlier versions leave behind | found is what answers; facets drill down |
| Standalone breaker, sharding, auth, serialization, tracing and metrics, webhooks and polling | mostly none, or one thread's | | little or no interleaving | see "Not modelled" |

The hazards of this code, each at its line, are in `PROJECT.json` under `hazards`,
with the properties that cover them or the reason none does.

## Modules

| modules | what they model |
|---|---|
| `TaskQueue`, `TaskLifecycle` | queue, workers, retry threads, abandoned bodies, result backend; the abstract specification of what may happen to one task |
| `CircuitBreaker`, `CircuitBreakerHistory` | the breaker and the threads that call through it; the same with a history of the results recorded |
| `IdempotencyKey` | `execute` over the store, step by step |
| `RabbitQueue`, `KafkaLog` | a queue with its consumers; a partition with its group, and a topic with keyed sends and the assignment of its partitions |
| `Routing` | exchanges, bindings and publish-subscribe |
| `WorkQueue`, `Rpc`, `TimedQueues` | competing consumers; request and reply; the priority and the delay queue |
| `CachePatterns`, `Stampede` | the patterns over one cache and database; the mutex, background refresh and XFetch around one entry |
| `Eviction`, `EdgeCache`, `Redis` | the eviction policies; an edge server; the Redis structures |
| `Delivery`, `RowPatterns`, `HttpMethods` | delivery guarantees and the outbox; upsert, unique key, optimistic lock; retried HTTP requests |
| `Saga`, `Batching`, `Pools` | saga and pipeline; batch processor; fan-out, map and gather, and the background jobs with those who wait for them |
| `RateLimiters`, `HashRing`, `Balancers`, `Scaling` | limiters; consistent hashing; rotations and connection counts; scaling group and probes |
| `Replication`, `Transactions`, `Search`, `Gateway` | cluster and copies; transactions and purchases; index and search box; the pipeline |
| `MC...` | instances for TLC |
| `TaskQueueProof`, `CircuitBreakerProof`, `IdempotencyKeyProof`, `MessagingProof`, `CachingProof`, `WorkflowsProof`, `TrafficProof`, `DataProof` | theorems |

An action is a critical section, or a stretch of thread-local code between two points
at which another thread can see a difference. Definitions commented `Mutant:` are
plausible bugs; a property is kept only if TLC refutes it when one of them takes the
place of the definition it mutates. Variables commented `history` are not in the
code: they remember what properties need.

### How instances are composed

The components of a package share nothing, so an MC module such as `MCMessaging`
holds several of them side by side: the variable `system` says which one a behaviour
is of, `In...(A)` lets only its actions happen, and the variables of the others stay
as they began. A behaviour of the composed specification is thus a behaviour of one
component, each component has all its behaviours, and a property of one of them
speaks only of its own. `MCTaskQueue` adds the accounting property to its queue; the breaker
needs no instance module.

### Task queue

`heap` is the heap as a set: `Before` is its order on `(priority, created_at)`,
and `Take(w, t)` returns the least unrevoked task and drops the revoked ones in
front of it, as the loop of `dequeue` does in one critical section;
`DropRevoked` is the case in which nothing else is left. `pc` has a value for
each place of `_run_loop` where another thread may run: `waiting` is
`Condition.wait`, `woken` a thread that was notified and has not got the lock
yet, `claimed` a task in hand, `executing`, and `storing` between the verdict and
`backend.store`. `Fail` and `TimeOut` are the two ways into the `except` branch,
a timeout leaving a body behind (`zombies`). `delayed` holds the tasks whose
`delayed_requeue` thread sleeps. Delays, timeouts and TTLs may elapse at any
moment, so that nothing shown depends on the clock. `stop()` on a worker may be
followed by `start()` once its thread has left the loop.

`TaskLifecycle` says of one task: attempts one at a time, at most
`max_retries + 1`; success in an attempt, failure only in the last, cancellation
between two; verdicts final. The refinement maps the attempts to `retry_count`
plus the attempt under way, the tasks being attempted to the status RUNNING, and
the verdict to the terminal statuses.

`Pools` holds the patterns that run many functions: fan-out, map and gather over a limited number of
threads, and the jobs of `worker_types.py`. A task is submitted and its future registered in two
steps, so it may end before it is registered. Any number of callers may be in `wait_all` at once,
each for the futures registered when it called; one that gave a timeout may give up first, and
nothing is promised to it. `before` remembers what had been submitted when a caller began to wait.

### Circuit breaker and gateway

`Admit` is `can_attempt` returning True; a rejected call changes statistics only
and is a stutter. `Answer` is the backend's reply, under the `backend` variable:
"up" answers with success, "down" with failure, "flaky" with either.
`RecordSuccess` and `RecordFailure` run in whatever state the breaker has reached
by then. `cooled` says that `recovery_timeout` has elapsed since `opened_at`. The
history counts runs of recorded results up to the thresholds; it observes the
`pc` of the callers and never the counters of the code, so that comparing the two
says something.

`Gateway` takes each request through one action per stage of `main.py`, with the early
return of every stage. The registry tests for a breaker and creates it in two steps, and
the collector's `+=` is a read and a write, because neither has a lock. A request is
what the stages read of it: the service it is routed to, whom its credentials prove,
the role it needs. Breakers are kept only as far as they decide who goes through.

### Idempotency

Each locked store call of `execute` is an action, and so is each write to the
shared record that another thread can see: `MarkComplete` sets the status and
`StoreComplete` the rest. `existing` is the reference `execute` holds. A request
is either "retrying" (sent only when none with its key is in flight) or
"overlapping", as `discipline` fixes it for a behaviour: the guarantees of the code
differ between the two, and the properties say how. `operation()` raises without
effect or returns with one. The request fingerprint is stored and never compared
by the code, hence not modelled.

`Delivery` has producers whose network drops what they send, the unlocked broker whose
`consume` copies and empties the queue in two steps, and consumer threads for which the
test for a duplicate, the handler and the mark are three steps; a window may lapse and
a handler may raise. In the outbox a relay may die between publishing and marking, and
two relays may read the same events. `RowPatterns` names a row by the thread that
inserted it and follows `upsert` field by field, since it has no lock; of optimistic
locking each locked call is a step. `HttpMethods` answers each request and then once more,
as for a client that lost the first response.

### Messaging

`RabbitQueue` has one action per locked queue method and follows `consume`: `Get`,
`PutBack` (the message over `num_messages`), `Handle`, `Settle`. A message is its
own delivery tag, because `put` assigns the tag once and redelivery keeps it.
`Disconnect` is the use `requeue_unacked` documents; since it requeues the
messages of all consumers, the others go on with stale tags. `answers` remembers
what handlers said.

`KafkaLog` splits `poll` at its lock boundaries: the committed offset is read,
the slice is fetched, each message is handled and, if acknowledged, committed.
`Slice` takes an index range as the code does. `committed` is the offset plus one,
so that -1 is 0. The topic, in the same module, has producers that find the partition of a
message and append it in two steps, and `assign` as its round robin computes it.

`Routing` lets calls of publish and bind interleave. `PublishThrough` begins a call and notes how
many bindings there were; then it passes one binding of the live list after the other, as the
loops do, and may meet one appended in the meantime; the return value is counted at the end,
over whatever the list has become. A topic pattern and a key are sequences of words and `Matches`
follows the matching of the code, which differs from its documentation (see below); which
bindings match a call is the same operator in the actions and in `RightlySent`, so the property
is about delivery, not about matching. In the topic of `KafkaLog` a record remembers how many messages
there were when its send began and when it ended (`began`, `ended`): of one key, a message whose
send had ended before that of another began is in front of it. `WorkQueue` and `Rpc` split the loops at their locks, with handlers that raise;
in `TimedQueues` the delay queue reads its clock before it takes the lock.

### Caching

`CachePatterns` runs client threads over one cache and one database, neither of them
locked; each access to one of the two is a step, and so are `Queue.empty`, `get` and
`put`. Values are versions in the order in which writes begin. `pattern` fixes the
class for a behaviour; read-through and the reads of the other classes take the same
steps as cache-aside. `solo` is the discipline under which "cache is ALWAYS
consistent with DB" can be meant at all: clients write one at a time over a cache that
began level with the database. Without it two write-through writers may update cache
and database in opposite orders and leave them apart for good. In `stop`,
`flush_now` competes with the flusher for the queue: either may overwrite newer values with
the older ones in its hands, and either may block in `get` after the other took the last item.
The flush properties therefore end where `stop` begins.

`Stampede` is one entry and the threads that get it. Only the age of an entry
matters, since it is written as a whole; it may pass a TTL at any moment. `queries`
counts the queries stored since the entry last expired. `holder` is the lock of the
key; `refreshing` is membership in `_refreshing`, tested and set under its lock,
and `refresh` counts the refresh threads. XFetch, in the same module, has a clock; its
logarithm is a jitter whose sign is the one the code computes, which puts the threshold
at the expiry or after it, against what `cache_stampede.py:40` promises: see `RecomputesEarly`
below, and `ExpiryFirst` among the proofs.

`Eviction` keeps the code's structures (ordered dictionary, frequency buckets with
`min_freq`, deadlines) beside histories of uses that know nothing of them; the property
compares the two. `EdgeCache` keeps the LRU list as a list, duplicates and all: `owed` counts
the entries too many, each of which will cost an eviction that raises KeyError, and `later` is the
order of uses the list is compared with. `Redis` compares a string with what a server that forgets
it at its deadline would hold, a list with everything ever pushed, and a hash, a set and a
sorted set with what their commands reported. After an INCR of an expired value (`stale_incr`)
the string may be missing or count less than it should, never more, until a SET or DEL.

### Traffic

`RateLimiters` has several threads call one limiter for one client. Requests of the buckets
are under a lock; `get_status` refills the same bucket without it, and the windows have no lock
at all, so every load and every store of the level, the stamp, the count, the window's start
and the log is a step, and each call holds what it has read. While two calls are in progress
(`crowded`) nothing useful can be promised of what passes; the history `admitted` starts anew
when they have all returned, and `RateHeld` says that what they left behind lets nobody through
afterwards who should not be. The client's bucket exists from the start. `get_status` of the
windows only reads and is left out.

`HashRing` keeps the sorted list and the map as two structures, the list as how often each
position is on it, which is all that sorting leaves to know: a server registered twice is on it
twice, and removed once. A lookup that ends on a position left over in this way raises KeyError;
`OnlyItsClientsMove` sets aside just the clients whose scan ends there (`Spoiled`). Of all others it
says which server a change may move them from and to: one that served before and does not
now, or one that serves now and did not.

`Balancers`, rotations: `get_server` is under the balancer's lock, so one pick is under way at a
time. Its steps are one reading of the list of servers (a comprehension; health marks fall before
or after it) and one load or store of the index; the smooth algorithm reads the health of the servers
twice (`ListHealthy`, `TotalWeight`). Past the lock one administering thread adds and removes: a
registration of the expanded list empties it, extends it server by server and resets the index last;
a removal replaces the list, reads the index and writes it back. A server may be registered more than
once. Health changes at any moment. `turn` holds what was picked since the pool last changed; a
pick the pool changes under is `torn` and starts no sequence. `unrest` counts changes of health and
servers that come late to a smooth rotation, `spoiled` says that something changed between the two
readings of a smooth pick or that a server was registered again; `SharesByWeight` names where each
limits what it promises. `Only` stands for `SelectSeq`, of which the provers know nothing. The
second section picks and connects under the lock and releases past it.

`Scaling` shares traffic out and evaluates in steps of their own; its group begins with one
node whatever `min_size` is, as the constructor leaves it, and never scales in below it; the
probes sweep instances one by one while they boot, deadlock or lose their database.

### Data

In `Replication` an election chooses, sleeps and appoints in two steps, and nodes
die in between; a follower's replication threads write in any order. `burst` holds the
writes begun since nothing was last on its way to the follower: `ReplicasAgree` lets the
copies hold different writes of one burst and nothing else. `Transactions`
fails, rolls back or is cut off after every step; under the level "serializable" a buyer holds
the row lock throughout its purchase, otherwise two may read the same inventory. `Search` indexes, replaces and deletes
documents and evaluates queries as the sets of documents they return; a text is the
sequence of its terms. `FacetedSearch` keeps a document when the whole query is a stretch of one of its
fields (`Within`), which over characters is a substring and here is a run of whole terms. A terms
aggregation shows the first `agg_size` buckets. `match_phrase` is what the code makes of it, a
query for all terms in any order.

## Runs

| run | result | states | what it shows |
|---|---|---|---|
| `TaskQueue` | holds | 62,756 | ownership, wake-ups, records, accounting, revocation, refinement of `TaskLifecycle`, every submission settles |
| `CircuitBreaker` | holds | 3,666 | transitions earned and prompt; the breaker follows a backend that stays up or down |
| `IdempotencyKey` | holds | 128,400 | no orphan, true replies; at most once and always served for clients that wait |
| `Messaging` | holds | 819,680 | conservation, retry budget; commit follows work, compaction; one worker or server per message, answers to their callers; urgent first, never early; no binding passed over while others bind, order per key; deliveries finish |
| `Caching` | holds | 326,746 | what a cache may hold and when it agrees with the database; flushing keeps order and completes; one query per miss, one refresh at a time, entries renewed; evictions by policy; edge and list keep together, commands answer as Redis |
| `Workflows` | holds | 308,864 | effects at most once per thread; events published as promised and in the end; rows and updates kept; retries change nothing; sagas undone; batches disjoint, ordered and flushed; results final |
| `Traffic` | holds | 2,162,852 | races of callers let nobody through later; only clients of the server that came or went move; loads shared by weight and by connections; no flapping; the pool recovers |
| `Data` | holds | 1,180,702 | all or nothing, never oversold, copies agree; queries, facets and suggestions; requests accounted for, refusals earned; failover completes |
| `TaskQueue_overlap` | violated | | a timeout does not terminate the function; the retry runs beside it |
| `IdempotencyKey_twice` | violated | | two overlapping requests both execute |
| `Messaging_compacted` | violated | | after compaction a fetch skips messages the log still holds |
| `Data_must_not` | violated | | a query with should and must_not returns what must_not excludes |

The violated ones are disagreements between the code and its own documentation;
`PROJECT.json` quotes both sides under `findings`. Twenty-two more statements of the
documentation stand at the end of their modules, each with the words it quotes. No run
keeps them; TLC refutes each when it is added to the configuration of its component:

| statement | module | what happens instead |
|---|---|---|
| `OneProbe` | `CircuitBreaker` | HALF_OPEN lets every caller through |
| `StoredResultReturned` | `IdempotencyKey` | an overlapping duplicate is answered from a half-written record |
| `DeadLettersWereTried` | `RabbitQueue` | nacks at the message limit use up the retries of a message nobody handled |
| `CommittedWereAcked` | `KafkaLog` | a later message's commit covers a failed one |
| `ReturnsWhatItPut` | `Routing` | a queue bound while a direct or fanout publish is under way is counted and gets no copy |
| `HashMatchesZeroWords` | `Routing` | `order.#` does not match `order` |
| `EvictionFindsKey` | `EdgeCache` | a path pushed twice is listed twice; evicting it again raises KeyError |
| `IncrStartsAtZero` | `Redis` | INCR goes on from an expired value |
| `RPopReturnsCount` | `Redis` | RPOP with a count of 0 takes the whole list |
| `RecomputesEarly` | `Stampede` | the logarithm is negative: a get that draws a small number renews later, never before the expiry |
| `MapKeepsOrder` | `Pools` | results come in the order of completion |
| `TokenOperationsAtomic` | `RateLimiters` | a status read undoes a consumption |
| `LimitInAnyWindow` | `RateLimiters` | two threads test the log before either appends |
| `RemovedLeavesRing` | `HashRing` | a server registered twice leaves its positions behind, without an entry in the map |
| `IndexIsClamped` | `Balancers` | `remove_server` clamps the index by the servers, not by the healthy ones, and writes it over the one `get_server` has just wrapped: IndexError |
| `SumsToNothing` | `Balancers` | a server fails between the two readings of a pick: the total is not what was given out |
| `SwapIsOneEdit` | `Search` | a swap of neighbours is two edits, so a word of up to five letters is not found |
| `PhraseInOrder` | `Search` | `match_phrase` takes the terms in any order and anywhere |
| `FacetCountsItsResults` | `Search` | a facet counts a value as written, its filter takes every spelling in upper and lower case |
| `OneBreakerEach` | `Gateway` | two requests create a breaker each |
| `DeadDoNotLead` | `Replication` | a node that dies during the election is appointed |
| `EventuallyConsistent` | `Replication` | copies of two writes arrive in the wrong order and stay apart |

Where such a statement fails, the property that holds says what is left of it:
`TransitionsEarned`, `RetryingSafe`, `QueueKept`, `LogKept`, `RoutedToTheBound`,
`EdgeKept`, `AnswersAsRedis`, `OneResultEach`, `RateHeld`, `OnlyItsClientsMove`, `LoadShared`,
`FacetsDrillDown`, `TyposFound`, `ShortCircuitEarned`, `FailoverCompletes`, `ReplicasAgree`. Two
consequences of `_rebuild_rotation` (`weighted_round_robin.py:123-127`) running past the lock
can be seen in the model, too: a pick finds the list emptied after it was chosen from it and divides by
zero, and an index written back after the reset may point beyond a shorter list, where every
later pick raises IndexError until the next registration.

### Bounds

- `TaskQueue`: two tasks (one with a retry and a timeout, one more urgent) and two
  workers, one of which may be stopped and restarted. Two tasks are what priority,
  skipping a revoked task and a second notification need; two workers compete, and
  with a body left behind three executions can overlap. The state space is finite
  without a bound on steps.
- `CircuitBreaker`: three callers, one of which may hang; both thresholds 2, so that
  a count can be stale, reset or one short. No bound on calls.
- `IdempotencyKey`: three requests share a key, so that a third meets what two
  racing ones left behind; a fourth uses another key. The three are symmetric.
- `Messaging`: two messages, two consumers, one limited to one message, one
  disconnect (`MaxDisconnects`), two delivery attempts; three offsets
  (`MaxOffset`), one key besides the empty one, batches of two, one rebalance
  (`MaxRebalances`) and one failing handler (`MaxNacks`). Two messages of one key
  are enough for compaction to remove one, and the third arrives after it. Three items
  for two workers; three callers of two servers, so that a late reply finds another
  call waiting; three entries (`MaxEntries`) of two priorities or delays and two ticks
  (`MaxTime`); two bindings (`MaxBindings`) and two messages (`MaxPublished`) over
  patterns that overlap, so that one is bound, or a call begins, while another is halfway through the
  list; two producers of two messages each (`MaxSent`), three partitions and two members.
- `Caching`: two clients, three writes (`MaxWrites`), batches of two, so that a third
  write starts a second batch; three threads, so that one waits for the lock while
  another finds the entry renewed. Three keys for a capacity of two and five operations
  (`MaxUses`): enough to fill a cache, make its order and its frequencies disagree and evict.
  A list of four paths (`MaxListed`) at the edge and two ticks (`MaxEdgeTime`) for a
  lifetime of one; two gets of an XFetch entry with a lifetime of two over five ticks
  (`MaxNow`, `MaxJitter`); five commands (`MaxRedisOps`, `MaxRedisTime`), enough for an INCR between an
  expiry and the next SET.
- `Workflows`: two producers, one that retries, two sends each (`MaxSends`) and two
  consumer threads; two orders, two relays, two deaths (`MaxCrashes`); three threads and two
  attempts on the rows, so that one can be overtaken in both; two ids (`MaxId`); four
  steps of a saga, so that a compensation fails between two others; three items in
  batches of two beside the timer and stop; four inputs for two places; two jobs.
- `Traffic`: capacity and limit 2, two threads (`Callers`), which is what a lost update
  takes, and three ticks (`MaxClock`), one more than a window; three ring servers with two virtual
  nodes each, each of which may be registered twice at once (`MaxCopies`); three registrations
  (`MaxPool`), two changes of health (`MaxFlaps`), one server of weight two and four
  picks (`MaxPicks`), a full turn of all three; four requests of the counting balancers; loads on
  both sides of the thresholds and of the largest group, a `min_size` of 2 over a first
  size of 1; two faults (`MaxFaults`) on two instances.
- `Data`: three nodes with logs of different lengths, three writes to one key; two transfers
  of which one overdraws; two buyers who together want more than there is; two documents
  and four calls of index (`MaxTotal`), three sources that share words and differ in the
  case of a category, aggregations cut to one bucket (`agg_size`); four typed letters (`MaxTyped`); three requests, two failures to
  open a breaker, one refill (`MaxRefills`).

`CHECK_DEADLOCK FALSE` is set where the system really stops: in `IdempotencyKey` every
request is made once; in `Messaging` a bounded number of messages is sent; in `Caching` the flusher
ends after `stop` and the structures take a bounded number of calls; in `Workflows`
sagas, jobs and maps return; in `Traffic` and `Data` clocks, calls and faults are
bounded. The two violation runs of these configurations have it for the same reason. In
`TaskQueue` and `CircuitBreaker` some worker or caller can always go on, and deadlock is
checked.

### Fairness

- `TaskQueue`: weak fairness of each worker's loop (a thread is scheduled, and the
  function of a task returns or is timed out), of each `delayed_requeue` thread (its
  sleep ends), and of starting the workers nobody stops. No fairness of clients,
  of stopping, of restarting, of expiry.
- `CircuitBreaker`: requests keep coming, results are recorded, time passes, and the
  backend answers everyone but `Hanging`. `Recovers` and `Isolates` assume in their
  own statement that the backend's health is settled.
- `Messaging`: a consumer calls `consume` or `poll` again and again, a competing worker
  goes round its loop, and a handler returns. No fairness of producers, disconnects,
  rebalances or compaction, and none of the other patterns.
- `Caching`: clients finish a read or write they began, the flusher, the caller of
  `stop`, the refresh threads and the threads that get the entry are scheduled, and
  the entry is asked for again and again. Nobody has to write or to call `stop`.
- `Workflows`: each relay job runs again and again; a thread that has begun a flush is
  scheduled; the timer's loop goes round and `max_wait` passes. Nobody has to add an
  item or place an order.
- `Traffic`: sweeps go on and probe every instance, boots complete, the database returns.
- `Data`: the manager goes on with its pings and ends the elections it began. Nobody has to die.
- `IdempotencyKey` has no liveness property and no fairness.

A temporal property is refuted only under these assumptions.

## Proofs

All theorems hold for every value of the constants that satisfies the assumptions named in
the modules (`TasksAssumption`, `ThresholdsAssumption`, `DeliveryAssumption` and so on),
which TLC evaluates on the instances. They say that sets of threads, tasks or servers are
finite where the proof counts them, that limits are at least one, that the value for
"none" is not a member of the set it stands outside of, that no two virtual nodes fall on one
position of the ring, that weights are at least one, and that a phrase has the words its text
splits into. The bounds (`Max...`) are arbitrary
numbers in the proofs.

Where a component is one of several in an MC module, a step of the whole is a step of one
component or leaves its variables alone (`OneSystemSteps`), so an invariant is proved from the
component's own `Init` and next-state relation. Induction over the length of a sequence or
over a clock is replaced by the least or greatest number with a property, which the
well-foundedness of `<` provides.

`TaskQueueProof`
- `IInv` adds to the type invariant, `OneOwner` and `RecordAgrees` what makes them
  inductive: a task's status follows its owner (`InHand`, `AtRest`, `RunByWorker`), and
  `RetryBudget`: retries stay within `max_retries` and are used up before giving up. From it
  follow `Safety` (`QueueSafe`), `LifecycleHolds` (`LifecycleKept`) and `Refinement`: every
  step maps to a step of `TaskLifecycle` or to a stutter.
- `WakeupsSuffice` has an invariant of its own about the size of the heap and the number of
  notified threads; cardinalities come from `FiniteSetTheorems`.
- `Accounted` (`Accounting`) compares sums over workers with the queue's totals. Each
  delivery and each outcome is a pair in a finite set (`Units`), so that a sum is a
  cardinality and a step adds or removes one pair.

`CircuitBreakerProof`
- `CountersExact` is the point: `consecutive_failures` is the current run of failures while
  CLOSED, `half_open_successes` the current run of successes while HALF_OPEN; elsewhere the
  counters are stale, and the steps that enter a state make them exact again. `Safety`
  (`BreakerSafe`) and `Earned` (`TransitionsEarned`) follow.

`IdempotencyKeyProof`
- `RecordLife` ties a record to where its request stands, `References` says what the store
  and `existing` may refer to. `Exclusive` is what a client that waits adds: at most one
  request of a key in flight (`Alone`), whose record is the stored one (`Claimed`), and an
  unexpired effect is remembered (`Remembered`). `Safety` (`KeySafe`) and `RetryingSafety`
  (`RetryingSafe`) follow.

`MessagingProof`
- `QueueIsKept` (`QueueKept`): a message is ready, unacked, dead-lettered or settled, never
  two of these (`Apart`); whatever is not dead-lettered has a retry left (`RetriesLeft`); the counters
  are the sizes of these places; and the verdict a consumer acts on is one given of the message it
  holds (`ConsumersKept`), whose tag may be stale.
- `LogIsKept` (`LogKept`): offsets ascend (`LogOrdered`), a commit comes after the work
  (`CommitsAcked`), and until a compaction, what a member has fetched is a stretch of offsets,
  all in front of which has been with a handler (`BatchFollows`). `CompactionIsSafe`
  (`CompactionKeepsLatest`) is the action property, with what `compact` builds described by
  the offsets it keeps.
- `WorkIsShared` (`WorkSharedOnce`): jobs are taken from the front (`TakenFirst`) and the
  total, read and written without a lock, is never ahead of the work (`TotalBehind`); an RPC request is in the queue, at a server, on its way back,
  lost or answered, and only in one of them (`Standing`), replies are of the request that asked
  (`OwnReplies`).
- `MessagesGoWhereBound` (`GoWhereBound`): a call of publish has given copies only through bindings
  it has passed, has passed over none of them that matches (a topic exchange may have served its
  queue already), and walks to the end of a list that only grows (`OnItsWay`), however others bind
  and publish meanwhile. Keyed messages are stored in the partition of their key, one whose send
  had ended in front of one that began later (`RoutedByKey`, `StoredByKey`), each partition with one
  member (`AssignedByTurns`).
- `TimedQueuesKeepOrder` (`UrgentFirstNeverEarly`): what is still in the heap comes after what
  has left (`HeapComesAfter`), and what has left did so in order (`LeftInOrder`).

`CachingProof`
- `Protection` (`StampedeHeld`): each strategy keeps to its own part of the state
  (`OwnPart`); under the mutex a thread only queries for a missing entry, for which nobody has
  queried since it went (`QueryOnMiss`); the key is in `_refreshing` exactly while its one
  refresh thread runs (`RefreshCounted`). `ExpiryFirst` (`NeverEarly`) is of XFetch alone.
- `PatternsStayConsistent` (`PatternsConsistent`) and `FlushingKeepsOrder` (`FlushKeepsOrder`)
  rest on one invariant, `CacheInv`: every step is of the pattern chosen, a fill holds a version
  the database has had (`FillsSaved`), a write-first cache is ahead of it (`CacheFirst`), and
  what is in the queue and in the flusher's hands is in the order of the writes (`QueueOrdered`,
  `FlusherKept`).
- `StructuresHold` (`StructuresKept`): at the edge (`EdgeInv`) the list has an entry for every
  cached path and as many too many as evictions are still going to fail, and of two paths the one used
  last has the last entry (`ByUse`), which every push, hit, purge and eviction preserves
  (`Evictable`). The string agrees with what a forgetful server would hold, from the moment an INCR
  met an expired value only from below (`StringKept`); the list is the stretch of everything
  pushed that lies between the two kinds of pops (`ListKept`), and the members are as many as
  the commands reported (`MembersCounted`). `ExpiryFirst`
  stands by itself: XFetch never renews before the expiry, the opposite of `RecomputesEarly`.
- `PolicyEvicts` (`EvictsByPolicy`): the ordered dictionary is in order of last use or of
  arrival (`OrderedKept`), every key is in the bucket of its count and `min_freq` is the least
  count there is (`LfuKept`), and the TTL cache stays within its capacity (`TtlKept`).

`WorkflowsProof`
- `EffectsBounded` (`OnceEach`) rests on `Within`, for a message inside its window: until it is
  marked as seen, its effects are at most the threads about to mark it; and effects and
  threads about to handle it are together no more than the consumer threads. The second part
  would break if the first did not bound the effects.
- `OutboxKeepsItsPromise` (`PublishedAsPromised`): one entry per order (`OneEntryEach`), and
  publications bounded by the relays and the crashes (`PublishedWithin`).
- `RowsHold` (`RowsKept`): the row of the email is complete as soon as it is in the table
  (`EmailRow`), the payment's row is of the one thread that inserted it (`PaymentRow`), the
  version counts the successful updates (`VersionCounts`), and an attempt bound to fail has
  been overtaken by another's update (`AttemptsOvertaken`), which makes giving up earned.
- `RetriesChangeNothing` (`RetryChangesNothing`) rests on a lemma about the methods: applying
  an idempotent one twice leaves the users as applying it once does.
- `SagaIsUndone` (`SagaUndone`): the log follows the steps and their compensations (`StepsKept`).
- `ResultsAreFinal` (`ResultsFinal`): futures and job records follow the thread that writes them
  (`ThreadsKept`, `AskersKept`), and whoever waits for all waits for every task anybody had submitted
  before it called (`WaitersKept`), for any number of callers that submit, wait and give up at
  once. `AnswersAreFinal` is the part about the jobs alone; the results of fan-out, map and gather are
  those of the ended jobs (`FanInKept`, `CollectedCounted`, `EndsCounted`).
- `ItemsStayInOrder` (`ItemsOnceInOrder`): every item arrived once and is in a batch, in the
  hands of one thread or waiting (`ArriveOnce`, `PlacedOnce`, `HandsApart`), and the batches
  processed are runs of the arrivals (`BatchesRun`).

`TrafficProof`
- `NeverFlaps` (`ScalesWithoutFlapping`): the size follows the load of the last metrics
  (`SizesFollowLoad`): it has enough nodes or its largest size;
  one that has grown has none to spare and one that has shrunk has enough, unless the same
  metrics were evaluated twice.
- `RatesAreHeld` (`RateHeld`). While no call meets another, the account of the limiter is settled
  (`Settled`) or, halfway through a call, what the stage of the call makes of it (`Account`): of a
  bucket, what was admitted since any tick is owed by the tokens now missing or has flowed back
  since (`Covered`); the fixed window's counter is that of its newest admissions (`WindowHas`); the
  log holds the newest admissions (`LogHas`). When calls meet, the account is given up and the
  history begins anew, so that only bounds remain to be kept: no bucket beyond its capacity or
  below nothing, and a log that, with the threads about to append, stays below the limit and one
  for each thread (`LogBound`). From any such state the account is settled for an empty history.
- `ClientsStay` (`OnlyItsClientsMove`): the positions on the list are those of the map, and those of
  servers registered twice (`RingInv`). Whom a client gets is the position that no other of the
  healthy ones precedes, going round from the client's (`NoLater`). If only positions of one server
  come, go or change health, the answers before and after are each no later than the other among
  what both rings have, unless one of them is that server's, which is then the server that came
  to serve or ceased to. Whoever's scan meets no left-over position is served by a server that
  is up as long as there is one (`LookupsKept`).
- `LoadIsShared` (`LoadShared`) joins two invariants. Of the connections (`LoadSpread`), counts
  are those of open connections and the server chosen under the lock is still the least loaded
  when it is connected to (`StillBest`), so no server gets two ahead. Of the rotations
  (`SharesByWeight`), `BalInv` is the inductive invariant over the steps of a pick and of the
  administering thread. `Rotates`: what was picked since the last change is a stretch of the row
  repeated without end, up to where the index points, whatever index the change found; a pick that
  is under way goes by that place (`Goes`) unless it is torn, and a stretch as long as the
  row has each server as often as the row (`FullRound`). `RebuiltOK`: halfway through a rebuild the list
  has the servers so far by their weights. `AccountsOK`: the smooth weights, less what the pick under
  way has given all of them (`Resting`), are what each server is owed, its share times
  the picks less what it got times the total; they add up to nothing (`Balanced`) and nobody owes
  a whole total (`PaidByShare`), so that a full turn leaves every account at nothing
  (`SharesFollow`). The other bound does not hold: with weights like 9, 1, 1, 1, 27 a server falls
  more than a share behind before it is served, and `SharesByWeight` does not promise it.
- Sums over servers are folds. What `SumParts`, `SumSigns`, `SumChanges` and `SumOneMore` say
  of them (and `SumParts` again in `DataProof`) is proved without induction: a table of the sums
  of all parts exists, or there is a least size for which it does not, and a smallest part for which
  the claim fails (`SmallestSet`) refutes itself.

`DataProof`
- `DataStaysWhole` (`DataKept`): what each step of a transfer has left in the workspace
  (`WorkspaceKept`), what the holder of the row lock has read is still true (`LockKept`), and the
  leader's value and every replication on its way are of the last burst of writes, so that when none
  is left the follower holds one of them, or what the leader holds (`OneBurst`). Sales are bounded
  under the row lock only; without it both buyers may read the same inventory, and nothing is claimed.
- `SearchHolds` (`SearchHelps`) is four arguments. Queries: a document is in the posting list of
  every term of its fields, and one indexed once is in no other (`FoundByText`). Facets: searching
  again with a bucket's filter goes by the keyword entries, which have every value a document ever
  had, and finds all the bucket counted, no more if each was indexed once (`NarrowedFinds`); the
  buckets of an aggregation partition the hits, and those that `size` cuts off are missing from the sum
  (`BucketsAddUp`). Suggestions:
  every entry is of a phrase all of whose entries are there (`TypingInv`), and the first so many of
  a ranking outrank the rest (`BestRanked`). Corrections: the table of the edit distance exists and
  its entries are what its recursion says (`DistanceTableExists`, `DistanceSteps`); an entry of nought
  means that the letters agree and one of one means one slip (`NearIsOneSlip`), one slip means at
  most one (`SlipIsNear`), and the slips are the words with one letter inserted,
  deleted or replaced (`EditsAreSlips`).
- `GatewayAccounts` (`PipelineKept`): where a request stands tells which stages it has passed
  (`StagesKept`); tokens spent, entries logged and totals agree with it; and a breaker that is
  open has the failures it needs (`BreakersKept`).

Every safety and every action property that a run checks is proved. Only model-checked are the
liveness properties, since the prover does not treat fairness: `EverySubmissionSettles`,
`Converges`, `DeliveriesFinish`, `CachesProgress`, `EveryOrderPublished`, `NobodyWaitsForever`,
`InstancesRecover`, `ClusterRecovers`.

## Not modelled

- `PeriodicScheduler` of the task queue: it calls `enqueue` on a clock. The event loop of
  `AsyncWorker` is one more pool in `Pools`.
- Two tasks of equal priority and creation time cannot be compared, and `enqueue`
  raises: a hazard without a property. The model's creation times are distinct.
- The standalone breaker of `circuit_breaker/` is a simpler variant of the gateway's, used by
  one thread from call to call.
- Sharding: stateless maps from a key to a shard. Auth: token encodings and table
  lookups, one call at a time. Geo routing: distance arithmetic. Serialization: byte formats
  without state. Tracing, metrics and structured logging: observability; the one counter
  whose race matters to a reader, the gateway's, is in `Gateway`. Webhooks and polling:
  one thread that sleeps between simulated HTTP calls.
- Of modelled components: statistics that nothing reads, header and body
  transformations of the gateway, relevance arithmetic (TF-IDF, BM25), highlighting and
  analyzers of the search engine, Redis commands that only read.

## Plan

An abstract specification of the caches, a register with bounded staleness, and the refinement
of the patterns to it, as `TaskLifecycle` is for the queue.
