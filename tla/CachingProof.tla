------------------------------ MODULE CachingProof ------------------------------
(***************************************************************************)
(* Proofs about caching, for any number of clients, threads, keys, paths    *)
(* and members: the cache patterns, the protection against stampedes, the   *)
(* edge cache and the Redis structures.                                     *)
(***************************************************************************)
EXTENDS MCCaching, FiniteSetTheorems, SequenceTheorems, NaturalsInduction,
        WellFoundedInduction, TLAPS

\* A step of the whole is one of one system, and none of the others.
LEMMA OneSystemSteps ==
  ASSUME [Next]_mcVars
  PROVE  /\ [CacheNext]_cacheVars /\ [StampedeNext]_stampedeVars /\ [EvictNext]_evictVars
         /\ [EdgeNext]_edgeVars /\ [XFetchNext]_xfetchVars /\ [RedisNext]_redisVars
BY DEF Next, mcVars, structureVars, InPatterns, InStampede, InStructure, InEvict, InEdge,
       InXFetch, InRedis

-----------------------------------------------------------------------------
(* The mutex, the background refresh and XFetch *)

\* Each strategy keeps to its own part of the state.
OwnPart ==
  /\ strategy = "mutex" =>
       /\ \A t \in Threads : thread[t] \in {"idle", "waiting", "locked", "querying"}
       /\ entry # "soft"
       /\ refreshing = FALSE
       /\ refresh.querying = 0 /\ refresh.clearing = 0
  /\ strategy = "background" =>
       \A t \in Threads : thread[t] \in {"idle", "fetching", "triggering"}

\* With the mutex a thread only queries for an entry that is missing, and one
\* that is missing has not been queried for since it went.
QueryOnMiss ==
  strategy = "mutex" =>
    /\ \A t \in Threads : thread[t] = "querying" => Missing
    /\ Missing => queries = 0
    /\ queries <= 1

\* A key is in _refreshing exactly while its one refresh thread runs.
RefreshCounted ==
  refresh.querying + refresh.clearing = IF refreshing THEN 1 ELSE 0

StampedeInv == StampedeTypeOK /\ OwnPart /\ QueryOnMiss /\ RefreshCounted

\* The invariant holds before the first get.
LEMMA StampedeInitInv == ASSUME StampedeInit PROVE StampedeInv
<1> USE ThreadsAssumption DEF StampedeInit
<1>1. StampedeTypeOK
  <2>1. refreshing \in BOOLEAN
    BY Zenon
  <2> QED BY <2>1 DEF StampedeTypeOK
<1>2. OwnPart /\ QueryOnMiss
  BY DEF OwnPart, QueryOnMiss, Missing
<1>3. RefreshCounted
  BY DEF RefreshCounted
<1> QED BY <1>1, <1>2, <1>3 DEF StampedeInv

\* Every step of a get, of a refresh and of time keeps the invariant.
LEMMA StampedeStep ==
  ASSUME StampedeInv, [StampedeNext]_stampedeVars
  PROVE  StampedeInv'
<1> USE ThreadsAssumption DEF StampedeInv, StampedeTypeOK, OwnPart, QueryOnMiss, RefreshCounted, Missing
<1>1. CASE Age
  BY <1>1 DEF Age
<1>2. CASE Refresh
  <2>1. CASE RefreshStores
    BY <2>1 DEF RefreshStores, Store
  <2>2. CASE RefreshClears
    <3>1. StampedeTypeOK'
      <4>1. refreshing' \in BOOLEAN
        BY <2>2, Zenon DEF RefreshClears
      <4> QED BY <2>2, <4>1 DEF RefreshClears
    <3>2. OwnPart' /\ QueryOnMiss'
      BY <2>2 DEF RefreshClears
    <3>3. RefreshCounted'
      BY <2>2 DEF RefreshClears
    <3> QED BY <3>1, <3>2, <3>3
  <2> QED BY <1>2, <2>1, <2>2 DEF Refresh
<1>3. ASSUME NEW t \in Threads, GetMutex(t) PROVE StampedeInv'
  <2>1. CASE Miss(t)
    BY <2>1 DEF Miss, At
  <2>2. CASE Acquire(t)
    BY <2>2 DEF Acquire, At
  <2>3. CASE CheckAgain(t)
    BY <2>3 DEF CheckAgain, At
  <2>4. CASE Populate(t)
    BY <2>4 DEF Populate, Store, At
  <2> QED BY <1>3, <2>1, <2>2, <2>3, <2>4 DEF GetMutex
<1>4. ASSUME NEW t \in Threads, GetBackground(t) PROVE StampedeInv'
  <2>1. CASE FetchSync(t)
    BY <2>1 DEF FetchSync, At
  <2>2. CASE StoreSync(t)
    BY <2>2 DEF StoreSync, Store, At
  <2>3. CASE SoftHit(t)
    BY <2>3 DEF SoftHit, At
  <2>4. CASE Trigger(t)
    <3>1. StampedeTypeOK'
      <4>1. refreshing' \in BOOLEAN
        BY <2>4, Zenon DEF Trigger
      <4> QED BY <2>4, <4>1 DEF Trigger, At
    <3>2. OwnPart' /\ QueryOnMiss'
      BY <2>4 DEF Trigger, At
    <3>3. RefreshCounted'
      BY <2>4 DEF Trigger, At
    <3> QED BY <3>1, <3>2, <3>3
  <2> QED BY <1>4, <2>1, <2>2, <2>3, <2>4 DEF GetBackground
<1>5. CASE UNCHANGED stampedeVars
  BY <1>5 DEF stampedeVars
<1> QED BY <1>1, <1>2, <1>3, <1>4, <1>5 DEF StampedeNext, Get

\* The threads that query with the mutex are those that hold the lock.
LEMMA OneQuerying ==
  ASSUME StampedeInv
  PROVE  OneQueryPerMiss
<1> DEFINE Querying == {t \in Threads : thread[t] = "querying"}
<1> SUFFICES ASSUME strategy = "mutex" PROVE queries + Cardinality(Querying) <= 1
  BY DEF OneQueryPerMiss
<1>1. CASE Querying = {}
  BY <1>1, FS_EmptySet DEF StampedeInv, QueryOnMiss, StampedeTypeOK
<1>2. CASE Querying # {}
  <2>1. Querying = {holder}
    BY <1>2 DEF StampedeInv, StampedeTypeOK
  <2>2. Cardinality(Querying) = 1
    BY <2>1, FS_Singleton
  <2>3. queries = 0
    BY <1>2 DEF StampedeInv, QueryOnMiss
  <2> QED BY <2>2, <2>3
<1> QED BY <1>1, <1>2

\* The inductive invariant holds in every state of the two locked strategies.
THEOREM Invariance == StampedeSpec => []StampedeInv
BY StampedeInitInv, StampedeStep, PTL DEF StampedeSpec

\* "DB only gets ONE query per cache miss (guaranteed)" with the mutex, and
\* "only one per key at a time" of the background refresh, for any number of
\* threads that miss an entry or find it stale.
THEOREM Protection == StampedeSpec => []StampedeHeld
<1>1. StampedeInv => StampedeHeld
  <2> SUFFICES ASSUME StampedeInv PROVE StampedeHeld
    OBVIOUS
  <2>1. OneRefreshAtATime
    BY DEF StampedeInv, RefreshCounted, OneRefreshAtATime
  <2> QED BY <2>1, OneQuerying DEF StampedeInv, StampedeHeld
<1> QED BY <1>1, Invariance, PTL

-----------------------------------------------------------------------------
\* What each get of XFetch carries over from one step to the next.
XFetchInv ==
  /\ entry_until \in Nat /\ time_now \in Nat
  /\ getter \in [Getters -> {"idle", "deciding", "recomputing"}]
  /\ found \in [Getters -> Nat]
  /\ early \in BOOLEAN
  /\ NeverEarly

\* No get has looked anything up yet.
LEMMA XFetchInitInv == ASSUME XFetchInit PROVE XFetchInv
<1>1. early \in BOOLEAN
  BY Zenon DEF XFetchInit
<1> QED BY <1>1, XFetchAssumption DEF XFetchInit, XFetchInv, NeverEarly

\* Every step of a get and of time keeps the invariant.
LEMMA XFetchStep ==
  ASSUME XFetchInv, [XFetchNext]_xfetchVars
  PROVE  XFetchInv'
<1> USE XFetchAssumption DEF XFetchInv, NeverEarly
<1>1. ASSUME NEW g \in Getters, GetEntry(g) PROVE XFetchInv'
  BY <1>1 DEF GetEntry, GetterAt
<1>2. ASSUME NEW g \in Getters, ShouldRecompute(g) PROVE XFetchInv'
  BY <1>2 DEF ShouldRecompute, Threshold, GetterAt
<1>3. ASSUME NEW g \in Getters, Recompute(g) PROVE XFetchInv'
  BY <1>3 DEF Recompute, GetterAt
<1>4. CASE XFetchTime
  BY <1>4 DEF XFetchTime
<1>5. CASE UNCHANGED xfetchVars
  BY <1>5 DEF xfetchVars
<1> QED BY <1>1, <1>2, <1>3, <1>4, <1>5 DEF XFetchNext, XFetchGet

\* The jitter drawn from log(rnd) is never negative, so that no get, racing any
\* number of others, recomputes before the entry it found has expired.
THEOREM ExpiryFirst == XFetchSpec => []NeverEarly
<1>1. XFetchInit => XFetchInv
  BY XFetchInitInv
<1>2. XFetchInv /\ [XFetchNext]_xfetchVars => XFetchInv'
  BY XFetchStep
<1>3. XFetchInv => NeverEarly
  BY DEF XFetchInv
<1> QED BY <1>1, <1>2, <1>3, PTL DEF XFetchSpec
-----------------------------------------------------------------------------
(* The cache patterns *)

\* Each pattern keeps to its own part of the state.
OwnSteps ==
  /\ pattern # "write-behind" =>
       /\ write_queue = <<>> /\ batch = <<>> /\ flusher = "asleep" /\ stopper = "none"
       /\ \A c \in Clients : client[c] # "enqueuing"
  /\ pattern = "write-behind" => \A c \in Clients : client[c] # "saving"
  /\ pattern # "cache-aside" => \A c \in Clients : client[c] # "invalidating"
  /\ \A c \in Clients : client[c] \in Writing => value[c] # 0

\* The flusher asks the queue for more only with room in its batch, and saves
\* only what it has.
FlusherKept ==
  /\ flusher = "getting" => Len(batch) < batch_size
  /\ flusher = "saving" => batch # <<>>

\* What a reader of cache-aside is about to fill in is what the database held.
FillsSaved ==
  pattern = "cache-aside" =>
    /\ db \in saved /\ cache \in saved \cup {0}
    /\ \A c \in Clients : client[c] = "filling" => value[c] \in saved

\* Clients that write one at a time: the one write under way is of the last
\* version, and the database has held nothing newer than what it holds.
OneWrite ==
  solo =>
    /\ \A c, d \in Clients : client[c] \in Writing /\ client[d] \in Writing => c = d
    /\ \A c \in Clients : client[c] \in {"saving", "enqueuing"} => value[c] = version
    /\ stopper = "none" => db <= version
    /\ pattern = "cache-aside" => \A v \in saved : v <= db

\* A cache that is written first holds the last version, so that nobody misses.
CacheFirst ==
  solo /\ pattern # "cache-aside" =>
    /\ cache = version /\ version > 0
    /\ \A c \in Clients : client[c] \notin {"loading", "filling"}
    /\ pattern = "write-through" /\ ~InFlight => db = version

\* The versions on their way to the database, oldest first.
Pending == batch \o write_queue

Ascending(p, lo, hi) ==
  /\ \A i \in 1..Len(p) : lo <= p[i] /\ p[i] <= hi
  /\ \A i, j \in 1..Len(p) : i <= j => p[i] <= p[j]

Ordered(p) ==
  /\ Ascending(p, db, version)
  /\ ~InFlight => IF p = <<>> THEN db = version ELSE p[Len(p)] = version

\* Until stop is called they are in the order of the writes, none is older than
\* what the database holds, and the newest is the last version.
QueueOrdered ==
  solo /\ pattern = "write-behind" /\ stopper = "none" => Ordered(Pending)

CacheInv ==
  /\ CacheTypeOK /\ OwnSteps /\ FlusherKept
  /\ FillsSaved /\ OneWrite /\ CacheFirst /\ QueueOrdered

LEMMA CacheInitInv == ASSUME CacheInit PROVE CacheInv
<1> USE CacheAssumption DEF CacheInit
<1>1. CacheTypeOK
  BY DEF CacheTypeOK, Patterns, Versions
<1>2. OwnSteps /\ FlusherKept /\ FillsSaved
  BY DEF OwnSteps, FlusherKept, FillsSaved, Writing
<1>3. OneWrite /\ CacheFirst /\ QueueOrdered
  BY DEF OneWrite, CacheFirst, QueueOrdered, Ordered, Ascending, Pending, InFlight, Writing
<1> QED BY <1>1, <1>2, <1>3 DEF CacheInv

\* The versions are numbers, and there is a next one as long as one may write.
LEMMA NextVersion ==
  /\ Versions \subseteq Nat /\ 0 \in Versions
  /\ \A v \in Versions : v <= MaxWrites => v + 1 \in Versions /\ v + 1 # 0
BY CacheAssumption DEF Versions

\* The first of a queue of versions is one of them.
LEMMA FirstOut ==
  ASSUME NEW q \in Seq(Versions \ {0}), q # <<>>
  PROVE  /\ Head(q) \in Versions \ {0} /\ Tail(q) \in Seq(Versions \ {0})
         /\ Len(q) \in Nat \ {0} /\ Len(Tail(q)) = Len(q) - 1
         /\ Len(q) > 1 => Tail(q) # <<>>
<1>1. /\ Head(q) \in Versions \ {0} /\ Tail(q) \in Seq(Versions \ {0})
      /\ Len(q) \in Nat \ {0} /\ Len(Tail(q)) = Len(q) - 1
  OBVIOUS
<1>2. Tail(q) = <<>> => Len(Tail(q)) = 0
  BY EmptySeq
<1> QED BY <1>1, <1>2

\* The locals of every thread stay within their types.
LEMMA CacheTypeStep ==
  ASSUME CacheInv, [CacheNext]_cacheVars
  PROVE  CacheTypeOK'
<1> USE CacheAssumption, NextVersion DEF CacheInv, CacheTypeOK, Goto, Finish, Save, NextRound,
        clientVars, behindVars
<1>1. ASSUME NEW c \in Clients, ReadMiss(c) PROVE CacheTypeOK'
  BY <1>1 DEF ReadMiss
<1>2. ASSUME NEW c \in Clients, Load(c) PROVE CacheTypeOK'
  BY <1>2 DEF Load
<1>3. ASSUME NEW c \in Clients, Fill(c) PROVE CacheTypeOK'
  BY <1>3 DEF Fill
<1>4. ASSUME NEW c \in Clients, BeginWrite(c) PROVE CacheTypeOK'
  <2>1. version' = version + 1 /\ version' \in Versions
    BY <1>4 DEF BeginWrite, MayWrite
  <2>2. value' \in [Clients -> Versions] /\ cache' \in Versions
    BY <1>4, <2>1 DEF BeginWrite
  <2> QED BY <1>4, <2>1, <2>2 DEF BeginWrite, Writing
<1>5. ASSUME NEW c \in Clients, SaveWrite(c) PROVE CacheTypeOK'
  <2>1. value[c] \in Versions
    OBVIOUS
  <2>2. db' = value[c] /\ saved' = saved \cup {value[c]}
    BY <1>5 DEF SaveWrite
  <2>3. client' \in [Clients -> {"idle", "loading", "filling"} \cup Writing] /\ value' \in [Clients -> Versions]
    BY <1>5 DEF SaveWrite, Writing
  <2> QED BY <1>5, <2>1, <2>2, <2>3 DEF SaveWrite
<1>6. ASSUME NEW c \in Clients, Invalidate(c) PROVE CacheTypeOK'
  BY <1>6 DEF Invalidate
<1>7. ASSUME NEW c \in Clients, Enqueue(c) PROVE CacheTypeOK'
  <2>1. value[c] \in Versions \ {0}
    BY <1>7 DEF Enqueue, OwnSteps, Writing
  <2>2. write_queue' \in Seq(Versions \ {0})
    BY <1>7, <2>1 DEF Enqueue
  <2>3. client' \in [Clients -> {"idle", "loading", "filling"} \cup Writing] /\ value' \in [Clients -> Versions]
    BY <1>7 DEF Enqueue
  <2> QED BY <1>7, <2>2, <2>3 DEF Enqueue
<1>8. CASE WakeUp
  BY <1>8 DEF WakeUp
<1>9. CASE FlusherTests
  BY <1>9 DEF FlusherTests
<1>10. CASE FlusherGets
  <2>1. Head(write_queue) \in Versions \ {0} /\ write_queue' \in Seq(Versions \ {0})
    BY <1>10, FirstOut DEF FlusherGets
  <2>2. batch' \in Seq(Versions \ {0}) /\ Len(batch') = Len(batch) + 1 /\ Len(batch) \in Nat
    BY <1>10, <2>1 DEF FlusherGets
  <2>3. Len(batch') <= batch_size
    BY <1>10, <2>2 DEF FlusherGets, FlusherKept
  <2> QED BY <1>10, <2>1, <2>2, <2>3 DEF FlusherGets
<1>11. CASE FlusherSaves
  <2>1. batch # <<>>
    BY <1>11 DEF FlusherSaves, FlusherKept
  <2>2. /\ Head(batch) \in Versions /\ Tail(batch) \in Seq(Versions \ {0})
        /\ Len(batch) \in Nat \ {0} /\ Len(Tail(batch)) = Len(batch) - 1
    BY <2>1, FirstOut
  <2>3. /\ db' = Head(batch) /\ saved' = saved \cup {Head(batch)} /\ batch' = Tail(batch)
        /\ flusher' \in {"saving", "asleep", "ended"}
    BY <1>11 DEF FlusherSaves
  <2>4. db' \in Versions /\ saved' \subseteq Versions
    BY <2>2, <2>3
  <2>5. Len(batch') <= batch_size
    <3>1. Len(batch) <= batch_size
      OBVIOUS
    <3> QED BY <2>2, <2>3, <3>1
  <2> QED BY <1>11, <2>2, <2>3, <2>4, <2>5 DEF FlusherSaves
<1>12. CASE Stop
  BY <1>12 DEF Stop
<1>13. CASE StopperTests
  BY <1>13 DEF StopperTests
<1>14. CASE StopperGets
  BY <1>14 DEF StopperGets
<1>15. CASE StopperSaves
  <2>1. db' = flushing /\ saved' = saved \cup {flushing} /\ flushing' = 0
    BY <1>15 DEF StopperSaves
  <2>2. db' \in Versions /\ saved' \subseteq Versions /\ flushing' \in Versions
    BY <2>1
  <2> QED BY <1>15, <2>2 DEF StopperSaves
<1>16. CASE UNCHANGED cacheVars
  BY <1>16 DEF cacheVars
<1> QED BY <1>1, <1>2, <1>3, <1>4, <1>5, <1>6, <1>7, <1>8, <1>9, <1>10, <1>11, <1>12, <1>13, <1>14, <1>15, <1>16
        DEF CacheNext, Continue, FlushWorker, FlushNow

LEMMA CacheControlStep ==
  ASSUME CacheInv, [CacheNext]_cacheVars
  PROVE  OwnSteps' /\ FlusherKept' /\ FillsSaved'
<1> USE NextVersion
    DEF CacheInv, CacheTypeOK, Goto, Finish, Save, NextRound,
        clientVars, behindVars, OwnSteps, FlusherKept, FillsSaved, Writing
<1>1. ASSUME NEW c \in Clients, ReadMiss(c) PROVE OwnSteps' /\ FlusherKept' /\ FillsSaved'
  BY <1>1 DEF ReadMiss
<1>2. ASSUME NEW c \in Clients, Load(c) PROVE OwnSteps' /\ FlusherKept' /\ FillsSaved'
  BY <1>2 DEF Load
<1>3. ASSUME NEW c \in Clients, Fill(c) PROVE OwnSteps' /\ FlusherKept' /\ FillsSaved'
  BY <1>3 DEF Fill
<1>4. ASSUME NEW c \in Clients, BeginWrite(c) PROVE OwnSteps' /\ FlusherKept' /\ FillsSaved'
  BY <1>4 DEF BeginWrite, MayWrite
<1>5. ASSUME NEW c \in Clients, SaveWrite(c) PROVE OwnSteps' /\ FlusherKept' /\ FillsSaved'
  BY <1>5 DEF SaveWrite
<1>6. ASSUME NEW c \in Clients, Invalidate(c) PROVE OwnSteps' /\ FlusherKept' /\ FillsSaved'
  BY <1>6 DEF Invalidate
<1>7. ASSUME NEW c \in Clients, Enqueue(c) PROVE OwnSteps' /\ FlusherKept' /\ FillsSaved'
  BY <1>7 DEF Enqueue
<1>8. CASE WakeUp
  BY <1>8 DEF WakeUp
<1>9. CASE FlusherTests
  BY <1>9 DEF FlusherTests
<1>10. CASE FlusherGets
  BY <1>10 DEF FlusherGets
<1>11. CASE FlusherSaves
  <2>1. pattern = "write-behind" /\ batch # <<>>
    BY <1>11 DEF FlusherSaves
  <2>2. Len(batch) > 1 => Tail(batch) # <<>>
    <3>1. batch \in Seq(Versions \ {0})
      OBVIOUS
    <3> QED BY <2>1, <3>1, FirstOut
  <2>3. FlusherKept'
    <3>1. batch' = Tail(batch) /\ (flusher' = "saving" => Len(batch) > 1) /\ flusher' # "getting"
      BY <1>11 DEF FlusherSaves
    <3> QED BY <2>2, <3>1
  <2>4. OwnSteps' /\ FillsSaved'
    BY <1>11, <2>1 DEF FlusherSaves
  <2> QED BY <2>3, <2>4
<1>12. CASE Stop
  BY <1>12 DEF Stop
<1>13. CASE StopperTests
  BY <1>13 DEF StopperTests
<1>14. CASE StopperGets
  BY <1>14 DEF StopperGets
<1>15. CASE StopperSaves
  BY <1>15 DEF StopperSaves
<1>16. CASE UNCHANGED cacheVars
  BY <1>16 DEF cacheVars
<1> QED BY <1>1, <1>2, <1>3, <1>4, <1>5, <1>6, <1>7, <1>8, <1>9, <1>10, <1>11, <1>12, <1>13, <1>14, <1>15, <1>16
        DEF CacheNext, Continue, FlushWorker, FlushNow

LEMMA SoloStep ==
  ASSUME CacheInv, [CacheNext]_cacheVars
  PROVE  OneWrite' /\ CacheFirst'
<1> USE NextVersion
    DEF CacheInv, CacheTypeOK, Goto, Finish, Save, NextRound,
        clientVars, behindVars, OwnSteps, OneWrite, CacheFirst, InFlight, Writing
<1>1. ASSUME NEW c \in Clients, ReadMiss(c) PROVE OneWrite' /\ CacheFirst'
  BY <1>1 DEF ReadMiss
<1>2. ASSUME NEW c \in Clients, Load(c) PROVE OneWrite' /\ CacheFirst'
  BY <1>2 DEF Load
<1>3. ASSUME NEW c \in Clients, Fill(c) PROVE OneWrite' /\ CacheFirst'
  BY <1>3 DEF Fill
<1>4. ASSUME NEW c \in Clients, BeginWrite(c) PROVE OneWrite' /\ CacheFirst'
  <2> SUFFICES ASSUME solo PROVE OneWrite' /\ CacheFirst'
    BY <1>4 DEF BeginWrite
  <2>1. /\ version' = version + 1 /\ version \in Nat /\ version' \in Nat
        /\ \A d \in Clients : client[d] \notin Writing
    BY <1>4 DEF BeginWrite, MayWrite
  <2>2. /\ value' = [value EXCEPT ![c] = version'] /\ db \in Nat /\ db' = db
        /\ client'[c] \in Writing /\ \A d \in Clients : client'[d] \in Writing => d = c
        /\ UNCHANGED <<solo, pattern, saved, stopper>>
    BY <1>4, <2>1 DEF BeginWrite
  <2>3. OneWrite'
    BY <2>1, <2>2
  <2>4. CacheFirst'
    BY <1>4, <2>1, <2>2 DEF BeginWrite
  <2> QED BY <2>3, <2>4
<1>5. ASSUME NEW c \in Clients, SaveWrite(c) PROVE OneWrite' /\ CacheFirst'
  <2> SUFFICES ASSUME solo PROVE OneWrite' /\ CacheFirst'
    BY <1>5 DEF SaveWrite
  <2>1. /\ value[c] = version /\ db' = version /\ saved' = saved \cup {version}
        /\ version' = version /\ version \in Nat /\ saved \subseteq Nat /\ db \in Nat
        /\ UNCHANGED <<solo, pattern, cache>> /\ client[c] = "saving"
    BY <1>5 DEF SaveWrite
  <2>2. \A d \in Clients : d # c => client[d] \notin Writing
    BY <2>1
  <2>3. \A d \in Clients : d # c => client'[d] = client[d] /\ value'[d] = value[d]
    BY <1>5 DEF SaveWrite
  <2>4. client'[c] \in {"invalidating", "idle"} /\ (client'[c] = "invalidating" => pattern = "cache-aside")
    BY <1>5 DEF SaveWrite
  <2>5. OneWrite'
    <3>1. pattern = "cache-aside" => \A v \in saved' : v <= version
      BY <2>1
    <3> QED BY <2>1, <2>2, <2>3, <2>4, <3>1
  <2>6. CacheFirst'
    BY <2>1, <2>2, <2>3, <2>4
  <2> QED BY <2>5, <2>6
<1>6. ASSUME NEW c \in Clients, Invalidate(c) PROVE OneWrite' /\ CacheFirst'
  BY <1>6 DEF Invalidate
<1>7. ASSUME NEW c \in Clients, Enqueue(c) PROVE OneWrite' /\ CacheFirst'
  BY <1>7 DEF Enqueue
<1>8. CASE WakeUp
  BY <1>8 DEF WakeUp
<1>9. CASE FlusherTests
  BY <1>9 DEF FlusherTests
<1>10. CASE FlusherGets
  BY <1>10 DEF FlusherGets
<1>11. CASE FlusherSaves
  <2>1. pattern = "write-behind" /\ UNCHANGED <<pattern, solo, version, client, value, cache>>
    BY <1>11 DEF FlusherSaves
  <2>2. batch # <<>> /\ db' = Head(batch) /\ UNCHANGED stopper
    BY <1>11 DEF FlusherSaves, FlusherKept
  <2>3. solo /\ stopper = "none" => db' <= version
    <3>1. Len(Pending) = Len(batch) + Len(write_queue) /\ Pending[1] = Head(batch)
          /\ Len(batch) \in Nat \ {0} /\ Len(write_queue) \in Nat
      BY <2>2 DEF Pending
    <3>2. 1 \in 1..Len(Pending)
      BY <3>1
    <3> QED BY <2>1, <2>2, <3>1, <3>2 DEF QueueOrdered, Ordered, Ascending
  <2> QED BY <2>1, <2>2, <2>3
<1>12. CASE Stop
  BY <1>12 DEF Stop
<1>13. CASE StopperTests
  BY <1>13 DEF StopperTests
<1>14. CASE StopperGets
  BY <1>14 DEF StopperGets
<1>15. CASE StopperSaves
  <2>1. pattern = "write-behind" /\ UNCHANGED <<pattern, solo, version, client, value, cache>>
    BY <1>15 DEF StopperSaves
  <2>2. stopper' # "none"
    BY <1>15 DEF StopperSaves
  <2> QED BY <2>1, <2>2
<1>16. CASE UNCHANGED cacheVars
  BY <1>16 DEF cacheVars
<1> QED BY <1>1, <1>2, <1>3, <1>4, <1>5, <1>6, <1>7, <1>8, <1>9, <1>10, <1>11, <1>12, <1>13, <1>14, <1>15, <1>16
        DEF CacheNext, Continue, FlushWorker, FlushNow

\* What the flusher takes from the queue it adds to its batch: nothing is lost on
\* the way and the order stays.
LEMMA HandedOver ==
  ASSUME NEW S, NEW b \in Seq(S), NEW q \in Seq(S), q # <<>>
  PROVE  Append(b, Head(q)) \o Tail(q) = b \o q
<1> DEFINE u == Append(b, Head(q)) \o Tail(q)
           v == b \o q
<1>1. /\ Append(b, Head(q)) \in Seq(S) /\ Tail(q) \in Seq(S)
      /\ Len(q) \in Nat \ {0} /\ Len(b) \in Nat /\ Head(q) = q[1]
      /\ Len(Tail(q)) = Len(q) - 1 /\ Len(Append(b, Head(q))) = Len(b) + 1
  OBVIOUS
<1>2. u \in Seq(S) /\ v \in Seq(S) /\ Len(u) = Len(b) + Len(q) /\ Len(v) = Len(b) + Len(q)
  BY <1>1
<1>3. ASSUME NEW i \in 1..(Len(b) + Len(q)) PROVE u[i] = v[i]
  <2>1. CASE i <= Len(b)
    BY <2>1, <1>1
  <2>2. CASE i = Len(b) + 1
    BY <2>2, <1>1
  <2>3. CASE i > Len(b) + 1
    <3>1. u[i] = Tail(q)[i - (Len(b) + 1)] /\ v[i] = q[i - Len(b)]
      BY <2>3, <1>1
    <3>2. i - (Len(b) + 1) \in 1..Len(Tail(q)) /\ (i - (Len(b) + 1)) + 1 = i - Len(b)
      BY <2>3, <1>1
    <3> QED BY <3>1, <3>2, <1>1
  <2> QED BY <2>1, <2>2, <2>3, <1>1
<1> HIDE DEF u, v
<1>4. u = v
  BY <1>2, <1>3, SeqEqual
<1> QED BY <1>4 DEF u, v

\* The oldest of what is pending is the first of the batch.
LEMMA OldestFirst ==
  ASSUME NEW S, NEW b \in Seq(S), NEW q \in Seq(S), b # <<>>
  PROVE  Tail(b) \o q = Tail(b \o q) /\ Head(b) = Head(b \o q) /\ b \o q # <<>>
<1>1. /\ Len(b) \in Nat \ {0} /\ Len(q) \in Nat /\ Tail(b) \in Seq(S) /\ b \o q \in Seq(S)
      /\ Len(b \o q) = Len(b) + Len(q) /\ Len(Tail(b)) = Len(b) - 1
  OBVIOUS
<1>2. b \o q # <<>> /\ Head(b) = Head(b \o q)
  BY <1>1
<1> DEFINE u == Tail(b) \o q
           v == Tail(b \o q)
<1>3. u \in Seq(S) /\ v \in Seq(S) /\ Len(u) = Len(v) /\ Len(u) = Len(b) - 1 + Len(q)
  BY <1>1, <1>2
<1>4. ASSUME NEW i \in 1..Len(u) PROVE u[i] = v[i]
  <2>0. i \in 1..(Len(b) - 1 + Len(q))
    BY <1>3
  <2> HIDE DEF u, v
  <2>1. v[i] = (b \o q)[i + 1]
    BY <2>0, <1>1, <1>2 DEF v
  <2>2. CASE i <= Len(b) - 1
    BY <2>0, <2>1, <2>2, <1>1 DEF u
  <2>3. CASE i > Len(b) - 1
    <3>1. u[i] = q[i - (Len(b) - 1)] /\ (b \o q)[i + 1] = q[i + 1 - Len(b)]
      BY <2>0, <2>3, <1>1 DEF u
    <3>2. i - (Len(b) - 1) = i + 1 - Len(b)
      BY <2>0, <1>1
    <3> QED BY <2>1, <3>1, <3>2
  <2> QED BY <2>0, <2>2, <2>3, <1>1
<1> HIDE DEF u, v
<1>5. u = v
  BY <1>3, <1>4, SeqEqual
<1> QED BY <1>2, <1>5 DEF u, v

\* What is put at the end of the queue is at the end of what is pending.
LEMMA AppendedLast ==
  ASSUME NEW S, NEW b \in Seq(S), NEW q \in Seq(S), NEW v \in S
  PROVE  b \o Append(q, v) = Append(b \o q, v)
<1>1. /\ Len(b) \in Nat /\ Len(q) \in Nat /\ Append(q, v) \in Seq(S) /\ b \o q \in Seq(S)
      /\ Len(b \o q) = Len(b) + Len(q) /\ Len(Append(q, v)) = Len(q) + 1
  OBVIOUS
<1> DEFINE x == b \o Append(q, v)
           y == Append(b \o q, v)
<1>2. x \in Seq(S) /\ y \in Seq(S) /\ Len(x) = Len(y) /\ Len(x) = Len(b) + Len(q) + 1
  BY <1>1
<1>3. ASSUME NEW i \in 1..Len(x) PROVE x[i] = y[i]
  BY <1>1, <1>2
<1> HIDE DEF x, y
<1>4. x = y
  BY <1>2, <1>3, SeqEqual
<1> QED BY <1>4 DEF x, y

\* An ascending sequence stays ascending when something no smaller is put at its end
\* or its first is taken off.
LEMMA AscendingLonger ==
  ASSUME NEW p \in Seq(Nat), NEW lo \in Nat, NEW v \in Nat, Ascending(p, lo, v), lo <= v
  PROVE  /\ Ascending(Append(p, v), lo, v)
         /\ Append(p, v) # <<>> /\ Append(p, v)[Len(Append(p, v))] = v
<1> DEFINE u == Append(p, v)
<1>1. /\ Len(p) \in Nat /\ Len(u) = Len(p) + 1 /\ u[Len(p) + 1] = v
      /\ u # <<>> /\ \A i \in 1..Len(p) : u[i] = p[i] /\ p[i] \in Nat
  OBVIOUS
<1> HIDE DEF u
<1>2. \A i \in 1..Len(u) : lo <= u[i] /\ u[i] <= v
  BY <1>1 DEF Ascending
<1>3. \A i, j \in 1..Len(u) : i <= j => u[i] <= u[j]
  BY <1>1 DEF Ascending
<1>4. Ascending(u, lo, v) /\ u # <<>> /\ u[Len(u)] = v
  BY <1>1, <1>2, <1>3 DEF Ascending
<1> QED BY <1>4 DEF u

LEMMA AscendingShorter ==
  ASSUME NEW p \in Seq(Nat), p # <<>>, NEW lo \in Nat, NEW hi \in Nat, Ascending(p, lo, hi)
  PROVE  /\ Ascending(Tail(p), Head(p), hi)
         /\ lo <= Head(p) /\ Head(p) <= hi
         /\ p[Len(p)] = IF Tail(p) = <<>> THEN Head(p) ELSE Tail(p)[Len(Tail(p))]
<1> DEFINE u == Tail(p)
<1>1. /\ Len(p) \in Nat \ {0} /\ Len(u) = Len(p) - 1 /\ Head(p) = p[1] /\ u \in Seq(Nat)
      /\ \A i \in 1..Len(p) : p[i] \in Nat
  OBVIOUS
<1>2. \A i \in 1..Len(u) : u[i] = p[i + 1] /\ i + 1 \in 1..Len(p)
  BY HeadTailProperties
<1>3. u = <<>> <=> Len(u) = 0
  BY <1>1, EmptySeq
<1> HIDE DEF u
<1>4. 1 \in 1..Len(p) /\ \A i \in 1..Len(p) : 1 <= i
  BY <1>1
<1>5. Ascending(u, p[1], hi) /\ lo <= p[1] /\ p[1] <= hi
  <2>1. \A i \in 1..Len(u) : p[1] <= u[i] /\ u[i] <= hi
    BY <1>1, <1>2, <1>4 DEF Ascending
  <2>2. \A i, j \in 1..Len(u) : i <= j => u[i] <= u[j]
    <3> SUFFICES ASSUME NEW i \in 1..Len(u), NEW j \in 1..Len(u), i <= j PROVE u[i] <= u[j]
      OBVIOUS
    <3>1. i + 1 <= j + 1
      BY <1>1
    <3> QED BY <1>2, <3>1 DEF Ascending
  <2> QED BY <2>1, <2>2, <1>4 DEF Ascending
<1>6. p[Len(p)] = IF u = <<>> THEN p[1] ELSE u[Len(u)]
  BY <1>1, <1>2, <1>3
<1> QED BY <1>1, <1>5, <1>6 DEF u

\* What is pending stays ordered, whoever puts something in or takes it out.
LEMMA QueueStep ==
  ASSUME CacheInv, [CacheNext]_cacheVars, solo, pattern = "write-behind", stopper' = "none"
  PROVE  Ordered(Pending)'
<1> USE DEF CacheInv, Goto, Finish
<1> DEFINE Vs == Versions \ {0}
<1>0. /\ Ordered(Pending)
      /\ batch \in Seq(Vs) /\ write_queue \in Seq(Vs) /\ Pending \in Seq(Vs)
      /\ stopper = "none" /\ db \in Nat /\ version \in Nat
  <2>1. stopper = "none"
    BY DEF CacheNext, Continue, FlushWorker, FlushNow, ReadMiss, BeginWrite, Load, Fill, SaveWrite,
       Invalidate, Enqueue, WakeUp, FlusherTests, FlusherGets, FlusherSaves, Stop, StopperTests,
       StopperGets, StopperSaves, behindVars, cacheVars
  <2>2. batch \in Seq(Vs) /\ write_queue \in Seq(Vs)
    BY DEF CacheTypeOK
  <2>3. Pending \in Seq(Vs)
    BY <2>2, ConcatProperties DEF Pending
  <2>4. db \in Nat /\ version \in Nat
    BY NextVersion DEF CacheTypeOK
  <2> QED BY <2>1, <2>2, <2>3, <2>4 DEF QueueOrdered
<1>1. ASSUME UNCHANGED <<db, version, batch, write_queue>>, InFlight => InFlight'
      PROVE  Ordered(Pending)'
  BY <1>0, <1>1 DEF Ordered, Pending
<1>2. ASSUME NEW c \in Clients, BeginWrite(c) PROVE Ordered(Pending)'
  <2>1. /\ version' = version + 1 /\ InFlight' /\ db' = db /\ Pending' = Pending
    BY <1>2 DEF BeginWrite, InFlight, Writing, behindVars, CacheTypeOK, Pending
  <2>2. \A i \in 1..Len(Pending) : Pending[i] \in Nat
    BY <1>0, NextVersion, ElementOfSeq
  <2> QED BY <1>0, <2>1, <2>2 DEF Ordered, Ascending
<1>3. ASSUME NEW c \in Clients, Enqueue(c) PROVE Ordered(Pending)'
  <2>1. /\ value[c] = version /\ version \in Vs /\ write_queue' = Append(write_queue, version)
        /\ UNCHANGED <<db, version, batch>>
    BY <1>3, NextVersion DEF Enqueue, OneWrite, OwnSteps, Writing, CacheTypeOK
  <2>2. Pending' = Append(Pending, version)
    <3>1. batch \o Append(write_queue, version) = Append(batch \o write_queue, version)
      BY <1>0, <2>1, AppendedLast
    <3> QED BY <2>1, <3>1 DEF Pending
  <2>3. db <= version /\ Pending \in Seq(Nat)
    BY <1>0, NextVersion, SeqMonotonic DEF OneWrite
  <2> QED BY <1>0, <2>1, <2>2, <2>3, AscendingLonger DEF Ordered
<1>4. CASE FlusherGets
  <2>1. /\ batch' = Append(batch, Head(write_queue)) /\ write_queue' = Tail(write_queue)
        /\ write_queue # <<>>
        /\ UNCHANGED <<db, version, client>>
    BY <1>4 DEF FlusherGets, clientVars
  <2>2. Pending' = Pending
    BY <1>0, <2>1, HandedOver DEF Pending
  <2> QED BY <1>0, <2>1, <2>2 DEF Ordered, InFlight
<1>5. CASE FlusherSaves
  <2>1. /\ batch # <<>> /\ db' = Head(batch) /\ batch' = Tail(batch)
        /\ UNCHANGED <<version, client, write_queue>>
    BY <1>5 DEF FlusherSaves, FlusherKept, Save, clientVars
  <2>2. Pending' = Tail(Pending) /\ db' = Head(Pending) /\ Pending # <<>>
    BY <1>0, <2>1, OldestFirst DEF Pending
  <2>3. Pending \in Seq(Nat) /\ (InFlight' <=> InFlight)
    BY <1>0, <2>1, NextVersion, SeqMonotonic DEF InFlight
  <2>4. Ascending(Pending', db', version')
    BY <1>0, <2>1, <2>2, <2>3, AscendingShorter DEF Ordered
  <2>5. ~InFlight' => IF Pending' = <<>> THEN db' = version' ELSE Pending'[Len(Pending')] = version'
    BY <1>0, <2>1, <2>2, <2>3, AscendingShorter DEF Ordered
  <2> QED BY <2>4, <2>5 DEF Ordered
<1>6. ASSUME NEW c \in Clients, ReadMiss(c) \/ Load(c) \/ Fill(c) \/ SaveWrite(c) \/ Invalidate(c)
      PROVE  Ordered(Pending)'
  <2>1. UNCHANGED <<db, version, batch, write_queue>>
    BY <1>6 DEF ReadMiss, Load, Fill, SaveWrite, Invalidate, behindVars, OwnSteps
  <2>2. InFlight => InFlight'
    BY <1>6 DEF ReadMiss, Load, Fill, SaveWrite, Invalidate, OwnSteps, InFlight, Writing, CacheTypeOK
  <2> QED BY <1>1, <2>1, <2>2
<1>7. CASE WakeUp \/ FlusherTests \/ UNCHANGED cacheVars
  <2>1. UNCHANGED <<db, version, batch, write_queue, client>>
    BY <1>7 DEF WakeUp, FlusherTests, clientVars, cacheVars
  <2> QED BY <1>1, <2>1 DEF InFlight
<1>8. CASE Stop \/ FlushNow
  BY <1>0, <1>8 DEF Stop, FlushNow, StopperTests, StopperGets, StopperSaves
<1> QED BY <1>2, <1>3, <1>4, <1>5, <1>6, <1>7, <1>8
        DEF CacheNext, Continue, FlushWorker

LEMMA CacheStep ==
  ASSUME CacheInv, [CacheNext]_cacheVars
  PROVE  CacheInv'
<1>1. UNCHANGED <<pattern, solo>>
  BY DEF CacheNext, Continue, FlushWorker, FlushNow, ReadMiss, BeginWrite, Load, Fill, SaveWrite,
     Invalidate, Enqueue, WakeUp, FlusherTests, FlusherGets, FlusherSaves, Stop, StopperTests,
     StopperGets, StopperSaves, cacheVars
<1>2. QueueOrdered'
  <2> SUFFICES ASSUME solo', pattern' = "write-behind", stopper' = "none" PROVE Ordered(Pending)'
    BY DEF QueueOrdered
  <2> QED BY <1>1, QueueStep
<1> QED BY <1>2, CacheTypeStep, CacheControlStep, SoloStep DEF CacheInv

LEMMA CacheInvHolds == ASSUME CacheInv PROVE PatternsConsistent
<1> USE DEF CacheInv
<1>1. AsideCachesSaved
  BY DEF FillsSaved, OneWrite, AsideCachesSaved, CacheTypeOK, Versions
<1>2. SoloWritesConsistent
  <2> SUFFICES ASSUME solo, stopper = "none", pattern # "cache-aside"
               PROVE  /\ cache >= db
                      /\ pattern = "write-through" /\ ~InFlight => cache = db
                      /\ pattern = "write-behind" /\ ~InFlight /\ write_queue = <<>> /\ batch = <<>>
                            => cache = db
    BY DEF SoloWritesConsistent, Stopped
  <2>1. cache = version /\ db <= version /\ db \in Nat /\ version \in Nat
    BY NextVersion DEF CacheFirst, OneWrite, CacheTypeOK
  <2>2. pattern = "write-through" /\ ~InFlight => cache = db
    BY <2>1 DEF CacheFirst
  <2>3. ASSUME pattern = "write-behind", ~InFlight, write_queue = <<>>, batch = <<>>
        PROVE  cache = db
    <3>1. Pending = <<>>
      BY <2>3 DEF Pending
    <3> QED BY <2>1, <2>3, <3>1 DEF QueueOrdered, Ordered
  <2> QED BY <2>1, <2>2, <2>3
<1> QED BY <1>1, <1>2 DEF PatternsConsistent

\* Whatever clients, flusher and stop do in whatever order: a cache-aside cache holds
\* what the database has held, and with writes one at a time a cache that is written
\* first is never behind the database and level with it once all is flushed.
THEOREM PatternsStayConsistent == Spec => []PatternsConsistent
<1>1. Init => CacheInv
  BY CacheInitInv DEF Init
<1>2. CacheInv /\ [Next]_mcVars => CacheInv'
  BY OneSystemSteps, CacheStep
<1>3. CacheInv => PatternsConsistent
  BY CacheInvHolds
<1> QED BY <1>1, <1>2, <1>3, PTL DEF Spec

\* Batched, delayed and interleaved with new writes, the saves of the flusher reach the
\* database in the order of the writes, until stop is called.
THEOREM FlushingKeepsOrder == Spec => FlushKeepsOrder
<1>1. Init => CacheInv
  BY CacheInitInv DEF Init
<1>2. CacheInv /\ [Next]_mcVars => CacheInv'
  BY OneSystemSteps, CacheStep
<1>3. ASSUME CacheInv, [Next]_mcVars
      PROVE  [solo /\ ~Stopped => db' >= db]_cacheVars
  <2> SUFFICES ASSUME solo, stopper = "none" PROVE db' >= db
    BY DEF Stopped
  <2>0. CacheInv /\ [CacheNext]_cacheVars /\ db \in Nat /\ version \in Nat
    BY <1>3, OneSystemSteps, NextVersion DEF CacheInv, CacheTypeOK
  <2>1. ASSUME NEW c \in Clients, SaveWrite(c) PROVE db' >= db
    BY <2>0, <2>1 DEF SaveWrite, Save, CacheInv, OneWrite
  <2>2. CASE FlusherSaves
    <3>1. batch # <<>> /\ db' = Head(batch) /\ pattern = "write-behind"
      BY <2>0, <2>2 DEF FlusherSaves, Save, CacheInv, FlusherKept, OwnSteps
    <3>2. /\ batch \in Seq(Versions \ {0}) /\ write_queue \in Seq(Versions \ {0})
      BY <2>0 DEF CacheInv, CacheTypeOK
    <3>3. db' = Pending[1] /\ 1 \in 1..Len(Pending)
      BY <3>1, <3>2, OldestFirst, ConcatProperties, EmptySeq DEF Pending
    <3> QED BY <2>0, <3>1, <3>3 DEF CacheInv, QueueOrdered, Ordered, Ascending
  <2>3. CASE ~FlusherSaves /\ \A c \in Clients : ~SaveWrite(c)
    <3>1. db' = db
      BY <2>0, <2>3 DEF CacheNext, Continue, FlushWorker, FlushNow, ReadMiss, BeginWrite, Load, Fill,
         Invalidate, Enqueue, WakeUp, FlusherTests, FlusherGets, Stop, StopperTests,
         StopperGets, StopperSaves, cacheVars
    <3> QED BY <2>0, <3>1
  <2> QED BY <2>1, <2>2, <2>3
<1> QED BY <1>1, <1>2, <1>3, PTL DEF Spec, FlushKeepsOrder
-----------------------------------------------------------------------------
(* The edge cache *)

\* EdgeKept is inductive once typed: the list may name a path that has gone, or a path
\* twice, but never lacks one that is cached.
EdgeInv ==
  /\ lru_order \in Seq(Paths)
  /\ IsFiniteSet(Cached) /\ Cached \subseteq Paths
  /\ edge_time \in Nat /\ owed \in Nat
  /\ EdgeKept

\* A set of positions that is not empty has a first one.
LEMMA LeastPosition ==
  ASSUME NEW P \in SUBSET Nat, P # {}
  PROVE  Min(P) \in P /\ \A m \in P : Min(P) <= m
<1> DEFINE R == OpToRel(<, Nat)
<1>1. IsWellFoundedOn(R, Nat)
  BY NatLessThanWellFounded
<1>2. PICK n \in P : \A m \in P : <<m, n>> \notin R
  <2> HIDE DEF R
  <2> QED BY <1>1, WFMin
<1>3. \A m \in P : <<m, n>> \in R <=> m < n
  BY DEF OpToRel
<1> HIDE DEF R
<1>4. \A m \in P : ~ (m < n)
  BY <1>2, <1>3
<1>5. \A m \in P : n <= m
  BY <1>4
<1> QED BY <1>5 DEF Min

\* What is removed from a sequence leaves one place; the rest moves up.
LEMMA TakenOut ==
  ASSUME NEW S, NEW l \in Seq(S), NEW e, Contains(l, e)
  PROVE  \E n \in 1..Len(l) :
           /\ l[n] = e /\ \A i \in 1..Len(l) : l[i] = e => n <= i
           /\ RemoveFirst(l, e) \in Seq(S)
           /\ Len(RemoveFirst(l, e)) = Len(l) - 1
           /\ \A i \in 1..Len(l) - 1 :
                RemoveFirst(l, e)[i] = IF i <= n - 1 THEN l[i] ELSE l[i + 1]
<1> DEFINE I == {i \in 1..Len(l) : l[i] = e}
           n == Min(I)
           left == SubSeq(l, 1, n - 1)
           right == SubSeq(l, n + 1, Len(l))
<1>1. I # {} /\ I \subseteq Nat
  BY DEF Contains
<1>2. n \in 1..Len(l) /\ l[n] = e /\ \A i \in 1..Len(l) : l[i] = e => n <= i
  BY <1>1, LeastPosition
<1>3. RemoveFirst(l, e) = left \o right
  BY <1>1 DEF Contains, RemoveFirst, RemoveAt, SelectInSeq
<1> HIDE DEF n
<1>4. /\ left \in Seq(S) /\ Len(left) = n - 1
      /\ \A i \in 1..n - 1 : left[i] = l[i]
  BY <1>2, SubSeqProperties, ElementOfSeq
<1>5. /\ right \in Seq(S) /\ Len(right) = Len(l) - n
      /\ \A i \in 1..Len(l) - n : right[i] = l[n + i]
  BY <1>2, SubSeqProperties, ElementOfSeq
<1> HIDE DEF left, right
<1>6. /\ left \o right \in Seq(S)
      /\ Len(left \o right) = (n - 1) + (Len(l) - n)
      /\ \A i \in 1..(n - 1) + (Len(l) - n) :
           (left \o right)[i] = IF i <= n - 1 THEN left[i] ELSE right[i - (n - 1)]
  <2>1. /\ left \o right \in Seq(S)
        /\ Len(left \o right) = Len(left) + Len(right)
        /\ \A i \in 1..Len(left) + Len(right) :
             (left \o right)[i] = IF i <= Len(left) THEN left[i] ELSE right[i - Len(left)]
    BY <1>4, <1>5, ConcatProperties
  <2> QED BY <1>4, <1>5, <2>1
<1>7. ASSUME NEW i \in 1..Len(l) - 1
      PROVE  (left \o right)[i] = IF i <= n - 1 THEN l[i] ELSE l[i + 1]
  <2>1. (left \o right)[i] = IF i <= n - 1 THEN left[i] ELSE right[i - (n - 1)]
    BY <1>2, <1>6
  <2>2. i <= n - 1 => left[i] = l[i]
    BY <1>2, <1>4
  <2>3. ~(i <= n - 1) => right[i - (n - 1)] = l[i + 1]
    <3> SUFFICES ASSUME ~(i <= n - 1) PROVE right[i - (n - 1)] = l[i + 1]
      OBVIOUS
    <3> DEFINE k == i - (n - 1)
    <3>1. k \in 1..Len(l) - n /\ n + k = i + 1
      BY <1>2
    <3> HIDE DEF k
    <3>2. right[k] = l[n + k]
      BY <1>5, <3>1
    <3> QED BY <3>1, <3>2 DEF k
  <2> QED BY <2>1, <2>2, <2>3
<1> DEFINE rest == RemoveFirst(l, e)
<1>8. /\ rest \in Seq(S) /\ Len(rest) = Len(l) - 1
      /\ \A i \in 1..Len(l) - 1 : rest[i] = IF i <= n - 1 THEN l[i] ELSE l[i + 1]
  BY <1>2, <1>3, <1>6, <1>7
<1> HIDE DEF rest
<1> QED BY <1>2, <1>8 DEF rest

\* So every place of what is left is one of the sequence, in the same order, and
\* every place of the sequence but one is there still.
LEMMA OthersStay ==
  ASSUME NEW S, NEW l \in Seq(S), NEW e
  PROVE  /\ RemoveFirst(l, e) \in Seq(S)
         /\ ToSet(l) \ {e} \subseteq ToSet(RemoveFirst(l, e))
<1>1. CASE ~Contains(l, e)
  BY <1>1 DEF RemoveFirst, Contains
<1>2. CASE Contains(l, e)
  <2> DEFINE rest == RemoveFirst(l, e)
  <2>1. PICK n \in 1..Len(l) :
          /\ l[n] = e
          /\ rest \in Seq(S) /\ Len(rest) = Len(l) - 1
          /\ \A i \in 1..Len(l) - 1 : rest[i] = IF i <= n - 1 THEN l[i] ELSE l[i + 1]
    BY <1>2, TakenOut
  <2> HIDE DEF rest
  <2>2. ASSUME NEW i \in 1..Len(l), l[i] # e
        PROVE  \E j \in 1..Len(rest) : rest[j] = l[i]
    <3>1. CASE i < n
      <4>1. i \in 1..Len(l) - 1 /\ i <= n - 1
        BY <2>1, <3>1
      <4> QED BY <2>1, <4>1
    <3>2. CASE i > n
      <4> DEFINE j == i - 1
      <4>1. j \in 1..Len(l) - 1 /\ ~(j <= n - 1) /\ j + 1 = i
        BY <2>1, <3>2
      <4> HIDE DEF j
      <4>2. rest[j] = l[j + 1]
        BY <2>1, <4>1
      <4> QED BY <2>1, <4>1, <4>2
    <3>3. i < n \/ i > n
      BY <2>1, <2>2
    <3> QED BY <3>1, <3>2, <3>3
  <2>3. ToSet(l) \ {e} \subseteq ToSet(rest)
    BY <2>1, <2>2 DEF ToSet
  <2> QED BY <2>1, <2>3 DEF rest
<1> QED BY <1>1, <1>2

\* A path that is appended is in the list, and all others are still.
LEMMA ListedLast ==
  ASSUME NEW l \in Seq(Paths), NEW p \in Paths
  PROVE  Append(l, p) \in Seq(Paths) /\ ToSet(l) \cup {p} \subseteq ToSet(Append(l, p))
BY DEF ToSet

\* Without its first path a list still has all the others.
LEMMA FirstEvicted ==
  ASSUME NEW l \in Seq(Paths), l # <<>>
  PROVE  Tail(l) \in Seq(Paths) /\ ToSet(l) \ {Head(l)} \subseteq ToSet(Tail(l))
<1>1. /\ Tail(l) \in Seq(Paths) /\ Len(Tail(l)) = Len(l) - 1 /\ Len(l) \in Nat \ {0}
      /\ \A i \in 1..Len(Tail(l)) : Tail(l)[i] = l[i + 1]
      /\ Head(l) = l[1]
  BY HeadTailProperties, EmptySeq
<1>2. ASSUME NEW i \in 1..Len(l), l[i] # Head(l)
      PROVE  \E j \in 1..Len(Tail(l)) : Tail(l)[j] = l[i]
  <2>1. i - 1 \in 1..Len(Tail(l)) /\ Tail(l)[i - 1] = l[i]
    BY <1>1, <1>2
  <2> QED BY <2>1
<1> DEFINE rest == Tail(l)
           first == Head(l)
<1>3. /\ rest \in Seq(Paths)
      /\ \A i \in 1..Len(l) : l[i] # first => \E j \in 1..Len(rest) : rest[j] = l[i]
  BY <1>1, <1>2
<1> HIDE DEF rest, first
<1>4. ToSet(l) \ {first} \subseteq ToSet(rest)
  BY <1>3 DEF ToSet
<1> QED BY <1>3, <1>4 DEF rest, first

\* ListedByUse, of any list and any order of uses.
ByUse(l, r) ==
  \A i \in DOMAIN l : \A q \in ToSet(l) :
    <<l[i], q>> \in r => \E j \in DOMAIN l : i < j /\ l[j] = q

\* A path that leaves its first place leaves the others in the order of their uses.
LEMMA ByUseTakenOut ==
  ASSUME NEW l \in Seq(Paths), NEW e, NEW r, ByUse(l, r)
  PROVE  ByUse(RemoveFirst(l, e), r)
<1>1. CASE ~Contains(l, e)
  BY <1>1 DEF RemoveFirst, Contains
<1>2. CASE Contains(l, e)
  <2> DEFINE rest == RemoveFirst(l, e)
  <2>1. PICK n \in 1..Len(l) :
          /\ l[n] = e /\ \A i \in 1..Len(l) : l[i] = e => n <= i
          /\ rest \in Seq(Paths) /\ Len(rest) = Len(l) - 1
          /\ \A i \in 1..Len(l) - 1 : rest[i] = IF i <= n - 1 THEN l[i] ELSE l[i + 1]
    BY <1>2, TakenOut
  <2> HIDE DEF rest
  <2>2. /\ DOMAIN l = 1..Len(l) /\ Len(l) \in Nat /\ DOMAIN rest = 1..Len(l) - 1
        /\ rest \in Seq(Paths)
    BY <2>1
  <2>3. ASSUME NEW i \in DOMAIN rest
        PROVE  \E m \in 1..Len(l) : m # n /\ rest[i] = l[m] /\ m = IF i <= n - 1 THEN i ELSE i + 1
    <3> DEFINE m == IF i <= n - 1 THEN i ELSE i + 1
    <3>1. m \in 1..Len(l) /\ m # n
      BY <2>1, <2>2
    <3>2. rest[i] = l[m]
      BY <2>1, <2>2
    <3> QED BY <3>1, <3>2
  <2>4. ASSUME NEW i \in DOMAIN rest, NEW m \in 1..Len(l), m = IF i <= n - 1 THEN i ELSE i + 1,
               NEW o \in 1..Len(l), o # n, m < o
        PROVE  \E j \in DOMAIN rest : i < j /\ rest[j] = l[o]
    <3> DEFINE j == IF o <= n - 1 THEN o ELSE o - 1
    <3>1. j \in 1..Len(l) - 1 /\ i < j /\ o = IF j <= n - 1 THEN j ELSE j + 1
      <4>1. i \in Int /\ n \in Int /\ o \in Int /\ m \in Int
        BY <2>2
      <4> QED BY <2>1, <2>2, <2>4, <4>1
    <3> HIDE DEF j
    <3>2. rest[j] = l[o]
      BY <2>1, <3>1
    <3> QED BY <2>2, <3>1, <3>2
  <2>5. ASSUME NEW i \in DOMAIN rest, NEW q \in ToSet(rest), <<rest[i], q>> \in r
        PROVE  \E j \in DOMAIN rest : i < j /\ rest[j] = q
    <3>1. PICK m \in 1..Len(l) : m # n /\ rest[i] = l[m] /\ m = IF i <= n - 1 THEN i ELSE i + 1
      BY <2>3
    <3>2. PICK k \in DOMAIN rest : rest[k] = q
      BY <2>5 DEF ToSet
    <3>3. PICK w \in 1..Len(l) : w # n /\ q = l[w]
      BY <2>3, <3>2
    <3>4. q \in ToSet(l) /\ <<l[m], q>> \in r /\ m \in DOMAIN l
      BY <2>2, <2>5, <3>1, <3>3 DEF ToSet
    <3>5. PICK o \in DOMAIN l : m < o /\ l[o] = q
      BY <3>4 DEF ByUse
    <3>6. CASE o # n
      BY <2>2, <2>4, <3>1, <3>5, <3>6
    <3>7. CASE o = n
      <4>1. n <= w /\ m < w
        BY <2>1, <2>2, <3>1, <3>3, <3>5, <3>7
      <4> QED BY <2>4, <3>1, <3>3, <4>1
    <3> QED BY <3>6, <3>7
  <2> QED BY <2>5 DEF ByUse, rest
<1> QED BY <1>1, <1>2

\* So does the first path that is evicted.
LEMMA ByUseEvicted ==
  ASSUME NEW l \in Seq(Paths), l # <<>>, NEW r, ByUse(l, r)
  PROVE  ByUse(Tail(l), r)
<1> DEFINE rest == Tail(l)
<1>1. /\ rest \in Seq(Paths) /\ Len(rest) = Len(l) - 1 /\ Len(l) \in Nat \ {0}
      /\ \A i \in 1..Len(rest) : rest[i] = l[i + 1]
  BY HeadTailProperties, EmptySeq
<1> HIDE DEF rest
<1>2. DOMAIN rest = 1..Len(l) - 1 /\ DOMAIN l = 1..Len(l)
  BY <1>1
<1>3. ASSUME NEW i \in DOMAIN rest PROVE i + 1 \in DOMAIN l /\ rest[i] = l[i + 1]
  BY <1>1, <1>2
<1>4. ASSUME NEW i \in DOMAIN rest, NEW q \in ToSet(rest), <<rest[i], q>> \in r
      PROVE  \E j \in DOMAIN rest : i < j /\ rest[j] = q
  <2>1. PICK k \in DOMAIN rest : rest[k] = q
    BY <1>4 DEF ToSet
  <2>2. q \in ToSet(l) /\ i + 1 \in DOMAIN l /\ <<l[i + 1], q>> \in r
    BY <1>3, <1>4, <2>1 DEF ToSet
  <2>3. PICK o \in DOMAIN l : i + 1 < o /\ l[o] = q
    BY <2>2 DEF ByUse
  <2> DEFINE j == o - 1
  <2>4. j \in DOMAIN rest /\ i < j /\ j + 1 = o
    BY <1>1, <1>2, <2>3
  <2> HIDE DEF j
  <2>5. rest[j] = q
    BY <1>3, <2>3, <2>4
  <2> QED BY <2>4, <2>5
<1> QED BY <1>4 DEF ByUse, rest

\* What the uses make of the order of uses.
UsedAfter(r, p) == {e \in r : e[1] # p /\ e[2] # p} \cup ((Paths \ {p}) \X {p})

\* The path used last goes to the end.
LEMMA ByUseAppended ==
  ASSUME NEW l \in Seq(Paths), NEW p \in Paths, NEW r, ByUse(l, r)
  PROVE  ByUse(Append(l, p), UsedAfter(r, p))
<1> DEFINE longer == Append(l, p)
<1>1. /\ longer \in Seq(Paths) /\ Len(l) \in Nat
      /\ DOMAIN l = 1..Len(l) /\ DOMAIN longer = 1..Len(l) + 1
      /\ \A i \in 1..Len(l) : longer[i] = l[i]
      /\ longer[Len(l) + 1] = p
  OBVIOUS
<1> HIDE DEF longer
<1>2. ASSUME NEW i \in DOMAIN longer, NEW q \in ToSet(longer),
             <<longer[i], q>> \in UsedAfter(r, p)
      PROVE  \E j \in DOMAIN longer : i < j /\ longer[j] = q
  <2>1. longer[i] # p
    BY <1>2 DEF UsedAfter
  <2>2. i \in 1..Len(l) /\ longer[i] = l[i]
    BY <1>1, <2>1
  <2>3. CASE q = p
    <3>1. Len(l) + 1 \in DOMAIN longer /\ i < Len(l) + 1
      BY <1>1, <2>2
    <3> QED BY <1>1, <2>3, <3>1
  <2>4. CASE q # p
    <3>1. <<l[i], q>> \in r
      BY <1>2, <2>2, <2>4 DEF UsedAfter
    <3>2. PICK k \in DOMAIN longer : longer[k] = q
      BY <1>2 DEF ToSet
    <3>3. k \in DOMAIN l /\ l[k] = q
      BY <1>1, <2>4, <3>2
    <3>4. q \in ToSet(l)
      BY <3>3 DEF ToSet
    <3>5. PICK j \in DOMAIN l : i < j /\ l[j] = q
      BY <1>1, <2>2, <3>1, <3>4 DEF ByUse
    <3> QED BY <1>1, <3>5
  <2> QED BY <2>3, <2>4
<1> QED BY <1>2 DEF ByUse, longer

\* A sequence has no more elements than places.
LEMMA NoMoreThanPlaces ==
  ASSUME NEW l \in Seq(Paths)
  PROVE  /\ IsFiniteSet(ToSet(l)) /\ Cardinality(ToSet(l)) \in Nat
         /\ Cardinality(ToSet(l)) <= Len(l)
<1> DEFINE D == 1..Len(l)
           T == ToSet(l)
<1>1. l \in Surjection(D, T)
  <2>1. l \in [D -> T] /\ \A t \in T : \E i \in D : l[i] = t
    BY DEF ToSet
  <2> QED BY <2>1 DEF Surjection
<1>2. IsFiniteSet(D) /\ Cardinality(D) = Len(l)
  <2>1. Len(l) \in Nat
    OBVIOUS
  <2> QED BY <2>1, FS_Interval
<1> HIDE DEF D, T
<1>3. IsFiniteSet(T) /\ Cardinality(T) <= Cardinality(D)
  BY <1>1, <1>2, FS_Surjection
<1> QED BY <1>2, <1>3, FS_CardinalityType DEF T

\* What the edge holds, its list, and its histories keep of EdgeInv, before a path is
\* stored.
Evictable(holds, l, w, r) ==
  /\ l \in Seq(Paths) /\ w \in Nat
  /\ IsFiniteSet(DOMAIN holds) /\ DOMAIN holds \subseteq Paths
  /\ Cardinality(DOMAIN holds) <= edge_capacity
  /\ DOMAIN holds \subseteq ToSet(l)
  /\ Len(l) = Cardinality(DOMAIN holds) + w
  /\ ByUse(l, r)

\* A full cache evicts before it stores, or fails and stores nothing, which only an
\* owed push can cause; either way what it holds is bounded, listed and in order.
LEMMA StoredKeepsBound ==
  ASSUME NEW holds, NEW l, NEW p \in Paths, Evictable(holds, l, owed, later),
         Stored(holds, l, p)
  PROVE  Evictable(edge_cache', lru_order', owed', later')
<1> DEFINE full == Cardinality(DOMAIN holds) >= edge_capacity
           evicted == IF full THEN Drop(holds, Head(l)) ELSE holds
           kept == IF full THEN Tail(l) ELSE l
<1>1. edge_capacity \in Nat \ {0} /\ Cardinality(DOMAIN holds) \in Nat
  BY EdgeAssumption, FS_CardinalityType DEF Evictable
<1>0. /\ l \in Seq(Paths) /\ owed \in Nat /\ Len(l) = Cardinality(DOMAIN holds) + owed
      /\ ByUse(l, later) /\ DOMAIN holds \subseteq ToSet(l)
      /\ IsFiniteSet(DOMAIN holds) /\ DOMAIN holds \subseteq Paths
      /\ Cardinality(DOMAIN holds) <= edge_capacity
  BY DEF Evictable
<1>2. full => l # <<>>
  <2> SUFFICES ASSUME full, l = <<>> PROVE FALSE
    OBVIOUS
  <2>1. ToSet(l) = {}
    BY DEF ToSet
  <2>2. DOMAIN holds = {}
    BY <2>1 DEF Evictable
  <2> QED BY <1>1, <2>2, FS_EmptySet
<1>3. /\ kept \in Seq(Paths) /\ (full => ToSet(l) \ {Head(l)} \subseteq ToSet(kept))
      /\ Len(kept) = IF full THEN Len(l) - 1 ELSE Len(l)
      /\ ByUse(kept, later)
  <2>1. CASE full
    <3>1. Len(Tail(l)) = Len(l) - 1
      BY <1>0, <1>2, <2>1, HeadTailProperties
    <3> QED BY <1>0, <1>2, <2>1, <3>1, FirstEvicted, ByUseEvicted
  <2>2. CASE ~full
    BY <1>0, <2>2
  <2> QED BY <2>1, <2>2
<1>4. CASE full /\ Head(l) \notin DOMAIN holds
  <2>1. edge_cache' = holds /\ lru_order' = kept /\ owed' = owed - 1 /\ later' = later
    BY <1>4 DEF Stored
  <2>2. DOMAIN holds \subseteq ToSet(kept)
    BY <1>0, <1>3, <1>4
  <2> HIDE DEF kept, full
  <2>3. Cardinality(DOMAIN holds) <= Len(kept)
    <3>1. /\ IsFiniteSet(ToSet(kept)) /\ Cardinality(ToSet(kept)) \in Nat
          /\ Cardinality(ToSet(kept)) <= Len(kept)
      BY <1>3, NoMoreThanPlaces
    <3>2. Cardinality(DOMAIN holds) <= Cardinality(ToSet(kept))
      BY <2>2, <3>1, FS_Subset
    <3> DEFINE n == Cardinality(ToSet(kept))
    <3>3. n \in Nat /\ Cardinality(DOMAIN holds) <= n /\ n <= Len(kept) /\ Len(kept) \in Nat
      BY <1>3, <3>1, <3>2
    <3> HIDE DEF n
    <3> QED BY <1>1, <3>3
  <2>4. Len(kept) = Len(l) - 1
    BY <1>3, <1>4
  <2>5. owed' \in Nat /\ Len(kept) = Cardinality(DOMAIN holds) + owed'
    BY <1>0, <1>1, <2>1, <2>3, <2>4
  <2> QED BY <1>0, <1>3, <2>1, <2>2, <2>5 DEF Evictable
<1>5. CASE ~(full /\ Head(l) \notin DOMAIN holds)
  <2>1. /\ DOMAIN edge_cache' = DOMAIN evicted \cup {p} /\ lru_order' = Append(kept, p)
        /\ owed' = IF p \in DOMAIN evicted THEN owed + 1 ELSE owed
        /\ later' = UsedAfter(later, p)
    BY <1>5 DEF Stored, UsedLast, UsedAfter
  <2>2. DOMAIN evicted = IF full THEN DOMAIN holds \ {Head(l)} ELSE DOMAIN holds
    BY DEF Drop
  <2>3. /\ IsFiniteSet(DOMAIN evicted) /\ DOMAIN evicted \subseteq Paths
        /\ Cardinality(DOMAIN evicted) \in Nat
        /\ Cardinality(DOMAIN evicted) < edge_capacity
        /\ Len(kept) = Cardinality(DOMAIN evicted) + owed
    <3>1. CASE full
      <4>1. Head(l) \in DOMAIN holds
        BY <1>5, <3>1
      <4>2. /\ IsFiniteSet(DOMAIN holds \ {Head(l)})
            /\ Cardinality(DOMAIN holds \ {Head(l)}) = Cardinality(DOMAIN holds) - 1
        BY <1>0, <4>1, FS_RemoveElement
      <4>3. Cardinality(DOMAIN holds \ {Head(l)}) \in Nat
        BY <4>2, FS_CardinalityType
      <4>4. DOMAIN evicted = DOMAIN holds \ {Head(l)} /\ Len(kept) = Len(l) - 1
        BY <1>3, <2>2, <3>1
      <4> HIDE DEF evicted, full, kept
      <4>5. Cardinality(DOMAIN holds) - 1 < edge_capacity
        BY <1>0, <1>1
      <4>6. DOMAIN holds \ {Head(l)} \subseteq Paths
        BY <1>0
      <4>7. Len(l) - 1 = Cardinality(DOMAIN holds) - 1 + owed
        BY <1>0, <1>1
      <4> QED BY <4>2, <4>3, <4>4, <4>5, <4>6, <4>7
    <3>2. CASE ~full
      <4>1. DOMAIN evicted = DOMAIN holds /\ Len(kept) = Len(l)
        BY <1>3, <2>2, <3>2
      <4>2. Cardinality(DOMAIN holds) < edge_capacity
        BY <1>1, <3>2
      <4> HIDE DEF evicted, full, kept
      <4> QED BY <1>0, <1>1, <4>1, <4>2
    <3> QED BY <3>1, <3>2
  <2>4. DOMAIN evicted \subseteq ToSet(kept)
    BY <1>3, <2>2 DEF Evictable
  <2> HIDE DEF evicted, kept
  <2> DEFINE D == DOMAIN evicted
  <2>a. /\ IsFiniteSet(D) /\ Cardinality(D) \in Nat /\ Cardinality(D) < edge_capacity
        /\ Len(kept) = Cardinality(D) + owed
    BY <2>3
  <2>0. owed' = IF p \in D THEN owed + 1 ELSE owed
    BY <2>1
  <2> HIDE DEF D
  <2>b. /\ IsFiniteSet(D \cup {p})
        /\ Cardinality(D \cup {p}) = IF p \in D THEN Cardinality(D) ELSE Cardinality(D) + 1
    BY <2>a, FS_AddElement
  <2>c. Cardinality(D \cup {p}) <= edge_capacity
    BY <1>1, <2>a, <2>b
  <2>d. owed' \in Nat /\ Len(kept) + 1 = Cardinality(D \cup {p}) + owed'
    BY <1>0, <2>0, <2>a, <2>b
  <2>5. /\ IsFiniteSet(DOMAIN edge_cache') /\ DOMAIN edge_cache' \subseteq Paths
        /\ Cardinality(DOMAIN edge_cache') <= edge_capacity
    BY <2>1, <2>3, <2>b, <2>c DEF D
  <2>6. lru_order' \in Seq(Paths) /\ DOMAIN edge_cache' \subseteq ToSet(lru_order')
    BY <1>3, <2>1, <2>4, ListedLast
  <2>7. Len(lru_order') = Cardinality(DOMAIN edge_cache') + owed'
    <3>1. Len(lru_order') = Len(kept) + 1
      BY <1>3, <2>1
    <3> QED BY <2>1, <2>d, <3>1 DEF D
  <2>8. ByUse(lru_order', later')
    BY <1>3, <2>1, ByUseAppended
  <2> QED BY <2>5, <2>6, <2>7, <2>8, <2>d DEF Evictable
<1> QED BY <1>4, <1>5

\* Every request, purge and push keeps the invariant.
LEMMA EdgeStep ==
  ASSUME EdgeInv, [EdgeNext]_edgeVars
  PROVE  EdgeInv'
<1> DEFINE Kept == Evictable(edge_cache, lru_order, owed, later)
<1>0. Kept /\ edge_time \in Nat
  BY DEF EdgeInv, EdgeKept, ListedByUse, ByUse, Cached, Evictable
<1>t. /\ lru_order \in Seq(Paths) /\ owed \in Nat /\ ByUse(lru_order, later)
      /\ Len(lru_order) = Cardinality(DOMAIN edge_cache) + owed
      /\ DOMAIN edge_cache \subseteq ToSet(lru_order) /\ IsFiniteSet(DOMAIN edge_cache)
      /\ Cardinality(DOMAIN edge_cache) \in Nat
      /\ DOMAIN edge_cache \subseteq Paths /\ Cardinality(DOMAIN edge_cache) <= edge_capacity
      /\ edge_capacity \in Nat
  BY <1>0, FS_CardinalityType, EdgeAssumption DEF Evictable
<1>1. SUFFICES Kept' /\ edge_time' \in Nat
  <2> SUFFICES ASSUME Kept', edge_time' \in Nat PROVE EdgeInv'
    OBVIOUS
  <2>1. owed' >= 0
    BY DEF Evictable
  <2> QED BY <2>1 DEF EdgeInv, EdgeKept, ListedByUse, ByUse, Cached, Evictable
<1>2. edge_time' \in Nat
  BY <1>0 DEF EdgeNext, EdgeServer, Request, RequestHit, RequestMiss, Purge, PushAsset,
     EdgeTimePasses, edgeVars
<1>r. ASSUME NEW p \in Cached
      PROVE  LET rest == RemoveFirst(lru_order, p) IN
             /\ rest \in Seq(Paths) /\ Len(rest) = Len(lru_order) - 1
             /\ ToSet(lru_order) \ {p} \subseteq ToSet(rest) /\ ByUse(rest, later)
  <2>1. Contains(lru_order, p)
    BY <1>t DEF Cached, Contains, ToSet
  <2> QED BY <1>t, <2>1, TakenOut, OthersStay, ByUseTakenOut
<1>d. ASSUME NEW p \in Cached
      PROVE  Evictable(Drop(edge_cache, p), RemoveFirst(lru_order, p), owed, later)
  <2>1. DOMAIN Drop(edge_cache, p) = DOMAIN edge_cache \ {p}
    BY DEF Drop
  <2>2. /\ IsFiniteSet(DOMAIN edge_cache \ {p})
        /\ Cardinality(DOMAIN edge_cache \ {p}) = Cardinality(DOMAIN edge_cache) - 1
    BY <1>t, FS_RemoveElement DEF Cached
  <2> DEFINE rest == RemoveFirst(lru_order, p)
  <2>3. /\ rest \in Seq(Paths) /\ Len(rest) = Len(lru_order) - 1
        /\ ToSet(lru_order) \ {p} \subseteq ToSet(rest) /\ ByUse(rest, later)
    BY <1>r
  <2> HIDE DEF rest
  <2>4. /\ Cardinality(DOMAIN edge_cache \ {p}) <= edge_capacity
        /\ Len(rest) = Cardinality(DOMAIN edge_cache \ {p}) + owed
    BY <1>t, <2>2, <2>3
  <2> QED BY <1>t, <2>1, <2>2, <2>3, <2>4 DEF Evictable, rest
<1>3. ASSUME NEW p \in Paths, RequestHit(p) PROVE Kept'
  <2> DEFINE rest == RemoveFirst(lru_order, p)
  <2>1. /\ edge_cache' = edge_cache /\ lru_order' = Append(rest, p)
        /\ owed' = owed /\ later' = UsedAfter(later, p) /\ p \in Cached
    BY <1>3 DEF RequestHit, UsedLast, UsedAfter
  <2>2. /\ rest \in Seq(Paths) /\ Len(rest) = Len(lru_order) - 1
        /\ ToSet(lru_order) \ {p} \subseteq ToSet(rest) /\ ByUse(rest, later)
    BY <1>r, <2>1
  <2> HIDE DEF rest
  <2>3. /\ lru_order' \in Seq(Paths)
        /\ ToSet(rest) \cup {p} \subseteq ToSet(lru_order')
    BY <2>1, <2>2, ListedLast
  <2>4. Len(lru_order') = Len(lru_order)
    BY <1>t, <2>1, <2>2
  <2>5. ByUse(lru_order', later')
    BY <2>1, <2>2, ByUseAppended
  <2> QED BY <1>t, <2>1, <2>2, <2>3, <2>4, <2>5 DEF Evictable
<1>4. ASSUME NEW p \in Paths, RequestMiss(p) PROVE Kept'
  <2> DEFINE holds == Drop(edge_cache, p)
             l == IF p \in Cached THEN RemoveFirst(lru_order, p) ELSE lru_order
  <2>1. Evictable(holds, l, owed, later)
    <3>1. CASE p \in Cached
      BY <1>d, <3>1
    <3>2. CASE p \notin Cached
      <4>1. DOMAIN holds = DOMAIN edge_cache
        BY <3>2 DEF Drop, Cached
      <4> QED BY <1>0, <3>2, <4>1 DEF Evictable
    <3> QED BY <3>1, <3>2
  <2>2. \/ Stored(holds, l, p)
        \/ edge_cache' = holds /\ lru_order' = l /\ owed' = owed /\ later' = later
    BY <1>4 DEF RequestMiss
  <2> HIDE DEF holds, l
  <2> QED BY <2>1, <2>2, StoredKeepsBound
<1>5. ASSUME NEW p \in Paths, Purge(p) PROVE Kept'
  BY <1>5, <1>d DEF Purge
<1>6. ASSUME NEW p \in Paths, PushAsset(p) PROVE Kept'
  BY <1>0, <1>6, StoredKeepsBound DEF PushAsset
<1>7. CASE EdgeTimePasses \/ UNCHANGED edgeVars
  BY <1>0, <1>7 DEF EdgeTimePasses, edgeVars
<1> QED BY <1>2, <1>3, <1>4, <1>5, <1>6, <1>7 DEF EdgeNext, EdgeServer, Request
-----------------------------------------------------------------------------
(* The Redis structures *)

RedisTypeOK ==
  /\ str \in Nat \cup {-1} /\ str_expires \in Nat \cup {-1}
  /\ expected \in Nat \cup {-1} /\ deadline \in Nat \cup {-1}
  /\ redis_time \in Nat

\* The string is the one Redis has, with its deadline; one that has expired is gone in
\* Redis and may still be here. Once an INCR went on from an expired value, Redis has
\* one that does not expire and counts as much, until the next plain SET or DEL.
StringKept ==
  /\ str = -1 => str_expires = -1
  /\ ~stale_incr => /\ StrExpired => expected = -1 /\ deadline = -1
                    /\ ~StrExpired => expected = str /\ deadline = str_expires
  /\ stale_incr => /\ expected >= 1 /\ deadline = -1
                   /\ StrCheck => str <= expected

\* l is what lies in p after the first a elements and before the last b.
Between(l, p, a, b) ==
  /\ l \in Seq(RedisMembers) /\ p \in Seq(RedisMembers)
  /\ a \in Nat /\ b \in Nat
  /\ Len(p) = a + Len(l) + b
  /\ \A i \in 1..Len(l) : l[i] = p[a + i]

ListKept == Between(list, pushed, popped_left, popped_right)

MembersCounted ==
  /\ DOMAIN scores \subseteq RedisMembers
  /\ reported = Cardinality(DOMAIN scores)

RedisInv == RedisTypeOK /\ StringKept /\ ListKept /\ MembersCounted

\* A part of l lies in p further from both ends.
LEMMA PartBetween ==
  ASSUME NEW l, NEW p, NEW a, NEW b, Between(l, p, a, b),
         NEW i \in Nat, NEW j \in Nat, i <= j, j <= Len(l)
  PROVE  Between(SubSeq(l, i + 1, j), p, a + i, b + (Len(l) - j))
<1>1. Len(l) \in Nat
  BY DEF Between
<1>2. /\ SubSeq(l, i + 1, j) \in Seq(RedisMembers)
      /\ Len(SubSeq(l, i + 1, j)) = j - i
      /\ \A k \in 1..j - i : SubSeq(l, i + 1, j)[k] = l[i + k]
  <2>1. \A k \in i + 1..j : l[k] \in RedisMembers
    BY <1>1, ElementOfSeq DEF Between
  <2>2. /\ SubSeq(l, i + 1, j) \in Seq(RedisMembers)
        /\ Len(SubSeq(l, i + 1, j)) = IF i + 1 <= j THEN j - (i + 1) + 1 ELSE 0
        /\ \A k \in 1..j - (i + 1) + 1 : SubSeq(l, i + 1, j)[k] = l[i + 1 + k - 1]
    <3> DEFINE m == i + 1
    <3>1. m \in Int /\ j \in Int /\ \A k \in m..j : l[k] \in RedisMembers
      BY <2>1
    <3> HIDE DEF m
    <3>2. /\ SubSeq(l, m, j) \in Seq(RedisMembers)
          /\ Len(SubSeq(l, m, j)) = IF m <= j THEN j - m + 1 ELSE 0
          /\ \A k \in 1..j - m + 1 : SubSeq(l, m, j)[k] = l[m + k - 1]
      BY <3>1, SubSeqProperties
    <3> QED BY <3>2 DEF m
  <2> QED BY <2>2
<1> HIDE DEF Between
<1>3. /\ p \in Seq(RedisMembers) /\ a \in Nat /\ b \in Nat
      /\ Len(p) = a + Len(l) + b
      /\ \A k \in 1..Len(l) : l[k] = p[a + k]
  BY DEF Between
<1>4. Len(p) = (a + i) + (j - i) + (b + (Len(l) - j))
  BY <1>1, <1>3
<1>5. ASSUME NEW k \in 1..j - i PROVE SubSeq(l, i + 1, j)[k] = p[a + i + k]
  <2>1. i + k \in 1..Len(l)
    BY <1>1
  <2>2. l[i + k] = p[a + (i + k)]
    BY <1>3, <2>1
  <2> QED BY <1>2, <1>3, <2>2
<1>6. a + i \in Nat /\ b + (Len(l) - j) \in Nat
  BY <1>1, <1>3
<1> QED BY <1>2, <1>3, <1>4, <1>5, <1>6 DEF Between

\* A part that begins after its end is empty, wherever that is.
LEMMA PartEmpty ==
  ASSUME NEW l \in Seq(RedisMembers), NEW i \in Nat, NEW j \in Nat, j <= i
  PROVE  SubSeq(l, i + 1, j) = <<>>
BY SubSeqEmpty

LEMMA TwoOrdered ==
  ASSUME NEW m \in Int, NEW n \in Int
  PROVE  /\ Min({m, n}) = IF m <= n THEN m ELSE n
         /\ Max({m, n}) = IF m >= n THEN m ELSE n
BY DEF Min, Max

\* Where Python's slice of a list begins and ends, cut at the end of the list.
SliceFrom(l, i)  == IF i <= Len(l) THEN i ELSE Len(l)
SliceTo(l, i, j) == IF j <= SliceFrom(l, i) THEN SliceFrom(l, i)
                    ELSE IF j <= Len(l) THEN j ELSE Len(l)

\* Python's slice of a list is a part of it, which may be empty.
LEMMA SliceIs ==
  ASSUME NEW l \in Seq(RedisMembers), NEW i \in Nat, NEW j \in Nat
  PROVE  /\ SliceFrom(l, i) \in Nat /\ SliceTo(l, i, j) \in Nat
         /\ SliceFrom(l, i) <= SliceTo(l, i, j) /\ SliceTo(l, i, j) <= Len(l)
         /\ PySlice(l, i, j) = SubSeq(l, SliceFrom(l, i) + 1, SliceTo(l, i, j))
<1> DEFINE m == SliceFrom(l, i)
           n == SliceTo(l, i, j)
           e == IF j <= Len(l) THEN j ELSE Len(l)
<1>1. m \in Nat /\ n \in Nat /\ m <= n /\ n <= Len(l) /\ e \in Nat
  BY DEF SliceFrom, SliceTo
<1>2. PySlice(l, i, j) = SubSeq(l, i + 1, e)
  BY TwoOrdered DEF PySlice
<1>3. PySlice(l, i, j) = SubSeq(l, m + 1, n)
  <2>1. CASE e <= i
    <3>1. m = n
      BY <2>1 DEF SliceFrom, SliceTo
    <3>2. SubSeq(l, i + 1, e) = <<>>
      BY <1>1, <2>1, PartEmpty
    <3> HIDE DEF m, n, e
    <3>3. SubSeq(l, m + 1, n) = <<>>
      BY <1>1, <3>1, PartEmpty
    <3> QED BY <1>2, <3>2, <3>3
  <2>2. CASE ~(e <= i)
    <3>1. m = i /\ n = e
      BY <2>2 DEF SliceFrom, SliceTo
    <3> QED BY <1>2, <3>1
  <2> QED BY <2>1, <2>2
<1> QED BY <1>1, <1>3

\* So a slice of what lies in p lies in p, further from both ends.
LEMMA SliceBetween ==
  ASSUME NEW l, NEW p, NEW a, NEW b, Between(l, p, a, b), NEW i \in Nat, NEW j \in Nat
  PROVE  /\ Between(PySlice(l, i, j), p, a + SliceFrom(l, i), b + (Len(l) - SliceTo(l, i, j)))
         /\ Len(PySlice(l, i, j)) = SliceTo(l, i, j) - SliceFrom(l, i)
<1> DEFINE m == SliceFrom(l, i)
           n == SliceTo(l, i, j)
<1>1. l \in Seq(RedisMembers) /\ p \in Seq(RedisMembers) /\ a \in Nat /\ b \in Nat
      /\ Len(p) = a + Len(l) + b /\ Len(l) \in Nat
  BY DEF Between
<1>2. /\ m \in Nat /\ n \in Nat /\ m <= n /\ n <= Len(l)
      /\ PySlice(l, i, j) = SubSeq(l, m + 1, n)
  BY <1>1, SliceIs
<1> HIDE DEF m, n
<1>3. Between(PySlice(l, i, j), p, a + m, b + (Len(l) - n))
  BY <1>2, PartBetween
<1>4. /\ Len(p) = (a + m) + Len(PySlice(l, i, j)) + (b + (Len(l) - n))
      /\ Len(PySlice(l, i, j)) \in Nat
  <2> DEFINE part == PySlice(l, i, j)
             before == a + m
             after == b + (Len(l) - n)
  <2>1. part \in Seq(RedisMembers) /\ Len(p) = before + Len(part) + after
    BY <1>3 DEF Between
  <2> HIDE DEF part
  <2> QED BY <2>1 DEF part
<1>5. Len(PySlice(l, i, j)) = n - m
  BY <1>1, <1>2, <1>4
<1> QED BY <1>3, <1>5 DEF m, n

\* What a sequence gets at one place, between the n elements before and the rest.
LEMMA PutIn ==
  ASSUME NEW p \in Seq(RedisMembers), NEW n \in 0..Len(p), NEW v \in RedisMembers
  PROVE  LET q == SubSeq(p, 1, n) \o <<v>> \o SubSeq(p, n + 1, Len(p))
         IN /\ q \in Seq(RedisMembers) /\ Len(q) = Len(p) + 1
            /\ \A i \in 1..Len(p) + 1 :
                 q[i] = IF i <= n THEN p[i] ELSE IF i = n + 1 THEN v ELSE p[i - 1]
<1> DEFINE before == SubSeq(p, 1, n)
           upto == before \o <<v>>
           after == SubSeq(p, n + 1, Len(p))
<1>1. /\ before \in Seq(RedisMembers) /\ Len(before) = n
      /\ \A i \in 1..n : before[i] = p[i]
  BY SubSeqProperties, ElementOfSeq
<1>2. /\ after \in Seq(RedisMembers) /\ Len(after) = Len(p) - n
      /\ \A i \in 1..Len(p) - n : after[i] = p[n + i]
  <2> DEFINE m == n + 1
  <2>1. m \in Int /\ Len(p) \in Int /\ \A i \in m..Len(p) : p[i] \in RedisMembers
    BY ElementOfSeq
  <2> HIDE DEF m
  <2>2. /\ SubSeq(p, m, Len(p)) \in Seq(RedisMembers)
        /\ Len(SubSeq(p, m, Len(p))) = IF m <= Len(p) THEN Len(p) - m + 1 ELSE 0
        /\ \A i \in 1..Len(p) - m + 1 : SubSeq(p, m, Len(p))[i] = p[m + i - 1]
    BY <2>1, SubSeqProperties
  <2> QED BY <2>2 DEF m
<1> HIDE DEF before, after
<1>3. <<v>> \in Seq(RedisMembers) /\ Len(<<v>>) = 1 /\ <<v>>[1] = v
  OBVIOUS
<1>4. /\ upto \in Seq(RedisMembers) /\ Len(upto) = n + 1
      /\ \A i \in 1..n + 1 : upto[i] = IF i <= n THEN before[i] ELSE <<v>>[i - n]
  BY <1>1, <1>3, ConcatProperties
<1>5. \A i \in 1..n + 1 : upto[i] = IF i <= n THEN p[i] ELSE v
  BY <1>1, <1>3, <1>4
<1> HIDE DEF upto
<1>6. /\ upto \o after \in Seq(RedisMembers) /\ Len(upto \o after) = Len(p) + 1
      /\ \A i \in 1..Len(p) + 1 :
           (upto \o after)[i] = IF i <= n + 1 THEN upto[i] ELSE after[i - (n + 1)]
  <2>1. Len(upto) + Len(after) = Len(p) + 1
    BY <1>2, <1>4
  <2>2. /\ upto \o after \in Seq(RedisMembers) /\ Len(upto \o after) = Len(upto) + Len(after)
        /\ \A i \in 1..Len(upto) + Len(after) :
             (upto \o after)[i] = IF i <= Len(upto) THEN upto[i] ELSE after[i - Len(upto)]
    BY <1>2, <1>4, ConcatProperties
  <2> QED BY <1>4, <2>1, <2>2
<1>7. ASSUME NEW i \in 1..Len(p) + 1
      PROVE  (upto \o after)[i] = IF i <= n THEN p[i] ELSE IF i = n + 1 THEN v ELSE p[i - 1]
  <2>1. CASE i <= n + 1
    <3>1. (upto \o after)[i] = upto[i]
      BY <1>6, <2>1
    <3>2. upto[i] = IF i <= n THEN p[i] ELSE v
      BY <1>5, <2>1
    <3>3. ~(i <= n) => i = n + 1
      BY <2>1
    <3> QED BY <3>1, <3>2, <3>3
  <2>2. CASE i > n + 1
    <3> DEFINE k == i - (n + 1)
    <3>1. k \in 1..Len(p) - n /\ n + k = i - 1
      BY <2>2
    <3>2. (upto \o after)[i] = after[k]
      BY <1>6, <2>2
    <3> HIDE DEF k
    <3>3. after[k] = p[i - 1]
      BY <1>2, <3>1
    <3> QED BY <2>2, <3>2, <3>3
  <2>3. i <= n + 1 \/ i > n + 1
    OBVIOUS
  <2> QED BY <2>1, <2>2, <2>3
<1> QED BY <1>6, <1>7 DEF upto, before, after

\* The list of the structure stays what is left of all that was pushed.
LEMMA ListStep ==
  ASSUME RedisInv, RedisNext
  PROVE  ListKept'
<1>0. /\ Between(list, pushed, popped_left, popped_right)
      /\ list \in Seq(RedisMembers) /\ pushed \in Seq(RedisMembers)
      /\ popped_left \in Nat /\ popped_right \in Nat /\ Len(list) \in Nat
      /\ Len(pushed) = popped_left + Len(list) + popped_right
      /\ \A i \in 1..Len(list) : list[i] = pushed[popped_left + i]
  BY DEF RedisInv, ListKept, Between
<1>b. Between(list, pushed, popped_left, popped_right)
  BY <1>0
<1>n. /\ popped_left \in Nat /\ popped_right \in Nat /\ Len(list) \in Nat
      /\ Len(pushed) = popped_left + Len(list) + popped_right
  BY <1>0
<1>1. ASSUME NEW v \in RedisMembers, LPush(v) PROVE ListKept'
  <2>1. popped_left \in 0..Len(pushed)
    BY <1>0
  <2>2. /\ pushed' \in Seq(RedisMembers) /\ Len(pushed') = Len(pushed) + 1
        /\ \A i \in 1..Len(pushed) + 1 :
             pushed'[i] = IF i <= popped_left THEN pushed[i]
                          ELSE IF i = popped_left + 1 THEN v ELSE pushed[i - 1]
    BY <1>0, <1>1, <2>1, PutIn DEF LPush
  <2>3. /\ <<v>> \in Seq(RedisMembers) /\ Len(<<v>>) = 1 /\ <<v>>[1] = v
        /\ list' = <<v>> \o list
        /\ popped_left' = popped_left /\ popped_right' = popped_right
    BY <1>1 DEF LPush
  <2>4. /\ list' \in Seq(RedisMembers) /\ Len(list') = Len(list) + 1
        /\ \A i \in 1..Len(list) + 1 : list'[i] = IF i <= 1 THEN v ELSE list[i - 1]
    BY <1>0, <2>3, ConcatProperties
  <2>5. ASSUME NEW i \in 1..Len(list) + 1 PROVE list'[i] = pushed'[popped_left + i]
    <3>1. popped_left + i \in 1..Len(pushed) + 1
      BY <1>0
    <3>2. CASE i = 1
      <4>1. ~(popped_left + i <= popped_left) /\ popped_left + i = popped_left + 1 /\ i <= 1
        BY <1>n, <3>2
      <4>2. pushed'[popped_left + i] = v
        BY <2>2, <3>1, <4>1
      <4> QED BY <2>4, <4>1, <4>2
    <3>3. CASE i > 1
      <4>1. /\ ~(popped_left + i <= popped_left) /\ popped_left + i # popped_left + 1
            /\ popped_left + i - 1 = popped_left + (i - 1) /\ i - 1 \in 1..Len(list)
        BY <1>0, <3>3
      <4> DEFINE k == popped_left + i
      <4>k. /\ k \in 1..Len(pushed) + 1 /\ ~(k <= popped_left) /\ k # popped_left + 1
        BY <3>1, <4>1
      <4> HIDE DEF k
      <4>2. pushed'[k] = pushed[k - 1]
        BY <2>2, <4>k
      <4>3. list[i - 1] = pushed[popped_left + (i - 1)]
        BY <1>0, <4>1
      <4>4. list'[i] = list[i - 1]
        BY <2>4, <3>3
      <4>5. k - 1 = popped_left + (i - 1)
        BY <1>n DEF k
      <4> QED BY <4>2, <4>3, <4>4, <4>5 DEF k
    <3> QED BY <3>2, <3>3
  <2> QED BY <1>0, <2>2, <2>3, <2>4, <2>5 DEF ListKept, Between
<1>2. ASSUME NEW v \in RedisMembers, RPush(v) PROVE ListKept'
  <2> DEFINE n == Len(pushed) - popped_right
  <2>1. n \in 0..Len(pushed) /\ n = popped_left + Len(list)
    BY <1>0
  <2>2. pushed' = SubSeq(pushed, 1, n) \o <<v>> \o SubSeq(pushed, n + 1, Len(pushed))
    BY <1>2 DEF RPush
  <2> HIDE DEF n
  <2>3. /\ pushed' \in Seq(RedisMembers) /\ Len(pushed') = Len(pushed) + 1
        /\ \A i \in 1..Len(pushed) + 1 :
             pushed'[i] = IF i <= n THEN pushed[i]
                          ELSE IF i = n + 1 THEN v ELSE pushed[i - 1]
    <3>1. n \in 0..Len(pushed) /\ pushed \in Seq(RedisMembers)
      BY <1>0, <2>1
    <3> DEFINE q == SubSeq(pushed, 1, n) \o <<v>> \o SubSeq(pushed, n + 1, Len(pushed))
    <3>2. /\ q \in Seq(RedisMembers) /\ Len(q) = Len(pushed) + 1
          /\ \A i \in 1..Len(pushed) + 1 :
               q[i] = IF i <= n THEN pushed[i]
                      ELSE IF i = n + 1 THEN v ELSE pushed[i - 1]
      BY <3>1, PutIn
    <3> QED BY <2>2, <3>2
  <2>4. /\ list' = Append(list, v)
        /\ popped_left' = popped_left /\ popped_right' = popped_right
    BY <1>2 DEF RPush
  <2>5. /\ list' \in Seq(RedisMembers) /\ Len(list') = Len(list) + 1
        /\ \A i \in 1..Len(list) + 1 : list'[i] = IF i <= Len(list) THEN list[i] ELSE v
    BY <1>0, <2>4
  <2>6. ASSUME NEW i \in 1..Len(list) + 1 PROVE list'[i] = pushed'[popped_left + i]
    <3>1. popped_left + i \in 1..Len(pushed) + 1
      BY <1>0
    <3>2. CASE i <= Len(list)
      <4>1. popped_left + i <= n
        BY <1>0, <2>1, <3>2
      <4>2. pushed'[popped_left + i] = pushed[popped_left + i]
        BY <2>3, <3>1, <4>1
      <4>3. list[i] = pushed[popped_left + i]
        BY <1>0, <3>2
      <4> QED BY <2>5, <3>2, <4>2, <4>3
    <3>3. CASE i = Len(list) + 1
      <4>1. popped_left + i = n + 1 /\ ~(n + 1 <= n) /\ ~(i <= Len(list))
        BY <1>n, <2>1, <3>3
      <4>2. pushed'[popped_left + i] = v
        BY <2>3, <3>1, <4>1
      <4> QED BY <2>5, <4>1, <4>2
    <3> QED BY <1>0, <3>2, <3>3
  <2> QED BY <1>0, <2>3, <2>4, <2>5, <2>6 DEF ListKept, Between
<1>3. ASSUME NEW count \in 0..2, LPop(count) PROVE ListKept'
  <2> DEFINE from == SliceFrom(list, count)
  <2>1. /\ Between(PySlice(list, count, Len(list)), pushed, popped_left + from,
                   popped_right + (Len(list) - SliceTo(list, count, Len(list))))
        /\ Len(PySlice(list, 0, count)) = SliceTo(list, 0, count) - SliceFrom(list, 0)
    <3>1. count \in Nat /\ 0 \in Nat /\ Len(list) \in Nat
      BY <1>0
    <3> QED BY <1>b, <3>1, SliceBetween
  <2>2. /\ SliceTo(list, count, Len(list)) = Len(list)
        /\ SliceTo(list, 0, count) - SliceFrom(list, 0) = from
    BY <1>n DEF SliceFrom, SliceTo
  <2>3. /\ list' = PySlice(list, count, Len(list))
        /\ popped_left' = popped_left + Len(PySlice(list, 0, count))
        /\ pushed' = pushed /\ popped_right' = popped_right
    BY <1>3 DEF LPop
  <2>4. popped_right + (Len(list) - Len(list)) = popped_right
    BY <1>n
  <2> QED BY <2>1, <2>2, <2>3, <2>4 DEF ListKept
<1>4. ASSUME NEW count \in 0..2, RPop(count) PROVE ListKept'
  <2> DEFINE e == FromEnd(count)
             gone == Len(PySlice(list, e, Len(list)))
  <2>1. e \in Nat /\ e <= Len(list)
    <3>1. Len(list) - count \in Int /\ 0 \in Int
      BY <1>n
    <3>2. Max({Len(list) - count, 0}) = IF Len(list) - count >= 0 THEN Len(list) - count ELSE 0
      BY <3>1, TwoOrdered
    <3> QED BY <1>n, <3>2 DEF FromEnd
  <2>2. list' = PySlice(list, 0, e) /\ popped_right' = popped_right + gone
        /\ pushed' = pushed /\ popped_left' = popped_left
    BY <1>4 DEF RPop
  <2> HIDE DEF e
  <2>3. Len(list) \in Nat /\ 0 \in Nat
    BY <1>n
  <2>4. /\ Between(PySlice(list, 0, e), pushed, popped_left + SliceFrom(list, 0),
                   popped_right + (Len(list) - SliceTo(list, 0, e)))
        /\ gone = SliceTo(list, e, Len(list)) - SliceFrom(list, e)
    BY <1>b, <2>1, <2>3, SliceBetween
  <2>5. /\ SliceFrom(list, 0) = 0 /\ SliceTo(list, 0, e) = e
        /\ SliceFrom(list, e) = e /\ SliceTo(list, e, Len(list)) = Len(list)
    BY <1>n, <2>1 DEF SliceFrom, SliceTo
  <2> HIDE DEF gone
  <2>6. popped_left + 0 = popped_left
    BY <1>n
  <2> QED BY <2>2, <2>4, <2>5, <2>6 DEF ListKept
<1>5. ASSUME NEW start \in 0..1, NEW stop \in -1..1, LTrim(start, stop) PROVE ListKept'
  <2> DEFINE e == IF stop = -1 THEN Len(list) ELSE stop + 1
             kept == PySlice(list, start, e)
             left == Min({start, Len(list)})
  <2>1. /\ list' = kept /\ popped_left' = popped_left + left
        /\ popped_right' = popped_right + Len(list) - left - Len(kept)
        /\ pushed' = pushed
    BY <1>5 DEF LTrim
  <2>2. left = SliceFrom(list, start)
    BY <1>n, TwoOrdered DEF SliceFrom
  <2>3. e \in Nat /\ start \in Nat
    BY <1>n
  <2> HIDE DEF e
  <2>4. /\ Between(kept, pushed, popped_left + SliceFrom(list, start),
                   popped_right + (Len(list) - SliceTo(list, start, e)))
        /\ Len(kept) = SliceTo(list, start, e) - SliceFrom(list, start)
    BY <1>b, <2>3, SliceBetween
  <2>5. SliceFrom(list, start) \in Nat /\ SliceTo(list, start, e) \in Nat
    BY <1>0, <2>3, SliceIs
  <2> HIDE DEF kept, left
  <2>6. popped_right + Len(list) - left - Len(kept)
          = popped_right + (Len(list) - SliceTo(list, start, e))
    BY <1>n, <2>2, <2>4, <2>5
  <2> QED BY <2>1, <2>2, <2>4, <2>6 DEF ListKept
<1>6. CASE RedisString \/ RedisTime \/ RedisHash \/ RedisSet \/ RedisZSet
  <2>1. UNCHANGED listVars
    BY <1>6 DEF RedisString, RedisTime, RedisHash, RedisSet, RedisZSet, SetString, GetString, Incr,
       DeleteString, AddMembers, IncrBy, RemoveMembers, RemoveRangeByScore
  <2> QED BY <1>0, <2>1 DEF listVars, ListKept
<1> QED BY <1>1, <1>2, <1>3, <1>4, <1>5, <1>6 DEF RedisNext, RedisList

\* No command on a string, and no passing of time, tells it from the one of Redis
\* except an INCR of an expired value, after which it counts no more than Redis.
LEMMA StringStep ==
  ASSUME RedisInv, RedisNext
  PROVE  RedisTypeOK' /\ StringKept'
<1>0. RedisTypeOK /\ StringKept
  BY DEF RedisInv
<1>1. ASSUME NEW nx \in BOOLEAN, NEW ex \in 0..1, SetString(nx, ex)
      PROVE  RedisTypeOK' /\ StringKept'
  <2> DEFINE until == IF ex = 0 THEN -1 ELSE redis_time + ex
  <2>1. /\ (nx /\ StrCheck) => str' = str /\ str_expires' = str_expires
        /\ ~(nx /\ StrCheck) => str' = 1 /\ str_expires' = until
        /\ (nx /\ expected # -1) => expected' = expected /\ deadline' = deadline
        /\ ~(nx /\ expected # -1) => expected' = 1 /\ deadline' = until
        /\ stale_incr' = (stale_incr /\ nx) /\ redis_time' = redis_time
    BY <1>1 DEF SetString
  <2>2. until = -1 \/ until = redis_time + 1
    BY <1>1
  <2> HIDE DEF until
  <2>3. RedisTypeOK'
    BY <1>0, <2>1, <2>2 DEF RedisTypeOK
  <2>4. CASE ~stale_incr
    <3>1. expected # -1 <=> StrCheck
      BY <1>0, <2>4 DEF RedisTypeOK, StringKept, StrExpired, StrCheck
    <3>2. CASE nx /\ StrCheck
      <4>1. /\ str' = str /\ str_expires' = str_expires /\ expected' = expected
            /\ deadline' = deadline /\ ~stale_incr' /\ redis_time' = redis_time
        BY <2>1, <2>4, <3>1, <3>2
      <4> QED BY <1>0, <2>3, <2>4, <4>1 DEF StringKept, StrExpired, StrCheck
    <3>3. CASE ~(nx /\ StrCheck)
      <4>1. /\ str' = 1 /\ str_expires' = until /\ expected' = 1 /\ deadline' = until
            /\ ~stale_incr' /\ redis_time' = redis_time
        BY <2>1, <2>4, <3>1, <3>3
      <4> QED BY <1>0, <2>2, <2>3, <4>1 DEF RedisTypeOK, StringKept, StrExpired, StrCheck
    <3> QED BY <3>2, <3>3
  <2>5. CASE stale_incr /\ nx
    <3>0. expected >= 1 /\ deadline = -1 /\ expected # -1
      <4>1. expected >= 1 /\ deadline = -1 /\ expected \in Nat \cup {-1}
        BY <1>0, <2>5 DEF StringKept, RedisTypeOK
      <4> QED BY <4>1
    <3>1. expected >= 1 /\ expected' = expected /\ deadline' = -1 /\ stale_incr'
      BY <2>1, <2>5, <3>0
    <3>2. CASE StrCheck
      <4>1. str' = str /\ str_expires' = str_expires /\ redis_time' = redis_time
        BY <2>1, <2>5, <3>2
      <4> QED BY <1>0, <2>3, <2>5, <3>1, <3>2, <4>1 DEF StringKept, StrExpired, StrCheck
    <3>3. CASE ~StrCheck
      <4>1. str' = 1
        BY <2>1, <2>5, <3>3
      <4> QED BY <1>0, <2>3, <3>1, <4>1 DEF StringKept
    <3> QED BY <3>2, <3>3
  <2>6. CASE ~nx
    <3>1. /\ str' = 1 /\ str_expires' = until /\ expected' = 1 /\ deadline' = until
          /\ ~stale_incr' /\ redis_time' = redis_time
      BY <2>1, <2>6
    <3> QED BY <1>0, <2>2, <2>3, <3>1 DEF RedisTypeOK, StringKept, StrExpired, StrCheck
  <2> QED BY <2>4, <2>5, <2>6
<1>2. CASE GetString
  BY <1>0, <1>2 DEF GetString, RedisTypeOK, StringKept, StrExpired, StrCheck
<1>3. CASE Incr
  <2>1. RedisTypeOK'
    BY <1>0, <1>3 DEF Incr, RedisTypeOK
  <2>2. /\ str' # -1 /\ str_expires' = str_expires /\ deadline' = deadline
        /\ redis_time' = redis_time
    BY <1>0, <1>3 DEF Incr, RedisTypeOK
  <2>3. ASSUME ~stale_incr'
        PROVE  /\ StrExpired' => expected' = -1 /\ deadline' = -1
               /\ ~StrExpired' => expected' = str' /\ deadline' = str_expires'
    <3>1. ~stale_incr /\ ~StrExpired
      BY <1>3, <2>3 DEF Incr
    <3>2. expected = str /\ deadline = str_expires
      BY <1>0, <3>1 DEF StringKept
    <3> QED BY <1>0, <1>3, <3>1, <3>2 DEF Incr, RedisTypeOK, StrExpired
  <2>4. ASSUME stale_incr'
        PROVE  /\ expected' >= 1 /\ deadline' = -1
               /\ StrCheck' => str' <= expected'
    <3>1. CASE stale_incr
      BY <1>0, <1>3, <3>1 DEF Incr, StringKept, RedisTypeOK, StrExpired, StrCheck
    <3>2. CASE ~stale_incr
      <4>1. StrExpired
        BY <1>3, <2>4, <3>2 DEF Incr
      <4>2. expected = -1 /\ deadline = -1 /\ StrExpired'
        BY <1>0, <2>2, <3>2, <4>1 DEF StringKept, StrExpired
      <4> QED BY <1>3, <2>2, <4>2 DEF Incr, StrCheck
    <3> QED BY <3>1, <3>2
  <2> QED BY <2>1, <2>2, <2>3, <2>4 DEF StringKept
<1>4. CASE DeleteString
  BY <1>0, <1>4 DEF DeleteString, RedisTypeOK, StringKept, StrExpired, StrCheck
<1>5. CASE RedisTime
  <2>1. RedisTypeOK'
    BY <1>0, <1>5 DEF RedisTime, RedisTypeOK
  <2>2. /\ str' = str /\ str_expires' = str_expires /\ stale_incr' = stale_incr
        /\ redis_time' = redis_time + 1
    BY <1>5 DEF RedisTime
  <2>3. CASE stale_incr
    <3>1. deadline = -1 /\ expected' = expected /\ deadline' = deadline
      BY <1>0, <1>5, <2>3 DEF RedisTime, StringKept
    <3>2. StrCheck' => StrCheck
      BY <1>0, <2>2 DEF StrCheck, StrExpired, RedisTypeOK
    <3> QED BY <1>0, <2>1, <2>2, <2>3, <3>1, <3>2 DEF StringKept
  <2>4. CASE ~stale_incr
    BY <1>0, <1>5, <2>1, <2>4 DEF RedisTime, RedisTypeOK, StringKept, StrExpired
  <2> QED BY <2>3, <2>4
<1>6. CASE RedisList \/ RedisHash \/ RedisSet \/ RedisZSet
  <2>1. UNCHANGED stringVars
    BY <1>6 DEF RedisList, RedisHash, RedisSet, RedisZSet, LPush, RPush, LPop, RPop, LTrim,
       AddMembers, IncrBy, RemoveMembers, RemoveRangeByScore
  <2> QED BY <1>0, <2>1 DEF RedisTypeOK, StringKept, StrExpired, StrCheck, stringVars
<1> QED BY <1>1, <1>2, <1>3, <1>4, <1>5, <1>6 DEF RedisNext, RedisString

\* A command that adds members reports those that are new, one that removes them
\* those that were there.
LEMMA MembersStep ==
  ASSUME RedisInv, RedisNext
  PROVE  MembersCounted'
<1> DEFINE D == DOMAIN scores
<1>0. /\ D \subseteq RedisMembers /\ IsFiniteSet(D)
      /\ reported = Cardinality(D) /\ Cardinality(D) \in Nat
  BY RedisAssumption, FS_Subset, FS_CardinalityType DEF RedisInv, MembersCounted
<1>1. ASSUME NEW ms \in SUBSET RedisMembers, NEW s, Scored(ms, s),
             reported' = reported + NewMembers(ms)
      PROVE  MembersCounted'
  <2>1. DOMAIN scores' = D \cup ms
    BY <1>1 DEF Scored
  <2>2. IsFiniteSet(ms \ D) /\ Cardinality(ms \ D) \in Nat
    <3>1. ms \ D \subseteq RedisMembers
      OBVIOUS
    <3> QED BY <3>1, RedisAssumption, FS_Subset, FS_CardinalityType
  <2>3. Cardinality(D \cup (ms \ D)) =
          Cardinality(D) + Cardinality(ms \ D) - Cardinality(D \cap (ms \ D))
    BY <1>0, <2>2, FS_Union
  <2>4. D \cup (ms \ D) = D \cup ms /\ D \cap (ms \ D) = {}
    OBVIOUS
  <2>5. Cardinality(D \cup ms) = Cardinality(D) + Cardinality(ms \ D)
    BY <1>0, <2>2, <2>3, <2>4, FS_EmptySet
  <2> QED BY <1>0, <1>1, <2>1, <2>5 DEF MembersCounted, NewMembers
<1>2. ASSUME NEW ms, scores' = [n \in D \ ms |-> scores[n]],
             reported' = reported - Cardinality(ms \cap D)
      PROVE  MembersCounted'
  <2>1. DOMAIN scores' = D \ ms
    BY <1>2
  <2>2. Cardinality(D \ ms) = Cardinality(D) - Cardinality(D \cap ms)
    BY <1>0, FS_Difference
  <2>3. D \cap ms = ms \cap D
    OBVIOUS
  <2> QED BY <1>0, <1>2, <2>1, <2>2, <2>3 DEF MembersCounted
<1>3. ASSUME NEW ms \in SUBSET RedisMembers, NEW s, AddMembers(ms, s) PROVE MembersCounted'
  BY <1>1, <1>3 DEF AddMembers
<1>4. ASSUME NEW m \in RedisMembers, IncrBy(m) PROVE MembersCounted'
  <2>1. {m} \in SUBSET RedisMembers
    OBVIOUS
  <2> QED BY <1>1, <1>4, <2>1 DEF IncrBy
<1>5. ASSUME NEW ms \in SUBSET RedisMembers, RemoveMembers(ms) PROVE MembersCounted'
  BY <1>2, <1>5 DEF RemoveMembers
<1>6. ASSUME NEW lo \in Scores, NEW hi \in Scores, RemoveRangeByScore(lo, hi)
      PROVE  MembersCounted'
  <2>1. InRange(lo, hi) \cap D = InRange(lo, hi)
    BY DEF InRange
  <2>2. /\ scores' = [n \in D \ InRange(lo, hi) |-> scores[n]]
        /\ reported' = reported - Cardinality(InRange(lo, hi) \cap D)
    BY <1>6, <2>1 DEF RemoveRangeByScore
  <2> QED BY <1>2, <2>2
<1>7. CASE RedisString \/ RedisTime \/ RedisList
  <2>1. UNCHANGED memberVars
    BY <1>7 DEF RedisString, RedisTime, RedisList, SetString, GetString, Incr, DeleteString,
       LPush, RPush, LPop, RPop, LTrim
  <2> QED BY <1>0, <2>1 DEF memberVars, MembersCounted
<1> HIDE DEF D
<1>8. ASSUME NEW m \in RedisMembers, NEW s, AddMembers({m}, s) PROVE MembersCounted'
  <2>1. {m} \in SUBSET RedisMembers
    OBVIOUS
  <2> QED BY <1>3, <1>8, <2>1
<1> QED BY <1>3, <1>4, <1>5, <1>6, <1>7, <1>8 DEF RedisNext, RedisHash, RedisSet, RedisZSet

\* The three together, with the steps of others.
LEMMA RedisStep ==
  ASSUME RedisInv, [RedisNext]_redisVars
  PROVE  RedisInv'
<1>1. CASE RedisNext
  BY <1>1, ListStep, StringStep, MembersStep DEF RedisInv
<1>2. CASE UNCHANGED redisVars
  <2>1. UNCHANGED <<stringVars, listVars, memberVars>>
    BY <1>2 DEF redisVars, stringVars, listVars, memberVars
  <2>2. RedisTypeOK' /\ StringKept'
    BY <2>1 DEF RedisInv, RedisTypeOK, StringKept, StrExpired, StrCheck, stringVars
  <2>3. ListKept' /\ MembersCounted'
    BY <2>1 DEF RedisInv, ListKept, MembersCounted, listVars, memberVars
  <2> QED BY <2>2, <2>3 DEF RedisInv
<1> QED BY <1>1, <1>2

\* What is kept of the list says that it is that part of all that was pushed.
LEMMA RedisInvHolds == ASSUME RedisInv PROVE AnswersAsRedis
<1>1. redis = "string" =>
        IF stale_incr THEN StrCheck => str <= expected
        ELSE expected = IF StrCheck THEN str ELSE -1
  BY DEF RedisInv, RedisTypeOK, StringKept, StrCheck, StrExpired
<1>2. list = SubSeq(pushed, popped_left + 1, Len(pushed) - popped_right)
  <2> DEFINE m == popped_left + 1
             n == Len(pushed) - popped_right
  <2>1. /\ list \in Seq(RedisMembers) /\ pushed \in Seq(RedisMembers)
        /\ popped_left \in Nat /\ popped_right \in Nat
        /\ Len(pushed) = popped_left + Len(list) + popped_right
        /\ \A i \in 1..Len(list) : list[i] = pushed[popped_left + i]
    BY DEF RedisInv, ListKept, Between
  <2>2. m \in Nat \ {0} /\ n \in Nat /\ n = m - 1 + Len(list) /\ n <= Len(pushed)
    BY <2>1
  <2>3. \A i \in 1..Len(list) : list[i] = pushed[m + i - 1]
    BY <2>1
  <2> HIDE DEF m, n
  <2>4. m \in Int /\ n \in Int /\ \A i \in m..n : pushed[i] \in RedisMembers
    BY <2>1, <2>2, ElementOfSeq
  <2>5. /\ SubSeq(pushed, m, n) \in Seq(RedisMembers)
        /\ Len(SubSeq(pushed, m, n)) = IF m <= n THEN n - m + 1 ELSE 0
        /\ \A i \in 1..n - m + 1 : SubSeq(pushed, m, n)[i] = pushed[m + i - 1]
    BY <2>4, SubSeqProperties
  <2>6. /\ Len(SubSeq(pushed, m, n)) = Len(list)
        /\ \A i \in 1..Len(list) : list[i] = SubSeq(pushed, m, n)[i]
    <3>1. Len(list) \in Nat /\ n - m + 1 = Len(list) /\ (m <= n <=> Len(list) > 0)
      BY <2>1, <2>2
    <3>2. Len(SubSeq(pushed, m, n)) = Len(list)
      BY <2>5, <3>1
    <3> QED BY <2>3, <2>5, <3>1, <3>2
  <2>7. list = SubSeq(pushed, m, n)
    BY <2>1, <2>5, <2>6, SeqEqual
  <2> QED BY <2>7 DEF m, n
<1>3. Cardinality(DOMAIN scores) = reported
  BY DEF RedisInv, MembersCounted
<1> QED BY <1>1, <1>2, <1>3 DEF AnswersAsRedis

\* Before the first request and the first command both hold.
LEMMA StructuresInit == ASSUME Init PROVE EdgeInv /\ RedisInv
<1>1. EdgeInv
  <2>1. edge_cache = <<>> /\ lru_order = <<>> /\ edge_time = 0 /\ owed = 0
    BY DEF Init, EdgeInit
  <2>2. Cached = {} /\ Len(lru_order) = 0 /\ DOMAIN lru_order = {}
    BY <2>1 DEF Cached
  <2>3. ListedByUse
    BY <2>2 DEF ListedByUse
  <2> QED BY <2>1, <2>2, <2>3, FS_EmptySet, EdgeAssumption DEF EdgeInv, EdgeKept
<1>3. RedisTypeOK /\ StringKept
  BY DEF Init, RedisInit, RedisTypeOK, StringKept, StrExpired
<1>4. ListKept
  BY DEF Init, RedisInit, ListKept, Between
<1>5. MembersCounted
  BY FS_EmptySet DEF Init, RedisInit, MembersCounted
<1> QED BY <1>1, <1>3, <1>4, <1>5 DEF RedisInv

\* Whatever requests, pushes, purges and failed evictions: the edge cache is bounded,
\* its list has every path it holds, one place more for every push that is owed a failed
\* eviction, and puts the paths in the order of their last use. Whatever commands: they
\* answer as Redis does, but that an INCR on an expired value leaves, until the next
\* plain SET or DEL, a string that counts no more than Redis.
THEOREM StructuresHold == Spec => []StructuresKept
<1> DEFINE Kept == EdgeInv /\ RedisInv
<1>1. Init => Kept
  BY StructuresInit
<1>2. Kept /\ [Next]_mcVars => Kept'
  BY OneSystemSteps, EdgeStep, RedisStep
<1>3. Kept => StructuresKept
  BY RedisInvHolds DEF EdgeInv, StructuresKept
<1> HIDE DEF Kept
<1> QED BY <1>1, <1>2, <1>3, PTL DEF Spec
-----------------------------------------------------------------------------
(* The eviction policies *)

UsesTypeOK ==
  /\ policy \in {"lru", "lfu", "fifo", "ttl"}
  /\ op \in Nat /\ op <= MaxUses
  /\ last_use \in [CacheKeys -> Nat] /\ uses \in [CacheKeys -> Nat]
  /\ inserted \in [CacheKeys -> Nat]
  /\ \A k \in CacheKeys : last_use[k] <= op /\ uses[k] <= op /\ inserted[k] <= op

\* A sequence of keys, each once, in the order of their stamps.
Sorted(l, stamp) ==
  /\ l \in Seq(CacheKeys) /\ stamp \in [CacheKeys -> Nat]
  /\ \A i, j \in 1..Len(l) : i < j => stamp[l[i]] < stamp[l[j]]

\* What the order of an OrderedDict is an order of: uses, or insertions.
Stamp == IF policy = "lru" THEN last_use ELSE inserted

OrderedKept ==
  policy \in {"lru", "fifo"} => Sorted(order, Stamp) /\ Len(order) <= capacity

\* The buckets of the LFU cache: one for each frequency, with just the keys used
\* as often, the one used the longest ago in front.
BucketsKept ==
  /\ DOMAIN freq_keys = Freqs
  /\ \A f \in Freqs :
       /\ Sorted(freq_keys[f], last_use)
       /\ ToSet(freq_keys[f]) = {k \in DOMAIN freq : freq[k] = f}
  /\ \A k \in DOMAIN freq : freq[k] \in Freqs /\ freq[k] = uses[k]

\* min_freq points to the first bucket that has a key.
MinFreqKept ==
  DOMAIN freq # {} =>
    /\ min_freq \in Freqs /\ freq_keys[min_freq] # <<>>
    /\ \A k \in DOMAIN freq : min_freq <= freq[k]

LfuKept ==
  policy = "lfu" =>
    /\ DOMAIN freq \subseteq CacheKeys /\ IsFiniteSet(DOMAIN freq)
    /\ Cardinality(DOMAIN freq) <= capacity
    /\ BucketsKept /\ MinFreqKept

TtlKept ==
  policy = "ttl" => IsFiniteSet(DOMAIN expires_at) /\ Cardinality(DOMAIN expires_at) <= capacity

EvictInv == UsesTypeOK /\ OrderedKept /\ LfuKept /\ TtlKept

\* What is in a sequence is at one of its places.
LEMMA InSequence ==
  ASSUME NEW S, NEW l \in Seq(S)
  PROVE  \A x : x \in ToSet(l) <=> \E i \in 1..Len(l) : l[i] = x
BY DEF ToSet

\* What is removed leaves the rest sorted.
LEMMA RemovedSorted ==
  ASSUME NEW l, NEW stamp, NEW e, Sorted(l, stamp), e \in ToSet(l)
  PROVE  /\ Sorted(RemoveFirst(l, e), stamp)
         /\ ToSet(RemoveFirst(l, e)) = ToSet(l) \ {e}
         /\ Len(RemoveFirst(l, e)) = Len(l) - 1
<1> DEFINE rest == RemoveFirst(l, e)
<1>1. /\ l \in Seq(CacheKeys) /\ Len(l) \in Nat /\ stamp \in [CacheKeys -> Nat]
      /\ \A i, j \in 1..Len(l) : i < j => stamp[l[i]] < stamp[l[j]]
  BY DEF Sorted
<1>2. Contains(l, e)
  BY <1>1 DEF Contains, ToSet
<1>3. PICK n \in 1..Len(l) :
        /\ l[n] = e
        /\ rest \in Seq(CacheKeys) /\ Len(rest) = Len(l) - 1
        /\ \A i \in 1..Len(l) - 1 : rest[i] = IF i <= n - 1 THEN l[i] ELSE l[i + 1]
  BY <1>1, <1>2, TakenOut
<1>4. ToSet(l) \ {e} \subseteq ToSet(rest)
  BY <1>1, OthersStay
<1> HIDE DEF rest
<1>5. ASSUME NEW i \in 1..Len(rest)
      PROVE  \E m \in 1..Len(l) : m # n /\ rest[i] = l[m] /\ m = IF i <= n - 1 THEN i ELSE i + 1
  <2> DEFINE m == IF i <= n - 1 THEN i ELSE i + 1
  <2>1. m \in 1..Len(l) /\ m # n
    BY <1>1, <1>3
  <2>2. rest[i] = l[m]
    BY <1>1, <1>3
  <2> QED BY <2>1, <2>2
<1>6. ASSUME NEW i \in 1..Len(rest), NEW j \in 1..Len(rest), i < j
      PROVE  stamp[rest[i]] < stamp[rest[j]]
  <2>1. PICK m \in 1..Len(l) : rest[i] = l[m] /\ m = IF i <= n - 1 THEN i ELSE i + 1
    BY <1>5
  <2>2. PICK o \in 1..Len(l) : rest[j] = l[o] /\ o = IF j <= n - 1 THEN j ELSE j + 1
    BY <1>5
  <2>3. m < o
    <3>1. i \in Int /\ j \in Int /\ n \in Int /\ m \in Int /\ o \in Int
      BY <1>1, <1>3
    <3> QED BY <1>6, <2>1, <2>2, <3>1
  <2>4. stamp[l[m]] < stamp[l[o]]
    BY <1>1, <2>3
  <2> QED BY <2>1, <2>2, <2>4
<1>7. ASSUME NEW m \in 1..Len(l), m # n PROVE l[m] # e
  <2>1. m < n \/ n < m
    BY <1>1, <1>7
  <2>2. stamp[l[m]] < stamp[l[n]] \/ stamp[l[n]] < stamp[l[m]]
    BY <1>1, <2>1
  <2>3. stamp[e] \in Nat
    BY <1>1, <1>3, ElementOfSeq
  <2> QED BY <1>3, <2>2, <2>3
<1>8. ToSet(rest) = ToSet(l) \ {e}
  <2>1. ASSUME NEW i \in 1..Len(rest) PROVE rest[i] \in ToSet(l) \ {e}
    <3>1. PICK m \in 1..Len(l) : m # n /\ rest[i] = l[m]
      BY <1>5
    <3>2. l[m] # e /\ l[m] \in ToSet(l)
      BY <1>1, <1>7, <3>1, InSequence
    <3> QED BY <3>1, <3>2
  <2>2. ToSet(rest) \subseteq ToSet(l) \ {e}
    BY <1>3, <2>1, InSequence
  <2> QED BY <1>4, <2>2
<1>9. Sorted(rest, stamp)
  BY <1>1, <1>3, <1>6 DEF Sorted
<1> QED BY <1>3, <1>8, <1>9 DEF rest

\* Only the stamps of its own keys matter to a sequence.
LEMMA SortedAlike ==
  ASSUME NEW l, NEW stamp, NEW other \in [CacheKeys -> Nat], Sorted(l, stamp),
         \A k \in ToSet(l) : other[k] = stamp[k]
  PROVE  Sorted(l, other)
<1>1. l \in Seq(CacheKeys)
  BY DEF Sorted
<1>2. \A i \in 1..Len(l) : other[l[i]] = stamp[l[i]]
  BY <1>1 DEF ToSet
<1> QED BY <1>1, <1>2 DEF Sorted

\* The key with the newest stamp goes to the end.
LEMMA AppendedSorted ==
  ASSUME NEW l, NEW stamp, NEW k \in CacheKeys, Sorted(l, stamp),
         \A j \in ToSet(l) : stamp[j] < stamp[k]
  PROVE  /\ Sorted(Append(l, k), stamp)
         /\ ToSet(Append(l, k)) = ToSet(l) \cup {k}
         /\ Len(Append(l, k)) = Len(l) + 1
<1> DEFINE longer == Append(l, k)
<1>1. /\ l \in Seq(CacheKeys) /\ Len(l) \in Nat /\ stamp \in [CacheKeys -> Nat]
      /\ \A i, j \in 1..Len(l) : i < j => stamp[l[i]] < stamp[l[j]]
      /\ \A i \in 1..Len(l) : stamp[l[i]] < stamp[k]
  <2>1. l \in Seq(CacheKeys)
    BY DEF Sorted
  <2>2. \A i \in 1..Len(l) : l[i] \in ToSet(l)
    BY <2>1, InSequence
  <2>3. Len(l) \in Nat
    BY <2>1
  <2> QED BY <2>1, <2>2, <2>3 DEF Sorted
<1>2. /\ longer \in Seq(CacheKeys) /\ Len(longer) = Len(l) + 1
      /\ \A i \in 1..Len(l) : longer[i] = l[i]
      /\ longer[Len(l) + 1] = k
  BY <1>1
<1> HIDE DEF longer
<1>3. ASSUME NEW i \in 1..Len(longer), NEW j \in 1..Len(longer), i < j
      PROVE  stamp[longer[i]] < stamp[longer[j]]
  <2>1. i \in 1..Len(l) /\ longer[i] = l[i]
    BY <1>1, <1>2, <1>3
  <2>2. CASE j \in 1..Len(l)
    <3>1. longer[j] = l[j]
      BY <1>2, <2>2
    <3>2. stamp[l[i]] < stamp[l[j]]
      BY <1>1, <1>3, <2>1, <2>2
    <3> QED BY <2>1, <3>1, <3>2
  <2>3. CASE j = Len(l) + 1
    BY <1>1, <1>2, <2>1, <2>3
  <2> QED BY <1>1, <1>2, <2>2, <2>3
<1>4. ToSet(longer) = ToSet(l) \cup {k}
  <2>1. ToSet(longer) \subseteq ToSet(l) \cup {k}
    <3>1. ASSUME NEW i \in 1..Len(longer) PROVE longer[i] \in ToSet(l) \cup {k}
      <4>1. i \in 1..Len(l) \/ i = Len(l) + 1
        BY <1>1, <1>2
      <4> QED BY <1>1, <1>2, <4>1 DEF ToSet
    <3> QED BY <1>2, <3>1 DEF ToSet
  <2>2. ToSet(l) \cup {k} \subseteq ToSet(longer)
    <3>1. \A i \in 1..Len(l) + 1 : longer[i] \in ToSet(longer)
      BY <1>2 DEF ToSet
    <3>2. Len(l) + 1 \in 1..Len(l) + 1 /\ \A i \in 1..Len(l) : i \in 1..Len(l) + 1
      BY <1>1
    <3>3. k \in ToSet(longer) /\ \A i \in 1..Len(l) : l[i] \in ToSet(longer)
      BY <1>2, <3>1, <3>2
    <3> QED BY <1>1, <3>3 DEF ToSet
  <2> QED BY <2>1, <2>2
<1>5. Sorted(longer, stamp)
  BY <1>1, <1>2, <1>3 DEF Sorted
<1> QED BY <1>2, <1>4, <1>5 DEF longer

\* The first key has the oldest stamp, and the others stay sorted without it.
LEMMA FirstIsOldest ==
  ASSUME NEW l, NEW stamp, Sorted(l, stamp), l # <<>>
  PROVE  /\ Sorted(Tail(l), stamp)
         /\ Head(l) \in ToSet(l) /\ ToSet(Tail(l)) = ToSet(l) \ {Head(l)}
         /\ Len(Tail(l)) = Len(l) - 1
         /\ \A k \in ToSet(l) \ {Head(l)} : stamp[Head(l)] < stamp[k]
<1> DEFINE rest == Tail(l)
           first == Head(l)
<1>1. /\ l \in Seq(CacheKeys) /\ Len(l) \in Nat \ {0} /\ stamp \in [CacheKeys -> Nat]
      /\ \A i, j \in 1..Len(l) : i < j => stamp[l[i]] < stamp[l[j]]
  BY EmptySeq DEF Sorted
<1>2. /\ rest \in Seq(CacheKeys) /\ Len(rest) = Len(l) - 1
      /\ \A i \in 1..Len(rest) : rest[i] = l[i + 1]
      /\ first = l[1]
  BY <1>1, HeadTailProperties
<1> HIDE DEF rest, first
<1>3. ASSUME NEW i \in 1..Len(rest), NEW j \in 1..Len(rest), i < j
      PROVE  stamp[rest[i]] < stamp[rest[j]]
  <2>1. i + 1 \in 1..Len(l) /\ j + 1 \in 1..Len(l) /\ i + 1 < j + 1
    BY <1>1, <1>2, <1>3
  <2>2. stamp[l[i + 1]] < stamp[l[j + 1]]
    BY <1>1, <2>1
  <2> QED BY <1>2, <2>2
<1>4. ASSUME NEW i \in 1..Len(l), i # 1 PROVE stamp[first] < stamp[l[i]]
  <2>1. 1 \in 1..Len(l) /\ 1 < i
    BY <1>1, <1>4
  <2> QED BY <1>1, <1>2, <2>1
<1>5. stamp[first] \in Nat /\ first \in ToSet(l)
  <2>1. 1 \in 1..Len(l)
    BY <1>1
  <2>2. first \in CacheKeys
    BY <1>1, <1>2, <2>1, ElementOfSeq
  <2> QED BY <1>1, <1>2, <2>1, <2>2, InSequence
<1>6. \A k \in ToSet(l) \ {first} : stamp[first] < stamp[k]
  <2> TAKE k \in ToSet(l) \ {first}
  <2>1. DOMAIN l = 1..Len(l)
    BY <1>1
  <2>2. PICK i \in 1..Len(l) : l[i] = k
    BY <2>1 DEF ToSet
  <2>3. i # 1
    BY <1>2, <2>2
  <2> QED BY <1>4, <2>2, <2>3
<1>7. ToSet(rest) = ToSet(l) \ {first}
  <2>1. ASSUME NEW i \in 1..Len(rest) PROVE rest[i] \in ToSet(l) \ {first}
    <3>1. i + 1 \in 1..Len(l) /\ i + 1 # 1
      BY <1>1, <1>2
    <3>2. stamp[first] < stamp[l[i + 1]]
      BY <1>4, <3>1
    <3>3. l[i + 1] # first
      BY <1>5, <3>2
    <3>4. l[i + 1] \in ToSet(l) /\ rest[i] = l[i + 1]
      BY <1>1, <1>2, <3>1, InSequence
    <3> QED BY <3>3, <3>4
  <2>2. ASSUME NEW i \in 1..Len(l), l[i] # first PROVE l[i] \in ToSet(rest)
    <3> DEFINE j == i - 1
    <3>1. j \in 1..Len(rest) /\ j + 1 = i
      BY <1>1, <1>2, <2>2
    <3> HIDE DEF j
    <3>2. rest[j] = l[i]
      BY <1>2, <3>1
    <3> QED BY <1>2, <3>1, <3>2 DEF ToSet
  <2>3. ToSet(rest) \subseteq ToSet(l) \ {first}
    BY <1>2, <2>1, InSequence
  <2>4. ToSet(l) \ {first} \subseteq ToSet(rest)
    BY <1>1, <2>2, InSequence
  <2> QED BY <2>3, <2>4
<1>8. Sorted(rest, stamp)
  BY <1>1, <1>2, <1>3 DEF Sorted
<1> QED BY <1>2, <1>5, <1>6, <1>7, <1>8 DEF rest, first

\* Each key is there once, so there are as many as places.
LEMMA SortedCounts ==
  ASSUME NEW l, NEW stamp, Sorted(l, stamp)
  PROVE  IsFiniteSet(ToSet(l)) /\ Cardinality(ToSet(l)) = Len(l)
<1>1. /\ l \in Seq(CacheKeys) /\ Len(l) \in Nat /\ stamp \in [CacheKeys -> Nat]
      /\ \A i, j \in 1..Len(l) : i < j => stamp[l[i]] < stamp[l[j]]
  BY DEF Sorted
<1> DEFINE D == 1..Len(l)
           T == ToSet(l)
<1>2. l \in [D -> T] /\ \A t \in T : \E i \in D : l[i] = t
  BY <1>1 DEF ToSet
<1>3. ASSUME NEW i \in D, NEW j \in D, l[i] = l[j] PROVE i = j
  <2>1. stamp[l[i]] \in Nat
    BY <1>1, ElementOfSeq
  <2>2. ~(i < j) /\ ~(j < i)
    BY <1>1, <1>3, <2>1
  <2> QED BY <1>1, <2>2
<1>4. l \in Bijection(D, T)
  <2>1. l \in Injection(D, T)
    BY <1>2, <1>3 DEF Injection, IsInjective
  <2>2. l \in Surjection(D, T)
    BY <1>2 DEF Surjection
  <2> QED BY <2>1, <2>2 DEF Bijection
<1>5. IsFiniteSet(D) /\ Cardinality(D) = Len(l)
  BY <1>1, FS_Interval
<1> HIDE DEF D, T
<1>6. ExistsBijection(D, T)
  BY <1>4 DEF ExistsBijection
<1>7. IsFiniteSet(T) /\ Cardinality(T) = Len(l)
  BY <1>5, <1>6, FS_Bijection
<1> QED BY <1>7 DEF T

\* A step evicts as EvictsByPolicy has it.
Evicts ==
  /\ Cardinality(Held') <= capacity
  /\ \A v \in Held \ Held' :
       \/ Cardinality(Held) = capacity /\ Rightful(v) /\ Held' \ Held # {}
       \/ policy = "ttl" /\ IsExpired2(v)

\* The newest stamp is the one of the key that was used.
LEMMA UsedStamps ==
  ASSUME UsesTypeOK, NEW k \in CacheKeys, Used(k)
  PROVE  /\ op' \in Nat /\ op' <= MaxUses /\ op' = op + 1
         /\ last_use' \in [CacheKeys -> Nat] /\ uses' \in [CacheKeys -> Nat]
         /\ inserted' \in [CacheKeys -> Nat]
         /\ \A j \in CacheKeys : last_use'[j] <= op' /\ uses'[j] <= op' /\ inserted'[j] <= op'
         /\ \A j \in CacheKeys : last_use'[j] = IF j = k THEN op' ELSE last_use[j]
         /\ uses'[k] = IF k \in Held THEN uses[k] + 1 ELSE 1
         /\ \A j \in CacheKeys : j # k => uses'[j] = uses[j]
         /\ \A j \in CacheKeys : inserted'[j] = IF j = k /\ k \notin Held THEN op' ELSE inserted[j]
         /\ \A j \in CacheKeys : last_use[j] < op' /\ inserted[j] < op'
<1>1. /\ op \in Nat /\ op' = op + 1 /\ op < MaxUses /\ MaxUses \in Nat
      /\ last_use' = [last_use EXCEPT ![k] = op']
      /\ uses' = [uses EXCEPT ![k] = IF k \in Held THEN @ + 1 ELSE 1]
      /\ inserted' = [inserted EXCEPT ![k] = IF k \in Held THEN @ ELSE op']
  BY EvictionAssumption DEF UsesTypeOK, Used
<1> DEFINE held == k \in Held
<1>2. /\ inserted' = [inserted EXCEPT ![k] = IF held THEN @ ELSE op']
      /\ uses' = [uses EXCEPT ![k] = IF held THEN @ + 1 ELSE 1]
  BY <1>1
<1> HIDE DEF held
<1>3. /\ op' \in Nat /\ op' <= MaxUses
      /\ last_use' \in [CacheKeys -> Nat] /\ uses' \in [CacheKeys -> Nat]
      /\ inserted' \in [CacheKeys -> Nat]
      /\ \A j \in CacheKeys : last_use'[j] = IF j = k THEN op' ELSE last_use[j]
      /\ uses'[k] = IF held THEN uses[k] + 1 ELSE 1
      /\ \A j \in CacheKeys : j # k => uses'[j] = uses[j]
      /\ \A j \in CacheKeys : inserted'[j] = IF j = k /\ ~held THEN op' ELSE inserted[j]
  BY <1>1, <1>2 DEF UsesTypeOK
<1>4. \A j \in CacheKeys : last_use[j] < op' /\ inserted[j] < op' /\ uses[j] < op'
  BY <1>1 DEF UsesTypeOK
<1>5. \A j \in CacheKeys : last_use'[j] <= op' /\ uses'[j] <= op' /\ inserted'[j] <= op'
  BY <1>1, <1>3, <1>4 DEF UsesTypeOK
<1> QED BY <1>1, <1>3, <1>4, <1>5 DEF held

\* A hit moves the key to the end of LRU and leaves FIFO alone; a new key goes to
\* the end, and the first of a full cache goes.
LEMMA OrderedStep ==
  ASSUME EvictInv, policy \in {"lru", "fifo"}, NEW k \in CacheKeys,
         OrderedGet(k) \/ OrderedPut(k)
  PROVE  OrderedKept' /\ Evicts
<1> DEFINE stamp == Stamp
           after == Stamp'
<1>1. /\ Sorted(order, stamp) /\ Len(order) <= capacity
      /\ Held = ToSet(order) /\ Held' = ToSet(order') /\ policy' = policy
  BY DEF EvictInv, OrderedKept, OrderedGet, OrderedPut, Held
<1>2. capacity \in Nat \ {0} /\ order \in Seq(CacheKeys) /\ Len(order) \in Nat
  BY <1>1, EvictionAssumption DEF Sorted
<1>3. /\ UsesTypeOK /\ Used(k)
  BY DEF EvictInv, OrderedGet, OrderedPut
<1>4. /\ stamp \in [CacheKeys -> Nat] /\ after \in [CacheKeys -> Nat]
      /\ \A j \in CacheKeys : j # k => after[j] = stamp[j]
      /\ \A j \in CacheKeys : stamp[j] < op'
      /\ policy = "lru" \/ k \notin Held => after[k] = op'
      /\ policy = "fifo" /\ k \in Held => after[k] = stamp[k]
  BY <1>1, <1>3, UsedStamps DEF Stamp, UsesTypeOK
<1>5. ToSet(order) \subseteq CacheKeys
  BY <1>2, InSequence, ElementOfSeq
<1> HIDE DEF stamp, after
<1>6. CASE k \in Held /\ policy = "lru"
  <2> DEFINE rest == RemoveFirst(order, k)
  <2>1. order' = Append(rest, k)
    BY <1>6 DEF OrderedGet, OrderedPut, ToEnd
  <2>2. /\ Sorted(rest, stamp) /\ ToSet(rest) = ToSet(order) \ {k}
        /\ Len(rest) = Len(order) - 1
    BY <1>1, <1>6, RemovedSorted
  <2> HIDE DEF rest
  <2>3. Sorted(rest, after)
    BY <1>4, <1>5, <2>2, SortedAlike
  <2>4. \A j \in ToSet(rest) : after[j] < after[k]
    BY <1>4, <1>5, <1>6, <2>2
  <2>5. /\ Sorted(order', after) /\ ToSet(order') = ToSet(rest) \cup {k}
        /\ Len(order') = Len(rest) + 1
    BY <2>1, <2>3, <2>4, AppendedSorted
  <2>6. Held' = Held /\ Len(order') <= capacity
    BY <1>1, <1>2, <1>6, <2>2, <2>5
  <2>7. Cardinality(Held) <= capacity
    BY <1>1, SortedCounts
  <2> QED BY <1>1, <2>5, <2>6, <2>7 DEF OrderedKept, Evicts, after
<1>7. CASE k \in Held /\ policy = "fifo"
  <2>1. order' = order
    BY <1>7 DEF OrderedGet, OrderedPut
  <2>2. \A j \in ToSet(order) : after[j] = stamp[j]
    BY <1>4, <1>5, <1>7
  <2>3. Sorted(order', after)
    BY <1>1, <1>4, <2>1, <2>2, SortedAlike
  <2>4. Cardinality(Held) <= capacity
    BY <1>1, SortedCounts
  <2> QED BY <1>1, <2>1, <2>3, <2>4 DEF OrderedKept, Evicts, after
<1>8. CASE k \notin Held
  <2> DEFINE full == Len(order) >= capacity
             kept == IF full THEN Tail(order) ELSE order
  <2>1. order' = Append(kept, k)
    BY <1>8 DEF OrderedGet, OrderedPut
  <2>2. /\ Sorted(kept, stamp)
        /\ ToSet(kept) = IF full THEN ToSet(order) \ {Head(order)} ELSE ToSet(order)
        /\ Len(kept) < capacity /\ Len(kept) \in Nat
    <3>1. CASE full
      <4>1. order # <<>>
        BY <1>2, <3>1
      <4>2. /\ Sorted(Tail(order), stamp)
            /\ ToSet(Tail(order)) = ToSet(order) \ {Head(order)}
            /\ Len(Tail(order)) = Len(order) - 1
        BY <1>1, <4>1, FirstIsOldest
      <4>3. Len(order) = capacity /\ Len(order) - 1 < capacity /\ Len(order) - 1 \in Nat
        BY <1>1, <1>2, <3>1
      <4> QED BY <3>1, <4>2, <4>3
    <3>2. CASE ~full
      BY <1>1, <1>2, <3>2
    <3> QED BY <3>1, <3>2
  <2> HIDE DEF kept
  <2>3. k \notin ToSet(kept) /\ ToSet(kept) \subseteq CacheKeys
    BY <1>1, <1>5, <1>8, <2>2
  <2>4. Sorted(kept, after)
    BY <1>4, <2>2, <2>3, SortedAlike
  <2>5. \A j \in ToSet(kept) : after[j] < after[k]
    BY <1>4, <1>8, <2>3
  <2>6. /\ Sorted(order', after) /\ ToSet(order') = ToSet(kept) \cup {k}
        /\ Len(order') = Len(kept) + 1
    BY <2>1, <2>4, <2>5, AppendedSorted
  <2>7. Len(order') <= capacity
    BY <1>2, <2>2, <2>6
  <2>8. Cardinality(Held') <= capacity
    BY <1>1, <2>6, <2>7, SortedCounts
  <2>9. ASSUME NEW v \in Held \ Held'
        PROVE  Cardinality(Held) = capacity /\ Rightful(v) /\ Held' \ Held # {}
    <3>1. full /\ v = Head(order) /\ order # <<>>
      BY <1>1, <1>2, <2>2, <2>6, <2>9
    <3>2. Cardinality(Held) = capacity
      BY <1>1, <1>2, <3>1, SortedCounts
    <3>3. \A j \in Held \ {v} : stamp[v] < stamp[j]
      BY <1>1, <3>1, FirstIsOldest
    <3>4. Rightful(v)
      BY <3>3 DEF Rightful, stamp, Stamp
    <3>5. k \in Held' \ Held
      BY <1>1, <1>8, <2>6
    <3> QED BY <3>2, <3>4, <3>5
  <2> QED BY <1>1, <2>6, <2>7, <2>8, <2>9 DEF OrderedKept, Evicts, after
<1> QED BY <1>6, <1>7, <1>8

\* The TTL cache gives up what has expired, or what expires first.
LEMMA TtlStep ==
  ASSUME EvictInv, policy = "ttl", TTLCache \/ CacheTime
  PROVE  TtlKept' /\ Evicts
<1>1. /\ Held = DOMAIN expires_at /\ Held' = DOMAIN expires_at' /\ policy' = policy
      /\ IsFiniteSet(Held) /\ Cardinality(Held) <= capacity
      /\ capacity \in Nat \ {0} /\ Cardinality(Held) \in Nat
  BY EvictionAssumption, FS_CardinalityType
     DEF EvictInv, TtlKept, TTLCache, CacheTime, TtlGet, TtlPut, Sweep, Held
<1>2. SUFFICES /\ IsFiniteSet(Held') /\ Cardinality(Held') <= capacity
               /\ \A v \in Held \ Held' :
                    \/ Cardinality(Held) = capacity /\ Rightful(v) /\ Held' \ Held # {}
                    \/ IsExpired2(v)
  BY <1>1 DEF TtlKept, Evicts
<1>3. ASSUME Held' \subseteq Held, \A v \in Held \ Held' : IsExpired2(v)
      PROVE  /\ IsFiniteSet(Held') /\ Cardinality(Held') <= capacity
             /\ \A v \in Held \ Held' : IsExpired2(v)
  <2>1. IsFiniteSet(Held') /\ Cardinality(Held') <= Cardinality(Held)
    BY <1>1, <1>3, FS_Subset
  <2> QED BY <1>1, <1>3, <2>1, FS_CardinalityType
<1>4. ASSUME NEW k \in CacheKeys, TtlGet(k)
      PROVE  Held' \subseteq Held /\ \A v \in Held \ Held' : IsExpired2(v)
  BY <1>1, <1>4 DEF TtlGet, Without
<1>5. CASE Sweep
  <2>1. Held' = {j \in Held : ~IsExpired2(j)}
    BY <1>1, <1>5 DEF Sweep
  <2> QED BY <1>3, <2>1
<1>6. CASE CacheTime
  BY <1>1, <1>3, <1>6 DEF CacheTime
<1>7. ASSUME NEW k \in CacheKeys, NEW ttl \in Ttls, TtlPut(k, ttl)
      PROVE  /\ IsFiniteSet(Held') /\ Cardinality(Held') <= capacity
             /\ \A v \in Held \ Held' :
                  Cardinality(Held) = capacity /\ Rightful(v) /\ Held' \ Held # {}
  <2> DEFINE H == Held
             full == Cardinality(H) >= capacity /\ k \notin H
  <2>1. CASE full
    <3>1. PICK v \in Soonest : expires_at' = With(Without(expires_at, v), k, now + ttl)
      BY <1>7, <2>1 DEF TtlPut
    <3>2. v \in H /\ \A j \in H : expires_at[v] <= expires_at[j]
      BY <3>1 DEF Soonest
    <3>3. Held' = (H \ {v}) \cup {k}
      BY <1>1, <3>1 DEF With, Without
    <3>4. Rightful(v)
      BY <3>2 DEF Rightful
    <3> HIDE DEF H
    <3>5. IsFiniteSet(H) /\ Cardinality(H) = capacity
      BY <1>1, <2>1 DEF H
    <3>6. IsFiniteSet(H \ {v}) /\ Cardinality(H \ {v}) = capacity - 1 /\ k \notin H \ {v}
      BY <2>1, <3>2, <3>5, FS_RemoveElement
    <3>7. /\ IsFiniteSet((H \ {v}) \cup {k})
          /\ Cardinality((H \ {v}) \cup {k}) = capacity - 1 + 1
      BY <3>6, FS_AddElement
    <3>8. capacity - 1 + 1 = capacity
      BY <1>1
    <3>9. \A w \in H \ Held' : w = v
      BY <3>3
    <3>10. k \in Held' \ H
      BY <2>1, <3>3
    <3> QED BY <1>1, <3>3, <3>4, <3>5, <3>7, <3>8, <3>9, <3>10 DEF H
  <2>2. CASE ~full
    <3>1. Held' = H \cup {k}
      BY <1>1, <1>7, <2>2 DEF TtlPut, With
    <3> HIDE DEF H
    <3>2. IsFiniteSet(H) /\ Cardinality(H) <= capacity /\ Cardinality(H) \in Nat
      BY <1>1 DEF H
    <3>3. /\ IsFiniteSet(H \cup {k})
          /\ Cardinality(H \cup {k}) = IF k \in H THEN Cardinality(H) ELSE Cardinality(H) + 1
      BY <3>2, FS_AddElement
    <3>4. Cardinality(H \cup {k}) <= capacity
      BY <1>1, <2>2, <3>2, <3>3
    <3> QED BY <3>1, <3>3, <3>4 DEF H
  <2> QED BY <2>1, <2>2
<1> QED BY <1>3, <1>4, <1>5, <1>6, <1>7 DEF TTLCache

\* A hit moves the key to the end of the next bucket, and min_freq with it when it
\* leaves the first one empty.
LEMMA LfuHitStep ==
  ASSUME EvictInv, NEW k \in CacheKeys, LfuHit(k)
  PROVE  LfuKept' /\ Evicts
<1> DEFINE D == DOMAIN freq
           f == freq[k]
           rest == RemoveFirst(freq_keys[f], k)
<1>1. /\ UsesTypeOK /\ Used(k) /\ Held = D /\ k \in D /\ policy = "lfu" /\ policy' = policy
      /\ D \subseteq CacheKeys /\ IsFiniteSet(D) /\ Cardinality(D) <= capacity
      /\ BucketsKept /\ MinFreqKept
  BY DEF EvictInv, LfuKept, LfuHit, Held
<1>2. f \in Freqs /\ f + 1 \in Freqs /\ f \in Nat /\ f # f + 1
  BY <1>1, EvictionAssumption DEF BucketsKept, UsesTypeOK, Used, Freqs
<1>3. /\ freq_keys' = [freq_keys EXCEPT ![f] = rest, ![f + 1] = Append(@, k)]
      /\ min_freq' = IF rest = <<>> /\ f = min_freq THEN min_freq + 1 ELSE min_freq
      /\ freq' = [freq EXCEPT ![k] = f + 1]
  BY DEF LfuHit, IncrementFreq
<1>4. /\ DOMAIN freq_keys = Freqs
      /\ \A g \in Freqs :
           Sorted(freq_keys[g], last_use) /\ ToSet(freq_keys[g]) = {j \in D : freq[j] = g}
  BY <1>1 DEF BucketsKept
<1>5. /\ Sorted(rest, last_use) /\ ToSet(rest) = {j \in D : freq[j] = f} \ {k}
  BY <1>1, <1>2, <1>4, RemovedSorted
<1> HIDE DEF f, rest
<1>6. /\ DOMAIN freq_keys' = Freqs
      /\ freq_keys'[f] = rest /\ freq_keys'[f + 1] = Append(freq_keys[f + 1], k)
      /\ \A g \in Freqs : g # f /\ g # f + 1 => freq_keys'[g] = freq_keys[g]
  BY <1>2, <1>3, <1>4
<1>7. /\ DOMAIN freq' = D /\ freq'[k] = f + 1 /\ \A j \in D : j # k => freq'[j] = freq[j]
  BY <1>1, <1>3
<1>8. /\ last_use' \in [CacheKeys -> Nat] /\ last_use'[k] = op'
      /\ \A j \in CacheKeys : j # k => last_use'[j] = last_use[j]
      /\ \A j \in CacheKeys : last_use[j] < op'
      /\ uses'[k] = uses[k] + 1 /\ \A j \in CacheKeys : j # k => uses'[j] = uses[j]
  BY <1>1, UsedStamps
<1>9. freq[k] = f
  BY DEF f
<1> HIDE DEF D
<1>10. ASSUME NEW g \in Freqs
       PROVE  /\ Sorted(freq_keys'[g], last_use')
              /\ ToSet(freq_keys'[g]) = {j \in DOMAIN freq' : freq'[j] = g}
  <2>1. CASE g = f
    <3>1. Sorted(rest, last_use')
      BY <1>1, <1>5, <1>8, SortedAlike
    <3>2. {j \in D : freq[j] = f} \ {k} = {j \in D : freq'[j] = f}
      BY <1>1, <1>2, <1>7
    <3> QED BY <1>5, <1>6, <1>7, <2>1, <3>1, <3>2
  <2>2. CASE g = f + 1
    <3> DEFINE l == freq_keys[g]
    <3>1. Sorted(l, last_use) /\ ToSet(l) = {j \in D : freq[j] = g}
      BY <1>4
    <3>2. k \notin ToSet(l) /\ ToSet(l) \subseteq CacheKeys
      BY <1>1, <1>2, <1>9, <2>2, <3>1
    <3> HIDE DEF l
    <3>3. Sorted(l, last_use')
      BY <1>8, <3>1, <3>2, SortedAlike
    <3>4. \A j \in ToSet(l) : last_use'[j] < last_use'[k]
      BY <1>8, <3>2
    <3>5. Sorted(Append(l, k), last_use') /\ ToSet(Append(l, k)) = ToSet(l) \cup {k}
      BY <3>3, <3>4, AppendedSorted
    <3>6. {j \in D : freq'[j] = g} = {j \in D : freq[j] = g} \cup {k}
      BY <1>1, <1>7, <2>2
    <3>7. freq_keys'[g] = Append(l, k)
      BY <1>6, <2>2 DEF l
    <3> QED BY <1>7, <3>1, <3>5, <3>6, <3>7
  <2>3. CASE g # f /\ g # f + 1
    <3>1. freq_keys'[g] = freq_keys[g]
      BY <1>6, <2>3
    <3>2. {j \in D : freq'[j] = g} = {j \in D : freq[j] = g}
      BY <1>1, <1>7, <1>9, <2>3
    <3>3. \A j \in ToSet(freq_keys[g]) : last_use'[j] = last_use[j]
      BY <1>1, <1>4, <1>8, <1>9, <2>3
    <3>4. Sorted(freq_keys[g], last_use')
      BY <1>4, <1>8, <3>3, SortedAlike
    <3> QED BY <1>4, <1>7, <3>1, <3>2, <3>4
  <2> QED BY <2>1, <2>2, <2>3
<1>11. \A j \in DOMAIN freq' : freq'[j] \in Freqs /\ freq'[j] = uses'[j]
  BY <1>1, <1>2, <1>7, <1>8, <1>9 DEF BucketsKept, D
<1>12. MinFreqKept'
  <2>1. /\ min_freq \in Freqs /\ freq_keys[min_freq] # <<>>
        /\ \A j \in D : min_freq <= freq[j] /\ freq[j] \in Freqs
        /\ Freqs \subseteq Nat
    BY <1>1 DEF MinFreqKept, BucketsKept, D, Freqs
  <2>2. freq_keys'[f + 1] # <<>>
    <3>1. k \in ToSet(freq_keys'[f + 1])
      BY <1>1, <1>2, <1>7, <1>10
    <3> QED BY <3>1 DEF ToSet
  <2>3. CASE rest = <<>> /\ f = min_freq
    <3>1. min_freq' = f + 1
      BY <1>3, <2>3
    <3>2. ToSet(rest) = {}
      BY <2>3 DEF ToSet
    <3>3. \A j \in D : j # k => freq[j] # f
      BY <1>5, <3>2
    <3>4. \A j \in D : f + 1 <= freq'[j]
      BY <1>2, <1>7, <2>1, <2>3, <3>3
    <3> QED BY <1>2, <1>7, <2>2, <3>1, <3>4 DEF MinFreqKept
  <2>4. CASE ~(rest = <<>> /\ f = min_freq)
    <3>1. min_freq' = min_freq
      BY <1>3, <2>4
    <3>2. min_freq <= f
      BY <1>1, <1>9, <2>1
    <3>3. min_freq # f + 1
      BY <1>2, <2>1, <3>2
    <3>4. freq_keys'[min_freq] # <<>>
      BY <1>6, <2>1, <2>4, <3>3
    <3>5. \A j \in D : min_freq <= freq'[j]
      BY <1>2, <1>7, <2>1, <3>2
    <3> QED BY <1>7, <2>1, <3>1, <3>4, <3>5 DEF MinFreqKept
  <2> QED BY <2>3, <2>4
<1>13. Held' = Held
  BY <1>1, <1>7 DEF Held
<1> QED BY <1>1, <1>6, <1>7, <1>10, <1>11, <1>12, <1>13 DEF LfuKept, BucketsKept, Evicts

\* A new key goes to the first bucket; the victim of a full cache is the front of
\* the bucket min_freq points to.
LEMMA LfuInsertStep ==
  ASSUME EvictInv, NEW k \in CacheKeys, LfuInsert(k)
  PROVE  LfuKept' /\ Evicts
<1> DEFINE D == DOMAIN freq
           full == Cardinality(D) >= capacity
           victim == Head(freq_keys[min_freq])
           stay == IF full THEN D \ {victim} ELSE D
           base == [g \in Freqs |->
                      IF full /\ g = min_freq THEN Tail(freq_keys[g]) ELSE freq_keys[g]]
<1>1. /\ UsesTypeOK /\ Used(k) /\ Held = D /\ k \notin D /\ policy = "lfu" /\ policy' = policy
      /\ D \subseteq CacheKeys /\ IsFiniteSet(D) /\ Cardinality(D) <= capacity
      /\ BucketsKept /\ MinFreqKept
      /\ capacity \in Nat \ {0} /\ Cardinality(D) \in Nat
  BY EvictionAssumption, FS_CardinalityType DEF EvictInv, LfuKept, LfuInsert, Held
<1>2. /\ freq' = With(IF full THEN Without(freq, victim) ELSE freq, k, 1)
      /\ freq_keys' = [g \in Freqs |-> IF g = 1 THEN Append(base[g], k) ELSE base[g]]
      /\ min_freq' = 1
  BY <1>1 DEF LfuInsert
<1>3. DOMAIN freq' = stay \cup {k} /\ freq'[k] = 1 /\ \A j \in stay : freq'[j] = freq[j]
  <2>1. CASE full
    BY <1>1, <1>2, <2>1 DEF With, Without
  <2>2. CASE ~full
    BY <1>1, <1>2, <2>2 DEF With
  <2> QED BY <2>1, <2>2
<1>4. /\ DOMAIN freq_keys = Freqs
      /\ \A g \in Freqs :
           Sorted(freq_keys[g], last_use) /\ ToSet(freq_keys[g]) = {j \in D : freq[j] = g}
      /\ \A j \in D : freq[j] \in Freqs /\ freq[j] = uses[j]
  BY <1>1 DEF BucketsKept
<1>5. 1 \in Freqs /\ Freqs \subseteq Nat \ {0}
  BY EvictionAssumption DEF Freqs
<1>6. full => /\ min_freq \in Freqs /\ freq_keys[min_freq] # <<>> /\ Cardinality(D) = capacity
              /\ \A j \in D : min_freq <= freq[j]
  <2> SUFFICES ASSUME full PROVE D # {} /\ Cardinality(D) = capacity
    BY <1>1 DEF MinFreqKept
  <2> QED BY <1>1, FS_EmptySet
<1>7. full => /\ victim \in D /\ freq[victim] = min_freq
              /\ Sorted(Tail(freq_keys[min_freq]), last_use)
              /\ ToSet(Tail(freq_keys[min_freq])) = {j \in D : freq[j] = min_freq} \ {victim}
              /\ \A j \in D \ {victim} : freq[j] = min_freq => last_use[victim] < last_use[j]
  <2> SUFFICES ASSUME full
               PROVE  /\ victim \in D /\ freq[victim] = min_freq
                      /\ Sorted(Tail(freq_keys[min_freq]), last_use)
                      /\ ToSet(Tail(freq_keys[min_freq]))
                           = {j \in D : freq[j] = min_freq} \ {victim}
                      /\ \A j \in D \ {victim} :
                           freq[j] = min_freq => last_use[victim] < last_use[j]
    OBVIOUS
  <2> DEFINE l == freq_keys[min_freq]
  <2>1. Sorted(l, last_use) /\ l # <<>> /\ ToSet(l) = {j \in D : freq[j] = min_freq}
    BY <1>4, <1>6
  <2> HIDE DEF l
  <2>2. /\ Sorted(Tail(l), last_use) /\ Head(l) \in ToSet(l)
        /\ ToSet(Tail(l)) = ToSet(l) \ {Head(l)}
        /\ \A j \in ToSet(l) \ {Head(l)} : last_use[Head(l)] < last_use[j]
    BY <2>1, FirstIsOldest
  <2> QED BY <2>1, <2>2 DEF l
<1>8. stay \subseteq D /\ k \notin stay
  BY <1>1
<1>9. ASSUME NEW g \in Freqs
      PROVE  Sorted(base[g], last_use) /\ ToSet(base[g]) = {j \in stay : freq[j] = g}
  <2>1. CASE full /\ g = min_freq
    BY <1>7, <2>1
  <2>2. CASE ~(full /\ g = min_freq)
    <3>1. base[g] = freq_keys[g]
      BY <2>2
    <3>2. {j \in stay : freq[j] = g} = {j \in D : freq[j] = g}
      BY <1>7, <2>2
    <3> QED BY <1>4, <3>1, <3>2
  <2> QED BY <2>1, <2>2
<1>10. /\ IsFiniteSet(stay) /\ Cardinality(stay) \in Nat /\ Cardinality(stay) < capacity
  <2>1. CASE full
    <3>1. IsFiniteSet(D \ {victim}) /\ Cardinality(D \ {victim}) = Cardinality(D) - 1
      BY <1>1, <1>7, <2>1, FS_RemoveElement
    <3>2. Cardinality(D) - 1 \in Nat /\ Cardinality(D) - 1 < capacity
      BY <1>1, <1>6, <2>1
    <3> QED BY <2>1, <3>1, <3>2
  <2>2. CASE ~full
    BY <1>1, <2>2
  <2> QED BY <2>1, <2>2
<1>11. /\ last_use' \in [CacheKeys -> Nat] /\ last_use'[k] = op'
       /\ \A j \in CacheKeys : j # k => last_use'[j] = last_use[j]
       /\ \A j \in CacheKeys : last_use[j] < op'
       /\ uses'[k] = 1 /\ \A j \in CacheKeys : j # k => uses'[j] = uses[j]
  BY <1>1, UsedStamps
<1> HIDE DEF base
<1>12. ASSUME NEW g \in Freqs
       PROVE  /\ Sorted(freq_keys'[g], last_use')
              /\ ToSet(freq_keys'[g]) = {j \in DOMAIN freq' : freq'[j] = g}
  <2> DEFINE l == base[g]
  <2>1. Sorted(l, last_use) /\ ToSet(l) = {j \in stay : freq[j] = g}
    BY <1>9
  <2>2. k \notin ToSet(l) /\ ToSet(l) \subseteq CacheKeys
    BY <1>1, <1>8, <2>1
  <2>3. freq_keys'[g] = IF g = 1 THEN Append(l, k) ELSE l
    BY <1>2
  <2> HIDE DEF l, stay
  <2>4. Sorted(l, last_use')
    BY <1>11, <2>1, <2>2, SortedAlike
  <2>5. \A j \in ToSet(l) : last_use'[j] < last_use'[k]
    BY <1>11, <2>2
  <2>6. Sorted(Append(l, k), last_use') /\ ToSet(Append(l, k)) = ToSet(l) \cup {k}
    BY <2>4, <2>5, AppendedSorted
  <2>7. {j \in DOMAIN freq' : freq'[j] = g}
          = {j \in stay : freq[j] = g} \cup (IF g = 1 THEN {k} ELSE {})
    BY <1>3, <1>8
  <2> QED BY <2>1, <2>3, <2>4, <2>6, <2>7
<1>13. \A j \in DOMAIN freq' : freq'[j] \in Freqs /\ freq'[j] = uses'[j]
  BY <1>1, <1>3, <1>4, <1>5, <1>8, <1>11
<1>14. MinFreqKept'
  <2>1. k \in ToSet(freq_keys'[1])
    BY <1>3, <1>5, <1>12
  <2>2. freq_keys'[1] # <<>>
    BY <2>1 DEF ToSet
  <2>3. ASSUME NEW j \in DOMAIN freq' PROVE 1 <= freq'[j]
    <3>1. freq'[j] \in Freqs
      BY <1>13
    <3>2. freq'[j] \in Nat \ {0}
      BY <1>5, <3>1
    <3> QED BY <3>2
  <2> QED BY <1>2, <1>5, <2>2, <2>3 DEF MinFreqKept
<1>15. Held' = stay \cup {k}
  BY <1>1, <1>3 DEF Held
<1>16. /\ stay \cup {k} \subseteq CacheKeys /\ IsFiniteSet(stay \cup {k})
       /\ Cardinality(stay \cup {k}) <= capacity
  <2> HIDE DEF stay, D
  <2>1. /\ IsFiniteSet(stay \cup {k}) /\ Cardinality(stay \cup {k}) = Cardinality(stay) + 1
    BY <1>8, <1>10, FS_AddElement
  <2> QED BY <1>1, <1>8, <1>10, <2>1
<1>17. ASSUME NEW v \in Held \ Held'
       PROVE  Cardinality(Held) = capacity /\ Rightful(v) /\ Held' \ Held # {}
  <2>1. full /\ v = victim
    BY <1>1, <1>15, <1>17
  <2>2. ASSUME NEW j \in D \ {v}
        PROVE  uses[v] < uses[j] \/ (uses[v] = uses[j] /\ last_use[v] < last_use[j])
    <3>1. /\ uses[v] = min_freq /\ uses[j] = freq[j] /\ min_freq <= freq[j]
          /\ min_freq \in Nat /\ freq[j] \in Nat
      BY <1>4, <1>5, <1>6, <1>7, <2>1
    <3>2. freq[j] = min_freq => last_use[v] < last_use[j]
      BY <1>7, <2>1
    <3>3. min_freq < freq[j] \/ freq[j] = min_freq
      BY <3>1
    <3> QED BY <3>1, <3>2, <3>3
  <2>3. Rightful(v)
    BY <1>1, <2>2 DEF Rightful
  <2>4. k \in Held' \ Held
    BY <1>1, <1>15
  <2> QED BY <1>1, <1>6, <2>1, <2>3, <2>4
<1>18. DOMAIN freq_keys' = Freqs
  BY <1>2
<1> HIDE DEF stay, D, full, victim
<1>19. LfuKept'
  BY <1>3, <1>12, <1>13, <1>14, <1>16, <1>18 DEF LfuKept, BucketsKept
<1>20. Evicts
  BY <1>15, <1>16, <1>17 DEF Evicts
<1> QED BY <1>19, <1>20

\* Each policy keeps its own structure and leaves those of the others alone.
LEMMA EvictStep ==
  ASSUME EvictInv, [EvictNext]_evictVars
  PROVE  EvictInv' /\ (Evicts \/ UNCHANGED evictVars)
<1>1. CASE UNCHANGED evictVars
  BY <1>1 DEF EvictInv, UsesTypeOK, OrderedKept, Stamp, LfuKept, BucketsKept, MinFreqKept,
     TtlKept, evictVars
<1>2. CASE EvictNext
  <2>1. policy' = policy
    BY <1>2 DEF EvictNext, LRUCache, FIFOCache, LFUCache, TTLCache, OrderedGet, OrderedPut,
       LfuHit, LfuInsert, TtlGet, TtlPut, Sweep, CacheTime
  <2>2. UsesTypeOK'
    <3>1. ASSUME NEW k \in CacheKeys, Used(k) PROVE UsesTypeOK'
      BY <2>1, <3>1, UsedStamps DEF EvictInv, UsesTypeOK
    <3>2. ASSUME UNCHANGED <<last_use, uses, inserted, op>> PROVE UsesTypeOK'
      BY <2>1, <3>2 DEF EvictInv, UsesTypeOK
    <3>3. (\E k \in CacheKeys : Used(k)) \/ UNCHANGED <<last_use, uses, inserted, op>>
      BY <1>2 DEF EvictNext, LRUCache, FIFOCache, LFUCache, TTLCache, OrderedGet, OrderedPut,
         LfuHit, LfuInsert, TtlGet, TtlPut, Sweep, CacheTime
    <3> QED BY <3>1, <3>2, <3>3
  <2>3. CASE LRUCache \/ FIFOCache
    <3>1. PICK k \in CacheKeys : OrderedGet(k) \/ OrderedPut(k)
      BY <2>3 DEF LRUCache, FIFOCache
    <3>2. policy \in {"lru", "fifo"}
      BY <2>3 DEF LRUCache, FIFOCache
    <3>3. OrderedKept' /\ Evicts
      BY <3>1, <3>2, OrderedStep
    <3>4. LfuKept' /\ TtlKept'
      BY <2>1, <3>2 DEF LfuKept, TtlKept
    <3> QED BY <2>2, <3>3, <3>4 DEF EvictInv
  <2>4. CASE LFUCache
    <3>1. LfuKept' /\ Evicts
      BY <2>4, LfuHitStep, LfuInsertStep DEF LFUCache
    <3>2. policy = "lfu"
      BY <2>4 DEF LFUCache, LfuHit, LfuInsert
    <3> QED BY <2>1, <2>2, <3>1, <3>2 DEF EvictInv, OrderedKept, TtlKept
  <2>5. CASE TTLCache \/ CacheTime
    <3>1. policy = "ttl"
      BY <2>5 DEF TTLCache, CacheTime, TtlGet, TtlPut, Sweep
    <3>2. TtlKept' /\ Evicts
      BY <2>5, <3>1, TtlStep
    <3> QED BY <2>1, <2>2, <3>1, <3>2 DEF EvictInv, OrderedKept, LfuKept
  <2> QED BY <1>2, <2>3, <2>4, <2>5 DEF EvictNext
<1> QED BY <1>1, <1>2

\* An empty cache is in order.
LEMMA EvictInitInv == ASSUME EvictInit PROVE EvictInv
<1>1. UsesTypeOK
  BY EvictionAssumption DEF EvictInit, UsesTypeOK
<1>2. OrderedKept
  <2>1. Stamp \in [CacheKeys -> Nat]
    BY DEF EvictInit, Stamp
  <2> QED BY <2>1, EvictionAssumption DEF EvictInit, OrderedKept, Sorted
<1>3. LfuKept
  <2>1. DOMAIN freq = {} /\ freq_keys = [f \in Freqs |-> <<>>]
    BY DEF EvictInit
  <2>2. \A f \in Freqs : Sorted(freq_keys[f], last_use) /\ ToSet(freq_keys[f]) = {}
    BY <2>1 DEF EvictInit, Sorted, ToSet
  <2>3. BucketsKept /\ MinFreqKept
    BY <2>1, <2>2 DEF BucketsKept, MinFreqKept
  <2> QED BY <2>1, <2>3, FS_EmptySet, EvictionAssumption DEF LfuKept
<1>4. TtlKept
  <2>1. DOMAIN expires_at = {}
    BY DEF EvictInit
  <2> QED BY <2>1, FS_EmptySet, EvictionAssumption DEF TtlKept
<1> QED BY <1>1, <1>2, <1>3, <1>4 DEF EvictInv

\* The dictionaries of LRU and FIFO, the buckets of LFU with its least frequency and
\* the expiries of TTL evict the key that the history of uses names, and no other.
THEOREM PolicyEvicts == Spec => EvictsByPolicy
<1>1. Init => EvictInv
  BY EvictInitInv DEF Init
<1>2. EvictInv /\ [Next]_mcVars => EvictInv'
  BY OneSystemSteps, EvictStep
<1>3. EvictInv /\ [Next]_mcVars
      => [/\ Cardinality(Held') <= capacity
          /\ \A v \in Held \ Held' :
               \/ Cardinality(Held) = capacity /\ Rightful(v) /\ Held' \ Held # {}
               \/ policy = "ttl" /\ IsExpired2(v)]_evictVars
  BY OneSystemSteps, EvictStep DEF Evicts
<1> QED BY <1>1, <1>2, <1>3, PTL DEF Spec, EvictsByPolicy
=============================================================================
