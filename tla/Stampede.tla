------------------------------- MODULE Stampede -------------------------------
(***************************************************************************)
(* The strategies of caching/cache_stampede.py for one key and the threads  *)
(* that get it. Stampede: MutexCacheStampedePrevention, and                 *)
(* BackgroundRefreshCache with its soft and hard TTL and its refresh        *)
(* threads. XFetch: ProbabilisticEarlyRecompute.                            *)
(*                                                                          *)
(* An entry is written as a whole, so only its age matters, and in Stampede *)
(* it may pass a TTL at any moment; XFetch compares it with a clock. The    *)
(* two state machines share nothing.                                        *)
(***************************************************************************)
EXTENDS Naturals, FiniteSets

CONSTANTS
  Threads,
  NoThread,
  Getters,        \* the threads that get the key with XFetch
  ttl_xfetch,
  MaxJitter,      \* bound: -beta * delta * log(rnd)
  MaxNow          \* bound: the clock

ASSUME ThreadsAssumption == NoThread \notin Threads

ASSUME XFetchAssumption ==
  /\ ttl_xfetch \in Nat \ {0}
  /\ MaxJitter \in Nat /\ MaxNow \in Nat

VARIABLES
  strategy,    \* which of the classes is used
  entry,       \* the age of the entry: none, fresh, soft or expired
  queries,     \* database queries stored since the entry last expired, up to 2
  holder,      \* who holds the lock of the key
  thread,      \* where each thread stands in get
  refreshing,  \* whether the key is in _refreshing
  refresh      \* how many refresh threads stand where

stampedeVars == <<strategy, entry, queries, holder, thread, refreshing, refresh>>

StampedeInit ==
  /\ strategy \in {"mutex", "background"}
  /\ entry = "none"
  /\ queries = 0
  /\ holder = NoThread
  /\ thread = [t \in Threads |-> "idle"]
  /\ refreshing = FALSE
  /\ refresh = [querying |-> 0, clearing |-> 0]

At(t, label) == thread' = [thread EXCEPT ![t] = label]

\* The entry passes the soft TTL or its expiry.
Age ==
  /\ \/ strategy = "background" /\ entry = "fresh" /\ entry' = "soft"
     \/ strategy = "background" /\ entry = "soft" /\ entry' = "expired"
     \/ strategy = "mutex" /\ entry = "fresh" /\ entry' = "expired"
  /\ queries' = IF entry' = "expired" THEN 0 ELSE queries
  /\ UNCHANGED <<strategy, holder, thread, refreshing, refresh>>

Missing == entry \in {"none", "expired"}

\* The result of a query is cached; counting stops at 2.
Store == entry' = "fresh" /\ queries' = IF queries < 2 THEN queries + 1 ELSE 2

-----------------------------------------------------------------------------
(* MutexCacheStampedePrevention.get *)

Miss(t) ==
  /\ strategy = "mutex"
  /\ thread[t] = "idle"
  /\ Missing
  /\ At(t, "waiting")
  /\ UNCHANGED <<strategy, entry, queries, holder, refreshing, refresh>>

Acquire(t) ==
  /\ thread[t] = "waiting"
  /\ holder = NoThread
  /\ holder' = t
  /\ At(t, "locked")
  /\ UNCHANGED <<strategy, entry, queries, refreshing, refresh>>

\* Mutant: the cache is not checked again under the lock.
CheckOnce(t) ==
  /\ thread[t] = "locked"
  /\ At(t, "querying")
  /\ UNCHANGED <<strategy, entry, queries, holder, refreshing, refresh>>

CheckAgain(t) ==
  /\ thread[t] = "locked"
  /\ IF Missing
     THEN At(t, "querying") /\ UNCHANGED holder
     ELSE At(t, "idle") /\ holder' = NoThread
  /\ UNCHANGED <<strategy, entry, queries, refreshing, refresh>>

Populate(t) ==
  /\ thread[t] = "querying"
  /\ Store
  /\ holder' = NoThread
  /\ At(t, "idle")
  /\ UNCHANGED <<strategy, refreshing, refresh>>

-----------------------------------------------------------------------------
(* BackgroundRefreshCache.get *)

FetchSync(t) ==
  /\ strategy = "background"
  /\ thread[t] = "idle"
  /\ Missing
  /\ At(t, "fetching")
  /\ UNCHANGED <<strategy, entry, queries, holder, refreshing, refresh>>

StoreSync(t) ==
  /\ thread[t] = "fetching"
  /\ Store
  /\ At(t, "idle")
  /\ UNCHANGED <<strategy, holder, refreshing, refresh>>

SoftHit(t) ==
  /\ strategy = "background"
  /\ thread[t] = "idle"
  /\ entry = "soft"
  /\ At(t, "triggering")
  /\ UNCHANGED <<strategy, entry, queries, holder, refreshing, refresh>>

\* Test and set of _refreshing under its lock; the entry may have been
\* refreshed or have expired since it was found stale.
Trigger(t) ==
  /\ thread[t] = "triggering"
  /\ IF refreshing
     THEN UNCHANGED <<refreshing, refresh>>
     ELSE refreshing' = TRUE /\ refresh' = [refresh EXCEPT !.querying = @ + 1]
  /\ At(t, "idle")
  /\ UNCHANGED <<strategy, entry, queries, holder>>

RefreshStores ==
  /\ refresh.querying > 0
  /\ Store
  /\ refresh' = [querying |-> refresh.querying - 1, clearing |-> refresh.clearing + 1]
  /\ UNCHANGED <<strategy, holder, thread, refreshing>>

RefreshClears ==
  /\ refresh.clearing > 0
  /\ refreshing' = FALSE
  /\ refresh' = [refresh EXCEPT !.clearing = @ - 1]
  /\ UNCHANGED <<strategy, entry, queries, holder, thread>>

-----------------------------------------------------------------------------
GetMutex(t)      == Miss(t) \/ Acquire(t) \/ CheckAgain(t) \/ Populate(t)
GetBackground(t) == FetchSync(t) \/ StoreSync(t) \/ SoftHit(t) \/ Trigger(t)
Get(t)           == GetMutex(t) \/ GetBackground(t)
Refresh          == RefreshStores \/ RefreshClears

StampedeNext == Age \/ Refresh \/ \E t \in Threads : Get(t)

StampedeSpec == StampedeInit /\ [][StampedeNext]_stampedeVars
-----------------------------------------------------------------------------
(* Properties *)

\* Type invariant of the two caches; the lock is held by the one thread that is
\* inside `with lock`, and by nobody otherwise.
StampedeTypeOK ==
  /\ strategy \in {"mutex", "background"}
  /\ entry \in {"none", "fresh", "soft", "expired"}
  /\ queries \in 0..2
  /\ holder \in Threads \cup {NoThread}
  /\ thread \in [Threads -> {"idle", "waiting", "locked", "querying",
                             "fetching", "triggering"}]
  /\ refreshing \in BOOLEAN
  /\ refresh \in [querying : Nat, clearing : Nat]
  /\ \A t \in Threads : holder = t <=> thread[t] \in {"locked", "querying"}

\* "DB only gets ONE query per cache miss (guaranteed)": with the mutex, an
\* entry is queried for once between two expiries, however many threads miss it
\* and at whatever moment they come to the lock.
OneQueryPerMiss ==
  strategy = "mutex" =>
    queries + Cardinality({t \in Threads : thread[t] = "querying"}) <= 1

\* "Only one per key at a time": no two refresh threads of a key run at once,
\* though triggers, stores and the clearing of _refreshing interleave.
OneRefreshAtATime == refresh.querying + refresh.clearing <= 1

\* What the two ways to protect an entry promise.
StampedeHeld == StampedeTypeOK /\ OneQueryPerMiss /\ OneRefreshAtATime

\* As long as the key is asked for, an entry that a thread found missing, stale
\* or expired is replaced: no lock and no entry of _refreshing is left behind.
EntryRenewed ==
  entry # "fresh" /\ (\E t \in Threads : thread[t] # "idle") ~> entry = "fresh"
-----------------------------------------------------------------------------
(* ProbabilisticEarlyRecompute: get looks the entry up, draws the XFetch       *)
(* threshold, and recomputes or hits; only the assignment of a new entry is    *)
(* under the lock. The logarithm of rnd in (0, 1] is zero or negative and it   *)
(* is subtracted: the threshold is the expiry plus a jitter.                   *)

VARIABLES
  entry_until, \* expires_at of the entry of _cache; 0 when there is none
  time_now,
  getter,     \* where each get stands
  found,      \* the expiry of the entry each get has looked up
  early,      \* a recomputation began before the expiry of the entry found
  passed_up   \* a get hit although the expiry was no farther off than its jitter

xfetchVars == <<entry_until, time_now, getter, found, early, passed_up>>

XFetchInit ==
  /\ entry_until = 0 /\ time_now = 1
  /\ getter = [g \in Getters |-> "idle"]
  /\ found = [g \in Getters |-> 0]
  /\ early = FALSE /\ passed_up = FALSE

GetterAt(g, label) == getter' = [getter EXCEPT ![g] = label]

GetEntry(g) ==
  /\ getter[g] = "idle"
  /\ found' = [found EXCEPT ![g] = entry_until]
  /\ GetterAt(g, IF time_now >= entry_until THEN "recomputing" ELSE "deciding")
  /\ UNCHANGED <<entry_until, time_now, early, passed_up>>

Threshold(g, jitter) == found[g] + jitter

ShouldRecompute(g) ==
  /\ getter[g] = "deciding"
  /\ \E jitter \in 0..MaxJitter :
       LET again == time_now >= Threshold(g, jitter) IN
       /\ GetterAt(g, IF again THEN "recomputing" ELSE "idle")
       /\ early' = (early \/ (again /\ time_now < found[g]))
       /\ passed_up' = (passed_up \/ (~again /\ time_now + jitter >= found[g]))
  /\ UNCHANGED <<entry_until, time_now, found>>

Recompute(g) ==
  /\ getter[g] = "recomputing"
  /\ entry_until' = time_now + ttl_xfetch
  /\ GetterAt(g, "idle")
  /\ UNCHANGED <<time_now, found, early, passed_up>>

XFetchTime ==
  /\ time_now < MaxNow /\ time_now' = time_now + 1
  /\ UNCHANGED <<entry_until, getter, found, early, passed_up>>

XFetchGet(g) == GetEntry(g) \/ ShouldRecompute(g) \/ Recompute(g)

XFetchNext == (\E g \in Getters : XFetchGet(g)) \/ XFetchTime

XFetchSpec == XFetchInit /\ [][XFetchNext]_xfetchVars
-----------------------------------------------------------------------------
\* What the sign in _should_recompute makes of the algorithm: no get recomputes
\* before the entry it found has expired. Recomputation only begins at expiry,
\* by as many gets as look then; the entry that is stored is always good for a
\* full ttl from then on.
NeverEarly ==
  /\ ~early
  /\ \A g \in Getters : getter[g] = "recomputing" => time_now >= found[g]
  /\ entry_until <= time_now + ttl_xfetch

\* "DON'T wait for the cache to expire": a get that is as near to the expiry as the
\* jitter it draws recomputes.
RecomputesEarly == ~passed_up
=============================================================================
