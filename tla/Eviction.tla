-------------------------------- MODULE Eviction --------------------------------
(***************************************************************************)
(* The caches of caching/eviction_policies.py: LRU, LFU, FIFO and TTL. LFU  *)
(* is the constant-time structure, a bucket of keys for each frequency and  *)
(* the least frequency there is; the histories of uses below it say what    *)
(* the policies promise without any of these structures.                    *)
(***************************************************************************)
EXTENDS Integers, SequencesExt, FiniteSets

CONSTANTS
  CacheKeys, capacity,
  Ttls,       \* the ttl arguments of put
  MaxUses     \* bound: operations in one behaviour, and the clock

ASSUME EvictionAssumption ==
  capacity \in Nat \ {0} /\ Ttls \subseteq Nat /\ MaxUses \in Nat

VARIABLES
  policy,      \* "lru", "lfu", "fifo" or "ttl"
  order,       \* the keys of the OrderedDict of LRU and FIFO, front first
  freq,        \* LFUCache.key_count; its domain are the keys held
  freq_keys,   \* LFUCache.freq_keys
  min_freq,    \* LFUCache.min_freq
  expires_at,  \* TTLCache: the expiry of each key held
  now,         \* the clock of the TTL cache
  last_use, uses, inserted,   \* history of each key held
  op           \* number of operations

evictVars == <<policy, order, freq, freq_keys, min_freq, expires_at, now,
               last_use, uses, inserted, op>>

Freqs == 1..(MaxUses + 1)

EvictInit ==
  /\ policy \in {"lru", "lfu", "fifo", "ttl"}
  /\ order = <<>>
  /\ freq = <<>> /\ freq_keys = [f \in Freqs |-> <<>>] /\ min_freq = 0
  /\ expires_at = <<>> /\ now = 0
  /\ last_use = [k \in CacheKeys |-> 0]
  /\ uses = [k \in CacheKeys |-> 0]
  /\ inserted = [k \in CacheKeys |-> 0]
  /\ op = 0

Held == CASE policy \in {"lru", "fifo"} -> ToSet(order)
          [] policy = "lfu" -> DOMAIN freq
          [] policy = "ttl" -> DOMAIN expires_at

\* A hit on, or an insertion or update of, key k.
Used(k) ==
  /\ op < MaxUses /\ op' = op + 1
  /\ last_use' = [last_use EXCEPT ![k] = op']
  /\ uses' = [uses EXCEPT ![k] = IF k \in Held THEN @ + 1 ELSE 1]
  /\ inserted' = [inserted EXCEPT ![k] = IF k \in Held THEN @ ELSE op']

ToEnd(k) == Append(RemoveFirst(order, k), k)
Without(f, k) == [j \in DOMAIN f \ {k} |-> f[j]]
With(f, k, v) == [j \in DOMAIN f \cup {k} |-> IF j = k THEN v ELSE f[j]]

lfuVars == <<freq, freq_keys, min_freq>>
ttlVars == <<expires_at, now>>

-----------------------------------------------------------------------------
(* LRU and FIFO *)

OrderedGet(k) ==
  /\ policy \in {"lru", "fifo"} /\ k \in Held
  /\ order' = IF policy = "lru" THEN ToEnd(k) ELSE order
  /\ Used(k)
  /\ UNCHANGED <<policy, lfuVars, ttlVars>>

OrderedPut(k) ==
  /\ policy \in {"lru", "fifo"}
  /\ order' = IF k \in Held
              THEN IF policy = "lru" THEN ToEnd(k) ELSE order
              ELSE Append(IF Len(order) >= capacity THEN Tail(order) ELSE order, k)
  /\ Used(k)
  /\ UNCHANGED <<policy, lfuVars, ttlVars>>

-----------------------------------------------------------------------------
(* LFU *)

IncrementFreq(k) ==
  LET f == freq[k]
      left == RemoveFirst(freq_keys[f], k)
  IN /\ freq_keys' = [freq_keys EXCEPT ![f] = left, ![f + 1] = Append(@, k)]
     /\ min_freq' = IF left = <<>> /\ f = min_freq THEN min_freq + 1 ELSE min_freq
     /\ freq' = [freq EXCEPT ![k] = f + 1]

LfuHit(k) ==   \* get of a key held, and put, which also replaces the value
  /\ policy = "lfu" /\ k \in Held
  /\ IncrementFreq(k)
  /\ Used(k)
  /\ UNCHANGED <<policy, order, ttlVars>>

\* Mutant: the least frequency is not reset for a new key.
InsertKeepingMin(k) ==
  LET full == Cardinality(Held) >= capacity
      victim == Head(freq_keys[min_freq])
  IN /\ policy = "lfu" /\ k \notin Held
     /\ freq' = With(IF full THEN Without(freq, victim) ELSE freq, k, 1)
     /\ freq_keys' = [f \in Freqs |->
          LET kept == IF full /\ f = min_freq THEN Tail(freq_keys[f]) ELSE freq_keys[f]
          IN IF f = 1 THEN Append(kept, k) ELSE kept]
     /\ min_freq' = IF min_freq = 0 THEN 1 ELSE min_freq
     /\ Used(k)
     /\ UNCHANGED <<policy, order, ttlVars>>

LfuInsert(k) ==
  LET full == Cardinality(Held) >= capacity
      victim == Head(freq_keys[min_freq])
  IN /\ policy = "lfu" /\ k \notin Held
     /\ freq' = With(IF full THEN Without(freq, victim) ELSE freq, k, 1)
     /\ freq_keys' = [f \in Freqs |->
          LET kept == IF full /\ f = min_freq THEN Tail(freq_keys[f]) ELSE freq_keys[f]
          IN IF f = 1 THEN Append(kept, k) ELSE kept]
     /\ min_freq' = 1
     /\ Used(k)
     /\ UNCHANGED <<policy, order, ttlVars>>

-----------------------------------------------------------------------------
(* TTL *)

IsExpired2(k) == now > expires_at[k]

TtlGet(k) ==
  /\ policy = "ttl" /\ k \in Held
  /\ IF IsExpired2(k)
     THEN expires_at' = Without(expires_at, k) /\ UNCHANGED <<last_use, uses, inserted, op>>
     ELSE Used(k) /\ UNCHANGED expires_at
  /\ UNCHANGED <<policy, order, lfuVars, now>>

Soonest == {k \in Held : \A j \in Held : expires_at[k] <= expires_at[j]}

TtlPut(k, ttl) ==
  /\ policy = "ttl"
  /\ IF Cardinality(Held) >= capacity /\ k \notin Held
     THEN \E v \in Soonest : expires_at' = With(Without(expires_at, v), k, now + ttl)
     ELSE expires_at' = With(expires_at, k, now + ttl)
  /\ Used(k)
  /\ UNCHANGED <<policy, order, lfuVars, now>>

Sweep ==
  /\ policy = "ttl" /\ \E k \in Held : IsExpired2(k)
  /\ expires_at' = [k \in {j \in Held : ~IsExpired2(j)} |-> expires_at[k]]
  /\ UNCHANGED <<policy, order, lfuVars, now, last_use, uses, inserted, op>>

CacheTime ==
  /\ policy = "ttl" /\ now < MaxUses /\ now' = now + 1
  /\ UNCHANGED <<policy, order, lfuVars, expires_at, last_use, uses, inserted, op>>

LRUCache  == policy = "lru" /\ \E k \in CacheKeys : OrderedGet(k) \/ OrderedPut(k)
FIFOCache == policy = "fifo" /\ \E k \in CacheKeys : OrderedGet(k) \/ OrderedPut(k)
LFUCache  == \E k \in CacheKeys : LfuHit(k) \/ LfuInsert(k)
TTLCache  == (\E k \in CacheKeys : TtlGet(k) \/ \E ttl \in Ttls : TtlPut(k, ttl)) \/ Sweep

EvictNext == LRUCache \/ FIFOCache \/ LFUCache \/ TTLCache \/ CacheTime

EvictSpec == EvictInit /\ [][EvictNext]_evictVars
-----------------------------------------------------------------------------
\* The key a full cache should give up, told by the histories alone.
Rightful(v) ==
  \A k \in Held \ {v} :
    CASE policy = "lru"  -> last_use[v] < last_use[k]
      [] policy = "fifo" -> inserted[v] < inserted[k]
      [] policy = "lfu"  -> \/ uses[v] < uses[k]
                            \/ uses[v] = uses[k] /\ last_use[v] < last_use[k]
      [] policy = "ttl"  -> expires_at[v] <= expires_at[k]

\* "Evict the key with the LOWEST ACCESS COUNT ... evict the LEAST RECENTLY USED
\* among them", and so on: a key only leaves a full cache for a new one, when it
\* is the one the policy names, or the TTL cache when it has expired; and no
\* cache ever holds more than its capacity.
EvictsByPolicy ==
  [][/\ Cardinality(Held') <= capacity
     /\ \A v \in Held \ Held' :
          \/ Cardinality(Held) = capacity /\ Rightful(v) /\ Held' \ Held # {}
          \/ policy = "ttl" /\ IsExpired2(v)]_evictVars
=============================================================================
