-------------------------------- MODULE EdgeCache --------------------------------
(***************************************************************************)
(* EdgeServer, OriginServer and PushCDN of cdn/edge_caching.py: one edge    *)
(* that pulls from the origin on a miss, is purged, and is pushed assets.   *)
(* Its LRU order is a list beside the dictionary. push_asset stores a path  *)
(* without looking whether it is cached, and so may list it twice; evicting *)
(* a path that has left the cache already raises KeyError.                  *)
(***************************************************************************)
EXTENDS Naturals, SequencesExt, FiniteSets

CONSTANTS
  Paths, AtOrigin,     \* the paths requested, those the origin has
  edge_capacity, EdgeTtl,
  MaxListed, MaxEdgeTime   \* bounds: length of the LRU list, clock

ASSUME EdgeAssumption ==
  AtOrigin \subseteq Paths /\ edge_capacity \in Nat \ {0} /\ EdgeTtl \in Nat

VARIABLES
  edge_cache,   \* _cache: the paths cached and when they expire
  lru_order,    \* _lru_order
  edge_time,
  key_error,    \* a call ended in KeyError
  owed,         \* history: pushes of a cached path, less the evictions that failed
  later         \* history: the pairs of paths of which the second was used last

edgeVars == <<edge_cache, lru_order, edge_time, key_error, owed, later>>

EdgeInit ==
  /\ edge_cache = <<>> /\ lru_order = <<>>
  /\ edge_time = 0 /\ key_error = FALSE
  /\ owed = 0 /\ later = {}

Cached == DOMAIN edge_cache
Drop(f, p) == [q \in DOMAIN f \ {p} |-> f[q]]

UsedLast(p) == later' = {e \in later : e[1] # p /\ e[2] # p} \cup ((Paths \ {p}) \X {p})

\* _cache_store on the given dictionary and list.
Stored(cache, list, p) ==
  LET full == Cardinality(DOMAIN cache) >= edge_capacity
      missing == full /\ Head(list) \notin DOMAIN cache
      evicted == IF full THEN Drop(cache, Head(list)) ELSE cache
      kept == IF full THEN Tail(list) ELSE list
  IN IF missing
     THEN /\ edge_cache' = cache /\ lru_order' = kept /\ key_error' = TRUE
          /\ owed' = owed - 1
          /\ UNCHANGED later
     ELSE /\ edge_cache' = [q \in DOMAIN evicted \cup {p} |->
                              IF q = p THEN edge_time + EdgeTtl ELSE evicted[q]]
          /\ lru_order' = Append(kept, p)
          /\ owed' = IF p \in DOMAIN evicted THEN owed + 1 ELSE owed
          /\ UsedLast(p)
          /\ UNCHANGED key_error

\* Mutant: a hit leaves the path at its place in the list.
RequestHitUnmarked(p) ==
  /\ p \in Cached /\ edge_time < edge_cache[p]
  /\ UsedLast(p)
  /\ UNCHANGED <<edge_cache, lru_order, edge_time, key_error, owed>>

RequestHit(p) ==
  /\ p \in Cached /\ edge_time < edge_cache[p]
  /\ lru_order' = Append(RemoveFirst(lru_order, p), p)
  /\ UsedLast(p)
  /\ UNCHANGED <<edge_cache, edge_time, key_error, owed>>

\* A stale entry is dropped first; the origin may have no such file.
RequestMiss(p) ==
  LET cache == Drop(edge_cache, p)
      list == IF p \in Cached THEN RemoveFirst(lru_order, p) ELSE lru_order
  IN /\ p \in Cached => edge_time >= edge_cache[p]
     /\ IF p \in AtOrigin
        THEN Stored(cache, list, p)
        ELSE /\ edge_cache' = cache /\ lru_order' = list
             /\ UNCHANGED <<key_error, owed, later>>
     /\ UNCHANGED edge_time

\* Mutant: a purged path stays in the list.
PurgeStillListed(p) ==
  /\ p \in Cached
  /\ edge_cache' = Drop(edge_cache, p)
  /\ UNCHANGED <<lru_order, edge_time, key_error, owed, later>>

Purge(p) ==
  /\ p \in Cached
  /\ edge_cache' = Drop(edge_cache, p)
  /\ lru_order' = RemoveFirst(lru_order, p)
  /\ UNCHANGED <<edge_time, key_error, owed, later>>

PushAsset(p) ==
  /\ Len(lru_order) < MaxListed
  /\ Stored(edge_cache, lru_order, p)
  /\ UNCHANGED edge_time

EdgeTimePasses ==
  /\ edge_time < MaxEdgeTime /\ edge_time' = edge_time + 1
  /\ UNCHANGED <<edge_cache, lru_order, key_error, owed, later>>

Request(p)    == RequestHit(p) \/ RequestMiss(p)
EdgeServer(p) == Request(p) \/ Purge(p)

EdgeNext ==
  \/ \E p \in Paths : EdgeServer(p) \/ PushAsset(p)
  \/ EdgeTimePasses

EdgeSpec == EdgeInit /\ [][EdgeNext]_edgeVars
-----------------------------------------------------------------------------
\* What is used later is listed later, the last time it is listed.
ListedByUse ==
  \A i \in DOMAIN lru_order : \A q \in ToSet(lru_order) :
    <<lru_order[i], q>> \in later => \E j \in DOMAIN lru_order : i < j /\ lru_order[j] = q

\* However pushes, purges, expiries and failed evictions follow each other: the edge
\* holds no more than its capacity; every path it holds is in the list, so that it can
\* be evicted; each push of a path that was cached already costs one eviction that
\* fails, and no eviction fails otherwise; and of two paths in the list the one used
\* last is listed last, so that with each path listed once the least recently used
\* one goes first.
EdgeKept ==
  /\ Cardinality(Cached) <= edge_capacity
  /\ Cached \subseteq ToSet(lru_order)
  /\ owed >= 0 /\ Len(lru_order) = Cardinality(Cached) + owed
  /\ ListedByUse

\* _cache_store: "Evict least recently used (first item in list)". The first
\* item of the list is one that can be evicted.
EvictionFindsKey == ~key_error
=============================================================================
