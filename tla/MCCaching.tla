------------------------------ MODULE MCCaching ------------------------------
(***************************************************************************)
(* Instances of caching and of the edge cache of cdn for TLC. They share    *)
(* nothing, so a behaviour is one of them: `system` says which, and the     *)
(* others stay as they began.                                               *)
(***************************************************************************)
EXTENDS CachePatterns, Stampede, Eviction, EdgeCache, Redis

CONSTANTS c1, c2, k1, k2, k3, t1, t2, t3

VARIABLE system

structureVars == <<evictVars, edgeVars, xfetchVars, redisVars>>
mcVars        == <<system, cacheVars, stampedeVars, structureVars>>

MCClients == {c1, c2}
MCThreads == {t1, t2, t3}
MCKeys    == {k1, k2, k3}
MCPresent == {k1, k2}

Init ==
  /\ system \in {"patterns", "stampede", "evict", "edge", "xfetch", "redis"}
  /\ CacheInit /\ StampedeInit
  /\ EvictInit /\ EdgeInit /\ XFetchInit /\ RedisInit
  /\ system # "patterns" => pattern = "cache-aside" /\ db = 1
  /\ system # "stampede" => strategy = "mutex"
  /\ system # "evict" => policy = "lru"
  /\ system # "redis" => redis = "set"

InPatterns(A)  == system = "patterns" /\ A /\ UNCHANGED <<system, stampedeVars, structureVars>>
InStampede(A)  == system = "stampede" /\ A /\ UNCHANGED <<system, cacheVars, structureVars>>
InStructure(A) == A /\ UNCHANGED <<system, cacheVars, stampedeVars>>

InEvict(A)  == system = "evict" /\ InStructure(A) /\ UNCHANGED <<edgeVars, xfetchVars, redisVars>>
InEdge(A)   == system = "edge" /\ InStructure(A) /\ UNCHANGED <<evictVars, xfetchVars, redisVars>>
InXFetch(A) == system = "xfetch" /\ InStructure(A) /\ UNCHANGED <<evictVars, edgeVars, redisVars>>
InRedis(A)  == system = "redis" /\ InStructure(A) /\ UNCHANGED <<evictVars, edgeVars, xfetchVars>>

Next == \/ InPatterns(CacheNext) \/ InStampede(StampedeNext)
        \/ InEvict(EvictNext) \/ InEdge(EdgeNext)
        \/ InXFetch(XFetchNext) \/ InRedis(RedisNext)

Spec == Init /\ [][Next]_mcVars

\* Clients finish what they begin, the flusher and the caller of stop are
\* scheduled; the key of the protected cache is asked for over and over, and
\* its threads are scheduled. Nobody has to write, to read or to call stop.
FairSpec ==
  /\ Spec
  /\ \A c \in Clients : WF_mcVars(InPatterns(Continue(c)))
  /\ WF_mcVars(InPatterns(FlushWorker))
  /\ WF_mcVars(InPatterns(FlushNow))
  /\ \A t \in Threads : WF_mcVars(InStampede(Get(t)))
  /\ WF_mcVars(InStampede(Refresh))

\* Every queued write gets to the database and a protected entry that is asked
\* for is renewed: WritesReachDb and EntryRenewed, each in its own behaviours.
CachesProgress ==
  /\ system = "patterns" => WritesReachDb
  /\ system = "stampede" => EntryRenewed

\* What the structures promise: the edge cache and its list keep together, and the
\* commands answer as Redis does.
StructuresKept == EdgeKept /\ AnswersAsRedis
=============================================================================
