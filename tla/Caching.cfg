SPECIFICATION FairSpec
CONSTANTS
  c1 = c1
  c2 = c2
  k1 = k1
  k2 = k2
  k3 = k3
  t1 = t1
  t2 = t2
  t3 = t3
  NoThread = NoThread
  Clients <- MCClients
  Threads <- MCThreads
  batch_size = 2
  MaxWrites = 3
  CacheKeys <- MCKeys
  capacity = 2
  Ttls = {0, 1}
  MaxUses = 5
  Paths <- MCKeys
  AtOrigin <- MCPresent
  edge_capacity = 2
  EdgeTtl = 1
  MaxListed = 4
  MaxEdgeTime = 2
  Getters <- MCClients
  ttl_xfetch = 2
  MaxJitter = 1
  MaxNow = 5
  RedisMembers <- MCPresent
  Scores = {1, 2}
  MaxRedisOps = 5
  MaxRedisTime = 4
INVARIANT PatternsConsistent
INVARIANT StampedeHeld
INVARIANT StructuresKept
PROPERTY FlushKeepsOrder
PROPERTY CachesProgress
PROPERTY EvictsByPolicy
CHECK_DEADLOCK FALSE
