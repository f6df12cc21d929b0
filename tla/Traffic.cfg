SPECIFICATION FairSpec
CONSTANTS
  s1 = s1
  s2 = s2
  s3 = s3
  c1 = c1
  c2 = c2
  c3 = c3
  c4 = c4
  t1 = t1
  t2 = t2
  bucket_capacity = 2
  rate = 1
  limit = 2
  window_size = 2
  Weights = {1, 2}
  MaxClock = 3
  Callers <- MCThreads
  RingServers <- MCServers
  RingClients <- MCClients
  Vnode <- MCVnode
  ClientPos <- MCClientPos
  NoServer = NoServer
  KeyError = KeyError
  MaxCopies = 2
  Servers <- MCServers
  weight <- MCRotationWeight
  MaxPicks = 4
  MaxPool = 3
  MaxFlaps = 2
  Requests <- MCClients
  Backends <- MCServers
  capacity_weight <- MCWeight
  NoBackend = NoBackend
  target_cpu = 70
  min_size = 2
  max_size = 4
  Loads = {0, 71, 130, 200, 500}
  Instances <- MCPair
  MaxFaults = 2
INVARIANT RateHeld
INVARIANT LoadShared
INVARIANT ScalesWithoutFlapping
PROPERTY OnlyItsClientsMove
PROPERTY InstancesRecover
CHECK_DEADLOCK FALSE
