SPECIFICATION Spec
CONSTANTS
  m1 = m1
  m2 = m2
  m3 = m3
  c1 = c1
  c2 = c2
  c3 = c3
  k1 = k1
  NoMessage = NoMessage
  NoKey = NoKey
  Messages <- MCMessages
  Consumers <- MCConsumers
  NumMessages <- MCNumMessages
  max_retries = 2
  MaxDisconnects = 1
  Keys <- MCKeys
  Pollers <- MCConsumers
  max_records = 2
  MaxOffset = 3
  MaxRebalances = 1
  MaxNacks = 1
  WorkItems <- MCItems
  PoolWorkers <- MCConsumers
  NoItem = NoItem
  RpcClients <- MCClients
  RpcServers <- MCConsumers
  Nobody = Nobody
  Priorities = {0, 2}
  Delays = {0, 1}
  Pollsters <- MCConsumers
  MaxEntries = 3
  MaxTime = 2
  ExchangeTypes <- MCTypes
  QueueNames <- MCConsumers
  RoutingKeys <- MCRoutingKeys
  TopicPatterns <- MCPatternSet
  HeaderSets <- MCHeaders
  MaxBindings = 2
  MaxPublished = 2
  num_partitions = 3
  KeyHash <- MCKeyHash
  Producing <- MCConsumers
  MembersInOrder <- MCMembers
  KeyLess = KeyLess
  MaxSent = 2
PROPERTY FetchFindsMessages
CHECK_DEADLOCK FALSE
