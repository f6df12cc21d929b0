SPECIFICATION FairSpec
CONSTANTS
  c1 = c1
  c2 = c2
  i1 = i1
  i2 = i2
  i3 = i3
  m1 = m1
  m2 = m2
  n1 = n1
  n2 = n2
  o1 = o1
  o2 = o2
  p1 = p1
  p2 = p2
  NumSteps = 4
  Items <- MCItems
  Timer = Timer
  Stopper = Stopper
  max_size = 2
  NumJobs = 4
  max_workers = 2
  BgJobs <- MCOrders
  Unknown = Unknown
  Producers <- MCProducers
  Consumers <- MCConsumers
  MessageIds <- MCMessageIds
  max_retries <- MCRetries
  MaxSends = 2
  Orders <- MCOrders
  Relays <- MCConsumers
  MaxCrashes = 2
  Callers <- MCItems
  max_attempts = 2
  Names <- MCNames
  NoRow = NoRow
  NoUser = NoUser
  Absent = Absent
  MaxId = 2
INVARIANT OnceEach
INVARIANT PublishedAsPromised
INVARIANT RowsKept
INVARIANT SagaUndone
INVARIANT ItemsOnceInOrder
INVARIANT ResultsFinal
PROPERTY EveryOrderPublished
PROPERTY RetryChangesNothing
PROPERTY NobodyWaitsForever
CHECK_DEADLOCK FALSE
