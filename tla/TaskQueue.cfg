SPECIFICATION FairSpec
CONSTANTS
  t1 = t1
  t2 = t2
  w1 = w1
  w2 = w2
  NoTask = NoTask
  Tasks <- MCTasks
  Workers <- MCWorkers
  Stoppable = {w1}
  MaxRetries <- MCRetries
  HasTimeout <- MCTimeout
  Priority <- MCPriority
  CreatedAt <- MCCreated
INVARIANT QueueSafe
INVARIANT Accounting
PROPERTY LifecycleKept
PROPERTY EverySubmissionSettles
