SPECIFICATION HFairSpec
CONSTANTS
  Callers = {c1, c2, c3}
  Hanging = {c3}
  failure_threshold = 2
  success_threshold = 2
INVARIANT BreakerSafe
PROPERTY TransitionsEarned
PROPERTY Converges
