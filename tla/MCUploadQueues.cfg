CONSTANTS
  o1 = o1
  o2 = o2
  w1 = w1
  w2 = w2
  Objects <- MCObjects
  Workers <- MCWorkers
  QueueCap = 1
  Timeout = 1
  MaxRetry = 1
  MaxTime = 4
  MaxTasks = 4
  ScopeLimit = 2
  Need <- MCNeed
SPECIFICATION Spec
SYMMETRY Symm
INVARIANT RetryWithinBound
INVARIANT InstanceRunsOnceUnlessTimedOut
INVARIANT ReservationsMatchRunning
