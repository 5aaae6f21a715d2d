SPECIFICATION FairSpec
CONSTANTS
  None = None
  Modes = {"queued", "dispatched", "guarded"}
  Doc = {d1, d2}
  RetryCount = 1
  RetryDelay = 2
  Limit = 3
  QueueLimit = 2
  Overshoot = 1
  Longest = 1
  MaxFault = 1
INVARIANTS
  DeadlineKept
PROPERTIES
  ImplementsJob
