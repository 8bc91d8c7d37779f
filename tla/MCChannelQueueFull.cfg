SPECIFICATION FairSpec
CONSTANTS
  Jobs = {j1, j2}
  Workers = {w}
  Inline = {}
  Stoppable = {}
  Concurrency = 1
  Capacity = 1
  RetryDelay = 1
  MaxDelay = 2
  AttemptLimits <- Limits
  MaxTime = 0
  Faults = {}
PROPERTIES
  RetriesAreReenqueued
CHECK_DEADLOCK FALSE
