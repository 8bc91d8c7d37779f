SPECIFICATION FairSpec
CONSTANTS
  Jobs = {j1, j2}
  Workers = {w1, w2}
  Inline = {}
  Stoppable = {w1}
  Concurrency = 2
  RetryDelay = 1
  MaxDelay = 2
  AttemptLimits <- Limits
  MaxTime = 2
  Faults = {}
  NoRow = NoRow
PROPERTIES
  EventuallySettled
  DrainTerminates
