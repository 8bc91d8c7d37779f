SPECIFICATION FairSpec
CONSTANTS
  Jobs = {j1, j2}
  Workers = {w1, w2}
  Inline = {}
  Stoppable = {}
  Concurrency = 1
  RetryDelay = 1
  MaxDelay = 2
  AttemptLimits <- TwoAttempts
  MaxTime = 1
  Faults = {"crash"}
  NoRow = NoRow
PROPERTIES
  JobsSurviveRestarts
