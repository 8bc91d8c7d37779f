SPECIFICATION Spec
CONSTANTS
  Jobs = {j1, j2, j3}
  Workers = {w}
  Inline = {w}
  Stoppable = {w}
  Concurrency = 2
  Capacity = 1
  RetryDelay = 1
  MaxDelay = 2
  AttemptLimits <- Limits
  MaxTime = 1
  Faults = {"crash", "panic"}
SYMMETRY Symmetry
INVARIANTS
  JobsAccountedFor
  AttemptsBounded
PROPERTIES
  ImplementsJobQueue
