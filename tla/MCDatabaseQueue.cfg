SPECIFICATION Spec
CONSTANTS
  Jobs = {j1, j2}
  Workers = {w1, w2}
  Inline = {w1, w2}
  Stoppable = {w1, w2}
  Concurrency = 1
  RetryDelay = 1
  MaxDelay = 2
  AttemptLimits <- Limits
  MaxTime = 2
  Faults = {"crash", "panic", "db_error"}
  NoRow = NoRow
SYMMETRY Symmetry
INVARIANTS
  TypeOK
  PermitsConserved
  StoppedIsDrained
  ExclusiveExecution
  SucceededNeverReruns
  TaskOwnsItsRow
  AttemptsBounded
  NeverEarly
PROPERTIES
  ImplementsJobQueue
