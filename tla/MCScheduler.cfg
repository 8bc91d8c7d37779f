SPECIFICATION SchedSpec
CONSTANTS
  a = a
  b = b
  Jobs = {j1, j2, j3, j4}
  Workers = {w}
  Inline = {w}
  Stoppable = {w}
  Concurrency = 1
  Capacity = 1
  RetryDelay = 1
  MaxDelay = 1
  AttemptLimits = {2}
  MaxTime = 3
  Faults = {"crash"}
  Host = w
  Entries <- AB
  Occurrences <- Times
  Broken = {b}
CHECK_DEADLOCK FALSE
INVARIANTS
  SchedTypeOK
  SkippedOnlyWhenBlocked
PROPERTIES
  NoSlotTwice
  StopsUnlessBlocked
  EndsUnlessJammed
