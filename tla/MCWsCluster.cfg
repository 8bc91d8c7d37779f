SPECIFICATION Spec
CONSTANTS
  n1 = n1
  n2 = n2
  e1 = e1
  e2 = e2
  e3 = e3
  Nodes = {n1, n2}
  Events = {e1, e2, e3}
  Origin <- Origins
  Nothing = Nothing
  Junk = Junk
  RelayBuffer = 1
  MaxFaults = 2
INVARIANTS
  ClusterInv
PROPERTIES
  IsAnEventBus
  LocalDespiteRedis
CHECK_DEADLOCK FALSE
