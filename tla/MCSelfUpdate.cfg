SPECIFICATION UpdateSpec
CONSTANTS
  Handlers = {h1}
  Checker = checker
  Applies = {u1, u2}
  MaxVersion = 2
  MaxExits = 1
  MaxFaults = 2
SYMMETRY Symmetry
INVARIANTS
  StatusIsTruthful
  AlwaysRecoverable
PROPERTIES
  RollbackIsExact
CHECK_DEADLOCK FALSE
