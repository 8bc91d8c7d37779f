SPECIFICATION Spec
CONSTANTS
  Handlers = {}
  Checker = checker
  Applies = {u1}
  MaxVersion = 2
  MaxExits = 1
  MaxFaults = 1
  MaxTools = 2
INVARIANTS
  DeployTypeOK
PROPERTIES
  InstallsSpareWhatIsThere
  DoneIsDone
CHECK_DEADLOCK FALSE
