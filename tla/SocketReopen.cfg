CONSTANTS
  Hosts = 1
  PipeSize = 2
  MaxTake = 2
  MaxWrites = 0
  MaxOpens = 2
SPECIFICATION Spec
CHECK_DEADLOCK FALSE
INVARIANT
  AssertionsHold
