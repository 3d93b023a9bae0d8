CONSTANTS
  MaxRecords = 4
  Addresses = {a1, a2}
  Lookup = thread
  MaxItems = 2
SPECIFICATION MCSpec
CHECK_DEADLOCK FALSE
INVARIANTS
  CompleteWhenNotified
  OneLookupAtATime
PROPERTIES
  EndIsToldUnlessMissed
  WaitsEnd
