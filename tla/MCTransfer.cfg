CONSTANTS
  Threads = {t1, t2, t3}
  Items = {a, b}
  MaxItems = 3
  Hosts = 2
  PipeSize = 2
  MaxTake = 2
  MaxWrites = 3
  MaxOpens = 2
SPECIFICATION MCSpec
INVARIANTS
  TypeOK
  NoLostWakeup
  NoStuckOutput
  CloseLosesNothing
PROPERTIES
  ImplementsChannel
  OpenSettles
  CloseReturns
