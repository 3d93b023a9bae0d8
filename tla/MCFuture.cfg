CONSTANTS
  Futures = {f1, f2}
  Threads = {t1, t2}
SPECIFICATION Spec
CHECK_DEADLOCK FALSE
INVARIANTS
  PendingBalance
  ReadyMeansFinished
  NoDanglingObserver
PROPERTIES
  NextReturns
  WaitReturnsUnlessLost
