CONSTANTS
  Workers = {w1, w2}
  Jobs = {j1, j2, j3}
  YieldingJobs = {j1}
  SpawnedJobs = {j3}
  Pool = Pool
SPECIFICATION Spec
CHECK_DEADLOCK FALSE
INVARIANTS
  GoneIsQuiet
  SentinelBalance
PROPERTIES
  DeinitCompletesUnlessSwallowed
  ImplementsJobPool
