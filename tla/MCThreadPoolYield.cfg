CONSTANTS
  Workers = {w1, w2}
  Jobs = {j1, j2}
  YieldingJobs = {j1}
  SpawnedJobs = {}
  Pool = Pool
SPECIFICATION Spec
CHECK_DEADLOCK FALSE
PROPERTY
  DeinitCompletes
