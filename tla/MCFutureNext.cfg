CONSTANTS
  Futures = {f1}
  Threads = {t1, t2}
SPECIFICATION Spec
CHECK_DEADLOCK FALSE
PROPERTY
  ReleaseCompletes
