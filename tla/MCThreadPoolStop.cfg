CONSTANTS
  Worker = {w1, w2}
  Task = {k1, k2}
  NULL = NULL
SPECIFICATION FairSpec
PROPERTY StopReturns
CHECK_DEADLOCK FALSE
