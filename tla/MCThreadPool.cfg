CONSTANTS
  Worker = {w1, w2}
  Task = {k1, k2, k3}
  NULL = NULL
SPECIFICATION FairSpec
INVARIANTS TaskConservation
PROPERTIES AcceptedTasksRun
CHECK_DEADLOCK FALSE
