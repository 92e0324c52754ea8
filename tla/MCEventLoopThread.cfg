CONSTANTS
  lt = lt
  p1 = p1
  p2 = p2
  n1 = n1
  n2 = n2
  n3 = n3
  Thread = {lt, p1, p2}
  Loop = lt
  Owner = p1
  Item = {f, started}
  Started = started
  Node = {n1, n2, n3}
  NULL = NULL
  EventfdMax = 1
  MaxCalls <- const_MaxCalls
SPECIFICATION MCSpec
\* The program ends with the destructor.
CHECK_DEADLOCK FALSE
INVARIANTS NoDanglingAccess EmptyOnlyInFlight NoLostWakeup NoLostQuit
PROPERTIES ImplementsFifo FunctorsRun QuitEndsLoop StartsAndStops
