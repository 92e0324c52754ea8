SPECIFICATION FairSpec
CONSTANTS
  Task = {a, b}
  Delay = {1, 3, 4, 6}
  m_tickMs = 2
  m_wheelSize = 3
  Levels = 2
  threadNum = 2
  StartMs = 1
  MaxTime = 9
CHECK_DEADLOCK FALSE
PROPERTIES AddedTasksRun
