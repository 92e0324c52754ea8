SPECIFICATION Spec
CONSTANTS
  SizeClass <- const_SizeClass
  MinCapacity = 2
  CALCULATE_THRESHOLD = 8
  m_maxCapacity = 16
  ExtraBuf = 4
  Line <- const_Line
  MaxLines = 4
  InitialCapacity = 3
CHECK_DEADLOCK FALSE
INVARIANTS RequestsHandled BytesKept OneAnswerEach
