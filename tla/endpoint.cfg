SPECIFICATION Spec
CONSTANTS
  SeqSpace = 8
  WindowMax = 5
  INITIAL_WINDOW_SIZE = 2
  MAX_SEGMENT_SIZE = 1
  SLOW_START_TRESHOLD = 1
  NagleZero = TRUE
  DebugAssertions = FALSE
  Segments <- MCSegments
  Isns = {6}
  Writes <- MCWrites
  Reads = {1}
  MaxQueued = 1
INVARIANTS TypeOK ReTxOrdered RetransmitArmed TimersReachable NoOrphanWaiters
  MethodInvariant
PROPERTIES AckNeverRetreats SenderWokenByAck FinKept
CHECK_DEADLOCK FALSE
