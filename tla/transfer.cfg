SPECIFICATION Spec
CONSTANTS
  SeqSpace = 16
  WindowMax = 7
  INITIAL_WINDOW_SIZE = 2
  MAX_SEGMENT_SIZE = 1
  SLOW_START_TRESHOLD = 1
  NagleZero = TRUE
  DebugAssertions = FALSE
  Isn <- MCIsn
  Calls <- MCAbort
  MaxWritten <- MCWritten20
  Writes = {1}
  Reads = {1}
  Orderly = FALSE
  LongTimewait = FALSE
  Faults = {"lose", "copy", "overtake"}
  MaxFaults = 1
  MaxInFlight = 2
INVARIANTS TypeOK StreamIntegrity EofSound AckSound
PROPERTY ToServer
CHECK_DEADLOCK FALSE
