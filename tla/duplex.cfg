SPECIFICATION Spec
CONSTANTS
  SeqSpace = 16
  WindowMax = 7
  INITIAL_WINDOW_SIZE = 2
  MAX_SEGMENT_SIZE = 1
  SLOW_START_TRESHOLD = 1
  NagleZero = TRUE
  DebugAssertions = FALSE
  Isn <- MCIsn
  Calls <- MCDuplex
  MaxWritten <- MCWritten11
  Writes = {1}
  Reads = {1}
  Orderly = FALSE
  LongTimewait = FALSE
  Faults = {"lose", "overtake"}
  MaxFaults = 1
  MaxInFlight = 2
INVARIANTS StreamIntegrity EofSound AckSound StreamInvariant
PROPERTY ToClient
CHECK_DEADLOCK FALSE
