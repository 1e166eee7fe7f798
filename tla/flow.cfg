SPECIFICATION Spec
CONSTANTS
  SeqSpace = 16
  WindowMax = 7
  INITIAL_WINDOW_SIZE = 2
  MAX_SEGMENT_SIZE = 1
  SLOW_START_TRESHOLD = 1
  NagleZero = TRUE
  DebugAssertions = FALSE
  Isn <- MCIsn
  Calls <- MCSendRecv
  MaxWritten <- MCWritten40
  Writes = {1}
  Reads = {1}
  Orderly = FALSE
  LongTimewait = FALSE
  Faults = {"lose", "copy"}
  MaxFaults = 2
  MaxInFlight = 2
INVARIANTS FlowControl IsByteQueue
CHECK_DEADLOCK FALSE
