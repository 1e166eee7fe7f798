SPECIFICATION Spec
CONSTANTS
  SeqSpace = 16
  WindowMax = 7
  INITIAL_WINDOW_SIZE = 2
  MAX_SEGMENT_SIZE = 1
  SLOW_START_TRESHOLD = 1
  NagleZero = TRUE
  DebugAssertions = TRUE
  Isn <- MCIsn
  Calls <- MCOneWay
  MaxWritten <- MCWritten20
  Writes = {1}
  Reads = {1}
  Orderly = FALSE
  LongTimewait = FALSE
  Faults = {}
  MaxFaults = 0
  MaxInFlight = 2
INVARIANT TransitionsValid
CHECK_DEADLOCK FALSE
