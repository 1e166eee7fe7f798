SPECIFICATION FairSpec
CONSTANTS
  SeqSpace = 16
  WindowMax = 7
  INITIAL_WINDOW_SIZE = 4
  MAX_SEGMENT_SIZE = 1
  SLOW_START_TRESHOLD = 1
  NagleZero = TRUE
  DebugAssertions = FALSE
  Isn <- MCIsn
  Calls <- MCOrderly
  MaxWritten <- MCWritten20
  Writes = {1}
  Reads = {1}
  Orderly = TRUE
  LongTimewait = TRUE
  Faults = {"lose", "copy", "overtake"}
  MaxFaults = 1
  MaxInFlight = 2
INVARIANTS NoPanic
PROPERTIES Delivery Termination
CHECK_DEADLOCK FALSE
