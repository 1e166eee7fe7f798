SPECIFICATION FairSpec
CONSTANTS
  SeqSpace = 16
  WindowMax = 7
  INITIAL_WINDOW_SIZE = 4
  MAX_SEGMENT_SIZE = 1
  SLOW_START_TRESHOLD = 1
  NagleZero = TRUE
  DebugAssertions = FALSE
  Isn <- MCIsn
  Calls <- MCEcho
  MaxWritten <- MCWritten11
  Writes = {1}
  Reads = {1}
  Orderly = TRUE
  LongTimewait = TRUE
  Faults = {"lose"}
  MaxFaults = 1
  MaxInFlight = 2
PROPERTY Reply
CHECK_DEADLOCK FALSE
