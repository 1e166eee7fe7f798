SPECIFICATION FairSpec
CONSTANTS
  SeqSpace = 16
  WindowMax = 7
  INITIAL_WINDOW_SIZE = 2
  MAX_SEGMENT_SIZE = 1
  SLOW_START_TRESHOLD = 1
  NagleZero = TRUE
  DebugAssertions = TRUE
  Isn <- MCIsnInside
  Calls <- MCConnectClose
  MaxWritten <- MCWritten00
  Writes = {1}
  Reads = {1}
  Orderly = FALSE
  LongTimewait = FALSE
  Faults = {}
  MaxFaults = 0
  MaxInFlight = 2
PROPERTY HalfOpenReset
CHECK_DEADLOCK FALSE
