SPECIFICATION FairSpec
CONSTANTS
  SeqSpace = 16
  WindowMax = 7
  INITIAL_WINDOW_SIZE = 2
  MAX_SEGMENT_SIZE = 1
  SLOW_START_TRESHOLD = 1
  NagleZero = TRUE
  DebugAssertions = FALSE
  Clients = {"c1"}
  Acceptors = {"a1"}
  Backlog = 1
  ClientIsns <- MCIsns2
  ServerIsns <- MCServerIsns
  Calls = {"abort"}
  ServerCalls = {"abort"}
  Faults = {"lose", "copy"}
  MaxFaults = 1
  MaxInFlight = 1
PROPERTY Settles
CHECK_DEADLOCK FALSE
