SPECIFICATION Spec
CONSTANTS
  SeqSpace = 16
  WindowMax = 7
  INITIAL_WINDOW_SIZE = 2
  MAX_SEGMENT_SIZE = 1
  SLOW_START_TRESHOLD = 1
  NagleZero = TRUE
  DebugAssertions = FALSE
  Clients = {"c1"}
  Acceptors = {a1, a2}
  Backlog = 2
  ClientIsns <- MCIsns1
  ServerIsns <- MCServerIsns
  Calls = {"send"}
  ServerCalls = {"recv"}
  Faults = {"lose","copy"}
  MaxFaults = 1
  MaxInFlight = 1
INVARIANTS ListenTypeOK NoLostWakeup BacklogSound HandshakeAgrees
SYMMETRY Interchangeable
CHECK_DEADLOCK FALSE
