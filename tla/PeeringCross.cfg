SPECIFICATION FairSpec
CONSTANTS
  Node = {a, b}
  a = a
  b = b
  MaxConnections = 2
  MaxRetries = 1
  AttemptMax = 2
  MaxStreams = 2
  MaxCalls = 2
  MaxDisconnects = 0
  MaxFaults = 0
  MaxToggles = 1
PROPERTIES OneSidedEnds
CHECK_DEADLOCK FALSE
