SPECIFICATION FairSpec
CONSTANTS
  Node = {a, b}
  a = a
  b = b
  MaxConnections = 1
  MaxRetries = 1
  AttemptMax = 2
  MaxStreams = 2
  MaxCalls = 1
  MaxDisconnects = 0
  MaxFaults = 1
  MaxToggles = 0
PROPERTIES OneSidedEnds ConnectionKnown
CHECK_DEADLOCK FALSE
