SPECIFICATION Spec
CONSTANTS
  Node = {a, b}
  a = a
  b = b
  MaxConnections = 1
  MaxRetries = 1
  AttemptMax = 2
  MaxStreams = 2
  MaxCalls = 2
  MaxDisconnects = 0
  MaxFaults = 0
  MaxToggles = 0
PROPERTIES KeepsExisting
CHECK_DEADLOCK FALSE
