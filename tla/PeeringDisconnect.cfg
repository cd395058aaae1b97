SPECIFICATION Spec
CONSTANTS
  Node = {a, b}
  a = a
  b = b
  MaxConnections = 1
  MaxRetries = 1
  AttemptMax = 2
  MaxStreams = 2
  MaxCalls = 1
  MaxDisconnects = 1
  MaxFaults = 1
  MaxToggles = 0
PROPERTIES NoReconnectAfterDisconnect
CHECK_DEADLOCK FALSE
