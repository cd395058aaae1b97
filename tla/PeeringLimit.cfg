SPECIFICATION Spec
CONSTANTS
  Node = {a, b, c}
  a = a
  b = b
  c = c
  MaxConnections = 1
  MaxRetries = 1
  AttemptMax = 2
  MaxStreams = 2
  MaxCalls = 2
  MaxDisconnects = 0
  MaxFaults = 0
  MaxToggles = 0
SYMMETRY Exchangeable
INVARIANTS LimitRespected
CHECK_DEADLOCK FALSE
