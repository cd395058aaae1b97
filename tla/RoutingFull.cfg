SPECIFICATION Spec
CONSTANTS
  Node <- MCNode
  None = 0
  AutoElect = TRUE
  UserStart = 1
  Envelope = 1
  Limit <- MCLimit
  QueueSize = 1
  Data <- MCData
  Threshold = 1
  Thresholds = {3}
  MaxSends = 2
  MaxChanges = 0
PROPERTIES FullQueueReported
CHECK_DEADLOCK FALSE
