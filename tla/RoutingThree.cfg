SPECIFICATION FairSpec
CONSTANTS
  Node <- MCNode
  None = 0
  AutoElect = TRUE
  UserStart = 1
  Envelope = 1
  Limit <- MCLimit
  QueueSize = 1
  Data <- MCData
  Threshold = 1
  Thresholds = {3}
  MaxSends = 1
  MaxChanges = 1
INVARIANTS TypeOK AtMostOnce DeliveredIntact RefusedNotSent PacketsFit NothingLost
PROPERTIES ReachesAll
CHECK_DEADLOCK FALSE
