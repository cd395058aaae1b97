SPECIFICATION Spec
CONSTANTS
  Node = {1, 2, 3}
  None = None
  AutoElect = TRUE
  InitialConns <- LateJoiner
  AutoNodes = {1, 3}
  Assignable = {1}
  MaxToggles = 0
  SendQueueCapacity = 2
  BeatBacklog = 0
  MaxTerm = 3
  MaxAssigns = 1
  MaxDisruptions = 0
  MaxConnects = 2
  MaxRestarts = 0

PROPERTIES ManualLeaderStays
CHECK_DEADLOCK FALSE
