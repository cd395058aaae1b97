SPECIFICATION FairSpec
CONSTANTS
  Node = {1, 2}
  None = None
  AutoElect = TRUE
  InitialConns <- FullMesh
  AutoNodes = {1, 2}
  Assignable = {}
  MaxToggles = 0
  SendQueueCapacity = 2
  BeatBacklog = 1
  MaxTerm = 2
  MaxAssigns = 0
  MaxDisruptions = 1
  MaxConnects = 0
  MaxRestarts = 0

PROPERTIES LostLeaderReplaced
CHECK_DEADLOCK FALSE
