SPECIFICATION FairSpec
CONSTANTS
  Node = {1, 2}
  None = None
  AutoElect = TRUE
  InitialConns <- FullMesh
  AutoNodes = {1, 2}
  Assignable = {2}
  MaxToggles = 0
  SendQueueCapacity = 2
  BeatBacklog = 1
  MaxTerm = 5
  MaxAssigns = 1
  MaxDisruptions = 1
  MaxConnects = 0
  MaxRestarts = 0

PROPERTIES LeaderlessEnds
CHECK_DEADLOCK FALSE
