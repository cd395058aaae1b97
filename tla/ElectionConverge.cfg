SPECIFICATION FairSpec
CONSTANTS
  Node = {1, 2}
  None = None
  AutoElect = TRUE
  InitialConns <- FullMesh
  AutoNodes = {1, 2}
  Assignable = {}
  MaxToggles = 0
  SendQueueCapacity = 2
  BeatBacklog = 1
  MaxTerm = 4
  MaxAssigns = 0
  MaxDisruptions = 0
  MaxConnects = 0
  MaxRestarts = 0

PROPERTIES EventuallyAgree
CHECK_DEADLOCK FALSE
