SPECIFICATION Spec
CONSTANTS
  Node = {1, 2, 3}
  None = None
  AutoElect = TRUE
  InitialConns <- FullMesh
  AutoNodes = {1, 3}
  Assignable = {}
  MaxToggles = 0
  SendQueueCapacity = 2
  BeatBacklog = 1
  MaxTerm = 2
  MaxAssigns = 0
  MaxDisruptions = 0
  MaxConnects = 0
  MaxRestarts = 0
INVARIANTS VotesBacked BallotRemembered ElectionSafety
PROPERTY ImplementsBox
CHECK_DEADLOCK FALSE
