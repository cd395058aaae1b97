SPECIFICATION Spec
CONSTANTS
  Node = {1, 2}
  None = None
  AutoElect = TRUE
  InitialConns <- FullMesh
  AutoNodes = {1}
  Assignable = {2}
  MaxToggles = 1
  SendQueueCapacity = 1
  BeatBacklog = 1
  MaxTerm = 2
  MaxAssigns = 1
  MaxDisruptions = 1
  MaxConnects = 1
  MaxRestarts = 1
INVARIANTS TypeOK RoleConsistent
PROPERTIES TermsGrow ManualLeaderHolds
CHECK_DEADLOCK FALSE
