SPECIFICATION FairSpec
CONSTANTS
  Node = {1, 2, 3, 4}
  Session <- OneSession
  MaxConnections = 2
  MaxRetries = 1
  Early = {1, 2, 4}
  Advertising = {2}
  Browsing = {2}
  Address <- Known
  MaxDials = 3
  MaxTrouble = 1
INVARIANTS TypeOK SessionsApart
PROPERTIES MeshForms
CHECK_DEADLOCK FALSE
