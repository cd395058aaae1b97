SPECIFICATION FairSpec
CONSTANTS
  p1 = p1
  p2 = p2
  Peer = {p1, p2}
  Self = self
  Flaky = p1
  LeaderCap = 1
  RingCap = 1
  ReconnectCap = 1
  QueueCap = 1
  MaxChanges = 4
PROPERTIES DepartedLeaderForgotten
CHECK_DEADLOCK FALSE
