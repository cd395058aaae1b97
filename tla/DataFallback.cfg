SPECIFICATION FairSpec
CONSTANTS
  MaxStreams = 1
  MaxChannels = 1
  MaxFaults = 1
PROPERTIES BrokenFallsBack
CHECK_DEADLOCK FALSE
