SPECIFICATION FairSpec
CONSTANTS
  MaxStreams = 2
  MaxChannels = 2
  MaxFaults = 1
INVARIANTS TypeOK SlotBacked SlotUsable
PROPERTIES DataEndsTogether MutedEntryEnds
CHECK_DEADLOCK FALSE
