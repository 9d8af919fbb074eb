SPECIFICATION Spec
CONSTANTS
  MinSize = 2
  Ends <- MCEnds
  HeaderLen = 2
  Size = 5
  MaxPerRound = 4
  kMaxErrorSeconds = 2
INVARIANTS InSync WholePackets
PROPERTIES GivenUpWhenLate EveryPacketHandled
CHECK_DEADLOCK FALSE
