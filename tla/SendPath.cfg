SPECIFICATION Spec
CONSTANTS
  MinSize = 2
  Size = 6
  Lengths = {2, 4}
  HeaderLen = 1
  IdentityLen = 2
  Room = 3
  MaxStream = 7
  MaxLite = 1
INVARIANTS InSync DiscardedWithReason
PROPERTIES OverrunIsUnprecedented AllIsSent
CHECK_DEADLOCK FALSE
