SPECIFICATION Spec
CONSTANTS
  MinSize = 2
  Sizes = {1, 3, 4}
  MaxStream = 7
INVARIANTS Positions Integrity
PROPERTY ImplementsQueue
