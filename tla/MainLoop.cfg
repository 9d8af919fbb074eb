SPECIFICATION LoopSpec
CONSTANTS
  NSig = 3
  MaxArrivals = 4
  Table <- MCTable
  Config <- MCConfig
INVARIANTS HandledBeforeLeaving NeverCrashes
PROPERTIES ExitSignalStops ArrivalsAreHandled
CHECK_DEADLOCK FALSE
