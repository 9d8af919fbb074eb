SPECIFICATION Spec
CONSTANTS
  NSig = 2
  MaxArrivals = 3
INVARIANT NothingForgotten
PROPERTY NullCallOnlyWhileRegistering
CHECK_DEADLOCK FALSE
