CONSTANTS
  Bases <- SomeBases
  LOG_LINE_LIMIT_MIN = 1
  LOG_LINE_LIMIT_MAX = 2
  Limits = {0, 2}
  MonthLength = 2
  MaxDay = 3
  MaxLines = 3
  MaxPid = 2
  MaxCalls = 5
SPECIFICATION Spec
INVARIANTS FlushedLinesStay LinesAreCounted NumbersAreInOrder NotInOlderFile
CHECK_DEADLOCK FALSE
