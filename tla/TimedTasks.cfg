CONSTANTS
  MaxName = 3
  Infos <- MCInfos
  EventTimes = {1}
  MIN_TRIGGER_INTERVAL = 1
  MAX_TRIGGER_INTERVAL = 2
  MaxTime = 3
  MaxCalls = 5
SPECIFICATION Spec
INVARIANTS RoundIsComplete PeriodCountsFromStart ArmedRunsOnce
PROPERTY DueRuns
CHECK_DEADLOCK FALSE
