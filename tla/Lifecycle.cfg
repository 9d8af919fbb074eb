CONSTANTS
  Builds <- MCBuilds
  Configs <- MCConfigs
SPECIFICATION LifecycleSpec
INVARIANTS UsedWhileThere NothingLeft BusinessEndsFirst
CHECK_DEADLOCK FALSE
