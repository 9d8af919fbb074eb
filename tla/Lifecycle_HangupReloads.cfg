CONSTANTS
  Builds <- MCBuilds
  Configs <- MCConfigs
SPECIFICATION LifecycleSpec
INVARIANT HangupReloads
CHECK_DEADLOCK FALSE
