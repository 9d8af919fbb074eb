CONSTANTS
  Clients = {"c1", "c2"}
  Servers = {"upstream"}
  Group <- MCGroup
  Objects <- MCObjects
  Fds <- MCFds
  MaxListened = 3
  MaxLeaks = 1
SPECIFICATION Spec
CHECK_DEADLOCK FALSE
INVARIANTS RegistryAgrees EventsAreLive CacheAgrees PickFindsAlive
PROPERTIES RefusedOnlyWhileHeld UpstreamReconnected
