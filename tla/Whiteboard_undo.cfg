SPECIFICATION Spec
CONSTANTS
  Peers = {a, b}
  FirstHost = a
  FirstDrawer = a
  None = None
  MaxHosts = 1
  MaxGestures = 2
  MaxLocks = 0
  MaxBreaks = 0
  MaxCrashes = 1
  MaxMisses = 0
  FreshHosts = FALSE
  Cap = 9
  LogCap = 1

PROPERTIES BoardsAlwaysConverge
CHECK_DEADLOCK FALSE
