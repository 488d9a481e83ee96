SPECIFICATION Spec
CONSTANTS
  Peers = {a, b}
  FirstHost = a
  FirstDrawer = b
  None = None
  MaxHosts = 2
  MaxGestures = 1
  MaxLocks = 0
  MaxBreaks = 1
  MaxCrashes = 1
  MaxMisses = 0
  FreshHosts = FALSE
  Cap = 9
  LogCap = 2
INVARIANTS DrawnOnce
PROPERTIES BoardsConverge
CHECK_DEADLOCK FALSE
