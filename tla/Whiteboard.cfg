SPECIFICATION Spec
CONSTANTS
  Peers = {a, b, c}
  FirstHost = a
  FirstDrawer = None
  None = None
  MaxHosts = 2
  MaxGestures = 1
  MaxLocks = 1
  MaxBreaks = 0
  MaxCrashes = 0
  MaxMisses = 0
  FreshHosts = FALSE
  Cap = 2
  LogCap = 1
INVARIANTS OneLog NoStaleGesture
PROPERTIES OneAuthority
SYMMETRY Symmetry
CHECK_DEADLOCK FALSE
