SPECIFICATION Spec
CONSTANTS
  MaxReconnectAttempts = 2
  MaxTries = 2
  Episodes = {1, 2}
  MaxConnects = 1
  MaxLosses = 2
  MaxLeaves = 0
  MaxRequests = 0
  MaxDisconnects = 0
  DisconnectAnywhere = FALSE
INVARIANT ConnectedHasSignal
CHECK_DEADLOCK FALSE
