SPECIFICATION FairSpec
CONSTANTS
  MaxReconnectAttempts = 2
  MaxTries = 2
  Episodes = {1, 2}
  MaxConnects = 2
  MaxLosses = 1
  MaxLeaves = 1
  MaxRequests = 1
  MaxDisconnects = 1
  DisconnectAnywhere = FALSE
PROPERTIES ReconnectingEnds ServerLeaveCompletes ServerLeaveNeverRejoined ListenerOrder
INVARIANTS SessionOwnership OneReconnectOwner RetirementIsFinal UserLeaveIsFinal
CHECK_DEADLOCK FALSE
