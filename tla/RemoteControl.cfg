SPECIFICATION FairSpec
CONSTANTS
  Nodes = {a, b}
  Requesters = {a}
  None = None
  MaxPending = 2
  QueueCap = 1
  MaxEvents = 3
INVARIANTS OnlyApprovedInput NoStaleInput NeverProtocolError
PROPERTIES EndsTogether InputResumes
CHECK_DEADLOCK FALSE
