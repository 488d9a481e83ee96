SPECIFICATION FairSpec
CONSTANTS
  MaxJoins = 2
  MaxBlips = 1
  MaxFailures = 1
INVARIANTS OneSession
PROPERTIES LeavingIsFinal NothingHangs RoomsReleased
CHECK_DEADLOCK FALSE
