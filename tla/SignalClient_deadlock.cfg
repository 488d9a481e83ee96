SPECIFICATION Spec
CONSTANTS
    MaxConns = 2
    MaxSends = 2
    MaxSaid = 2
    MaxDeaths = 1
INVARIANTS
    IoNeverBlocks
CHECK_DEADLOCK FALSE
