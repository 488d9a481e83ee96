SPECIFICATION FairSpec
CONSTANTS
    MaxConns = 2
    MaxSends = 2
    MaxSaid = 2
    MaxDeaths = 1
INVARIANTS
    NeverTwice
    EventsInOrder
PROPERTIES
    DeathIsReported
    QueueDrains
    GoneReleases
CHECK_DEADLOCK FALSE
