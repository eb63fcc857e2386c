CONSTANTS
    p1 = p1
    p2 = p2
    c1 = c1
    c2 = c2
    c3 = c3
    Producers <- MCProducers
    Consumers <- MCConsumers
    Method <- MCMethod
    MaxPush = 1
    Nobody = Nobody

SPECIFICATION FairSpec

INVARIANTS
    TypeOK
    NoLostWakeup

PROPERTIES
    Implements
    NoItemStranded
    ShutdownReleases

\* Blocked consumers wait for ever once every push is done.
CHECK_DEADLOCK FALSE
