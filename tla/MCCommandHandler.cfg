CONSTANTS
    m1 = m1
    m2 = m2
    m3 = m3
    m4 = m4
    m5 = m5
    i1 = i1
    i2 = i2
    i3 = i3
    i4 = i4
    i5 = i5
    Messages <- MCMessages
    KindOf <- MCKinds
    IdOf <- MCIds
    None = None
    MaxSeen = 1
    MaxSent = 2
    MaxDeliveries = 2
    MaxStarts = 2

SPECIFICATION FairSpec

INVARIANTS
    TypeOK
    NoDoubleExecution

PROPERTIES
    Implements
    EveryMessageConsumed
    StopReturns

\* The process is down for good after its last start.
CHECK_DEADLOCK FALSE
