CONSTANTS
    MaxRows = 3
    Limit = 2
    Unreadable <- MCUnreadable
    MaxStores = 6
    MaxFailures = 1

SPECIFICATION Spec

INVARIANTS
    TypeOK
    NewestKept
    SentWereDelivered
    ReadableNotBlocked

PROPERTIES
    Implements
