CONSTANTS
    None = None
    Files <- MCFiles
    Wanted <- MCWanted
    Frames <- MCFrames
    Leftovers <- MCLeftovers
    MaxId <- MCMaxId

SPECIFICATION Spec

INVARIANTS
    TypeOK
    TableMatchesFile
    BitsAsDefined
    AllSignalsOnce

\* Without a DBC file, or with one that does not convert, the gateway stops.
CHECK_DEADLOCK FALSE
