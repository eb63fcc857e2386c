CONSTANTS
    MaxFrames = 2
    MaxCommands = 2
    Undecoded <- MCUndecoded
    Triggers <- MCTriggers

SPECIFICATION FairSpec

INVARIANTS
    TypeOK
    OnlyDestructorUsesClosed
    NothingLost

PROPERTIES
    OnlyBrokerHoldsUpShutdown
    EveryItemTaken

CHECK_DEADLOCK FALSE
