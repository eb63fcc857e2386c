CONSTANTS
    f = f
    a = a
    t1 = t1
    t2 = t2
    t3 = t3
    Images <- MCImages
    Factory = f
    Triggers <- MCTriggers
    ImageOf <- MCImageOf
    BadManifest = BadManifest
    Torn = Torn
    None = None
    MaxIssued = 2
    MaxCrashes = 2

SPECIFICATION FairSpec

INVARIANTS
    TypeOK
    OnlyRequestedInstalled
    BackupHoldsPrevious

PROPERTIES
    CompleteMeansInstalled
    FailedMeansUntouched
    Implements
    EveryTriggerTaken
    OnlyBrokerHoldsUpStop

\* The process ends when stop() has returned, and stays dead after the last crash.
CHECK_DEADLOCK FALSE
