CONSTANTS
    s1 = s1
    s2 = s2
    NaN = NaN
    None = None
    Signals <- MCSignals
    Scores <- MCScores
    Threshold <- MCThreshold
    EventShapes = {"flat", "wrapped"}
    MaxInvocations <- MCTwice

SPECIFICATION FairSpec

INVARIANTS
    TypeOK
    HumanFirst
    StatusTruthful
PROPERTIES
    Implements
    EverySignalJudged

\* The gateway stops, and the invocations end.
CHECK_DEADLOCK FALSE
