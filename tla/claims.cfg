SPECIFICATION FairSpec
CONSTANTS
    t1 = t1
    t2 = t2
    Sessions = {1, 2}
    Tasks = {t1, t2}
    Nobody = 0
    NoTask = NoTask
    MaxAttempts = 2
    MaxCalls = 3
    MaxEdits = 1
INVARIANTS
    TypeOK
    HeldIsKnown
PROPERTIES
    StopLeavesNothingBehind
    EveryTurnEnds
CHECK_DEADLOCK FALSE
