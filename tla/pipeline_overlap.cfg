SPECIFICATION Spec
CONSTANTS
    N = 3
    Gated = {2}
    Conditional = {1, 2}
    r1 = r1
    c1 = c1
    Runners = {r1, c1}
    Clis = {c1}
    ResumeOnRestart = TRUE
    SlowSteps = TRUE
    OneAtATime = FALSE
    MaxCalls = 4
CHECK_DEADLOCK FALSE
INVARIANTS
    TypeOK
    GatesHold
    CompletedMeansCleared
    RowsInOrder
PROPERTIES
    ImplementsContract
