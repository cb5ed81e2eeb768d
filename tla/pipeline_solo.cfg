SPECIFICATION FairSpec
CONSTANTS
    N = 3
    Gated = {1, 3}
    Conditional = {2, 3}
    r1 = r1
    c1 = c1
    Runners = {r1, c1}
    Clis = {c1}
    ResumeOnRestart = FALSE
    SlowSteps = FALSE
    OneAtATime = TRUE
    MaxCalls = 5
CHECK_DEADLOCK FALSE
INVARIANTS
    CompletedMeansDone
    PausedIsApprovable
PROPERTIES
    DoneStaysDone
    RunSettles
