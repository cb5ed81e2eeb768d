SPECIFICATION FairSpec
CONSTANTS
    user = user
    MaxRuns = 1
    Users = {user}
    Nobody = Nobody
    Isolated = {1}
    EscalateAfter = 2
    MaxCalls = 2
PROPERTIES
    RunSettles
    OrphanIsRecovered
CHECK_DEADLOCK FALSE
