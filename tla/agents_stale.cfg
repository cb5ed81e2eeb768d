SPECIFICATION Spec
CONSTANTS
    user = user
    MaxRuns = 1
    Users = {user}
    Nobody = Nobody
    Isolated = {}
    EscalateAfter = 2
    MaxCalls = 1
PROPERTIES
    ResetsOnlyOrphans
CHECK_DEADLOCK FALSE
