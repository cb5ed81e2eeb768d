SPECIFICATION Spec
CONSTANTS
    user = user
    MaxRuns = 2
    Users = {user}
    Nobody = Nobody
    Isolated = {}
    EscalateAfter = 2
    MaxCalls = 0
INVARIANTS
    TypeOK
    
PROPERTIES
    DeadAgentsTaskReleased
CHECK_DEADLOCK FALSE
