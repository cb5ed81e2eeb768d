SPECIFICATION FairSpec
CONSTANTS
    Branches = {x, y}
    Existing = {y}
    Agents = {a1, a2}
    Callers = {c1}
    None = None
    MaxOps = 4
    MaxCrashes = 1
INVARIANTS
    TypeOK
    LostWorkHasACause
    
PROPERTIES
    NobodyIsEvicted
    ExpiredIsReaped
CHECK_DEADLOCK FALSE
