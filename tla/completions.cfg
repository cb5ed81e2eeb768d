SPECIFICATION FairSpec
CONSTANTS
    p1 = p1
    p2 = p2
    a1 = a1
    Pipelines = {p1, p2}
    Resumable = {p2}
    Agents = {a1}
    Sessions = {1, 2}
    Nobody = 0
    MaxRuns = 1
    MaxResumes = 1
    MaxCrashes = 2
INVARIANTS
    TypeOK
    
    

    
    
CHECK_DEADLOCK FALSE
