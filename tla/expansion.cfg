SPECIFICATION FairSpec
CONSTANTS
    MaxSubtasks = 3
    MaxPhase = 1
    MaxDeps = 2
    MaxTries = 2

    
    
    
PROPERTIES
    AllWorkGetsDone
CHECK_DEADLOCK FALSE
