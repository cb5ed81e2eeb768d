SPECIFICATION FairSpec
CONSTANTS
    j1 = j1
    j2 = j2
    NoJob = NoJob
    Jobs = {j1, j2}
    Once = {j2}
    Runs = {1, 2, 3}
    MaxConcurrent = 2
    MaxFailures = 1
    MaxCalls = 2
INVARIANTS
    ScheduledWithinLimit
    OneShotFiresOnce
PROPERTIES
    DueJobsAreDispatched
CHECK_DEADLOCK FALSE
