SPECIFICATION FairSpec
CONSTANTS
    daemon = daemon
    cli = cli
    NoTask = 0
    Tasks = {1, 2, 3}
    Procs = {daemon, cli}
    MaxCalls = 3
INVARIANTS
    TypeOK
    CycleNeedsARace
    StuckBoardHasACause
PROPERTIES
    CloseNeverStarves
    DeleteOrphansNobody
CHECK_DEADLOCK FALSE
