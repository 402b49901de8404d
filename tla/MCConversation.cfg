\* A session with and without earlier runs, seven messages; one process dies, one stop, one resume.
SPECIFICATION Spec
CONSTANTS
    Splice = {0, 2}
    Sizes = {1, 3}
    Large = 3
    Pointer = 1
    Prefix = 1
    Summary = 1
    Budget = 8
    Threshold = 4
    MinCover = 2
    KeepRecent = 1
    MaxCalls = 2
    MaxRetries = 1
    MaxMessages = 7
    MaxCrashes = 1
    MaxStops = 1
    MaxResumes = 1
CHECK_DEADLOCK FALSE
INVARIANTS
    GoalIsSent
    PairsAreWhole
PROPERTIES
    LeavesAllItSaid
    FoldedStaysFolded
