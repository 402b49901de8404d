\* One task; two models, one dying process.
SPECIFICATION FairSpec
CONSTANTS
    Op <- MCOp
    NoOp = NoOp
    Kind <- MCKind
    Files <- MCFiles
    Ladder <- MCLadder
    MaxSteps = 4
    Plans <- MCPlans
    MaxCrashes = 1
    MaxReopens = 1
CHECK_DEADLOCK FALSE
INVARIANTS
    ResultIsOwn
    OneRunPerTier
PROPERTIES
    DecidedRunStays
    EveryCommandEnds
