\* Two calls of any policy in a run's batches, one of which a person must allow.
SPECIFICATION FairSpec
CONSTANTS
    c1 = c1
    c2 = c2
    Calls = {c1, c2}
    NoCall = NoCall
    Gated = {c1}
    Parallel = {c1, c2}
    MaxTurns = 1
    MaxAttempts = 2
    Sweeper = TRUE
    MaxBoots = 2
    MaxStops = 1
    MaxRetries = 1
CHECK_DEADLOCK FALSE
INVARIANTS
    NeverRepeated
    AllowedEachTime
PROPERTIES
    ResultsAreFinal
    LeasedRunSettles
