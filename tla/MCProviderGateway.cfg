\* Three turns through two slots, one of them degradable, with a retry each.
SPECIFICATION FairSpec
CONSTANTS
    t1 = t1
    t2 = t2
    t3 = t3
    Turn = {t1, t2, t3}
    Degradable = {t1}
    MaxConcurrency = 2
    MinSamples = 2
    FailureRate = 50
    MaxRetries = 1
    Burst = 1
    Window = 2
CHECK_DEADLOCK FALSE
INVARIANTS
    SlotsConserved
    ProbeHeldByCall
PROPERTIES
    TurnsEnd
