\* Two calls of which the turn takes one or two, five events of the provider, one retry.
SPECIFICATION TurnSpec
CONSTANTS
    k1 = k1
    k2 = k2
    i1 = i1
    i2 = i2
    None = None
    Key = {k1, k2}
    Id = {i1, i2}
    Name = {n1}
    Objects = {2}
    MaxBytes = 2
    CallsPerTurn = 2
    CallsPerRun = 2
    MaxOutput = 2
    ProviderRetries = 1
    MaxEvents = 5
SYMMETRY Symmetry
CHECK_DEADLOCK FALSE
INVARIANTS
    CallsAreWhole
    FragmentsOnce
    OneStreamHeard
