\* Three rows, pages of two, two broken connections.
SPECIFICATION FairSpec
CONSTANTS
    PageSize = 2
    MaxRows = 3
    MaxLoose = 1
    MaxBreaks = 2
CHECK_DEADLOCK FALSE
INVARIANTS
    SkippedOnlySilently
PROPERTIES
    SendsForward
    RowsShown
