\* One run; the host kept a row numbered 2 from before the watermark.
SPECIFICATION EventSpec
CONSTANTS
    Run = {r1}
    NoRun = NoRun
    Island = {2}
    MaxTaken = 3
    MaxClock = 3
    MaxUnsaved = 1
    MaxRewinds = 1
CHECK_DEADLOCK FALSE
INVARIANTS
    NumbersAdvance
    LostOnlyToTwins
    StoredOnce
