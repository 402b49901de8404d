\* The host kept a row numbered 2; no write fails, nothing is delivered twice.
SPECIFICATION EventSpec
CONSTANTS
    Run = {r1}
    NoRun = NoRun
    Island = {2}
    MaxTaken = 3
    MaxClock = 3
    MaxUnsaved = 0
    MaxRewinds = 0
CHECK_DEADLOCK FALSE
INVARIANTS
    NewEventsKept
