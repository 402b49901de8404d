\* One command, an analysis that may be cancelled or an answer that the buyer may queue
\* again, with every loss, restart and repetition.
SPECIFICATION FairSpec
CONSTANTS
    Op = {a, h}
    Analyze = {a}
    Answer = {h}
    NoOp = NoOp
    MaxAttempts = 2
    MaxCommands = 1
    MaxRecords = 3
    MaxStops = 1
    MaxRequeues = 2
CHECK_DEADLOCK FALSE
INVARIANTS
    CompletedIsAppliedOnce
    AppliedIsDurable
    RerunNeedsRestart
PROPERTIES
    ImplementsVerdict
    CommandsSettle
