\* One retry; two losses, repetitions or crashes.
SPECIFICATION TimelineSpec
CONSTANTS
    MaxRetries = 1
    MaxFaults = 2
CHECK_DEADLOCK FALSE
INVARIANTS
    EndedIsClosed
    PublishedOnce
