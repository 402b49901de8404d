\* Two requests, two analyses, two corrections or uploads, a stop of the host.
SPECIFICATION FairSpec
CONSTANTS
    r1 = r1
    r2 = r2
    Request = {r1, r2}
    NoRequest = NoRequest
    Awardable = {1}
    MaxEdits = 2
    MaxAnalyses = 2
    MaxStops = 1
CHECK_DEADLOCK FALSE
PROPERTIES
    OneDecision
    DecidedOnCurrentEvidence
    StaleNeverDecides
    ApprovalSettles
