CONSTANTS
    c1 = c1
    c2 = c2
    None = None
    Caller = {c1, c2}
    Threshold = 2
    MaxAttempts = 2
    ResetTimeout = 2
    HalfOpenTimeout = 1
    Monitored = TRUE
SPECIFICATION FairSpec
INVARIANTS
    TypeOK
    OpensOnlyAtThreshold
    OpenStopsRetries
PROPERTIES
    EveryRequestEnds
