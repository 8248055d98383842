CONSTANTS
    r1 = r1
    r2 = r2
    i1 = i1
    i2 = i2
    i3 = i3
    q1 = q1
    q2 = q2
    None = None
    Request = {r1}
    Instance = {i1, i2, i3}
    Query = {q1, q2}
    Count = 2
    MaxAttempts = 1
    MaxChanges = 2
    Fault = {"refuse", "lost", "afterLaunch", "saveMachine", "saveRequest", "crash", "list", "status", "update"}
SPECIFICATION FairSpec
INVARIANTS
    TypeOK
    StatusCountsMachines
    NoOverDelivery
    CompleteReplyListsAllOrNone
    MachinesHaveTheirRequest
PROPERTIES
    OnlyRacesStoreOldNews
    EveryCommandEnds
CHECK_DEADLOCK FALSE
