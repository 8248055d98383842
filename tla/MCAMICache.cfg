SPECIFICATION Spec
CONSTANTS
    p1 = p1
    p2 = p2
    a = a
    b = b
    i1 = i1
    i2 = i2
    Process = {p1, p2}
    Param = {a, b}
    Image = {i1, i2}
    Published <- OneEach
    TTL = 1
    MaxTime = 2
    MaxAnswers = 2
    NoEntry = NoEntry
    NoParam = NoParam
    Garbled <- Foreign
    Unwritten = Unwritten
    Mixed = Mixed
    Absent = Absent
SYMMETRY Symmetry
INVARIANTS
    TypeOK
    WholeUnlessShared
PROPERTIES
    ServedIsFresh
    SequentialRunsAskOnce
CHECK_DEADLOCK FALSE
