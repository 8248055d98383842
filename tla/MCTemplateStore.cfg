\* Two processes share the file; time is unbounded.
CONSTANTS
    Process = {p1, p2}
    Template = {t1, t2}
    Version = {v1}
    TTL = 2
    MaxLoad = 1
    None = None
    NoCache = NoCache
    NoLoad = NoLoad
    NoEdit = NoEdit
    NoAnswer = NoAnswer
    Nobody = Nobody
    Unknown = Unknown
    Absent = Absent
    Torn = Torn
SPECIFICATION Spec
SYMMETRY Symmetry
INVARIANTS
    TypeOK
    ServedIsRecent
    OwnEditsAreSeen
    EditsAreKept
CHECK_DEADLOCK FALSE
