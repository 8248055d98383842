SPECIFICATION Spec
CONSTANTS
    s1 = s1
    s2 = s2
    a = a
    b = b
    v = v
    w = w
    Strategy = {s1, s2}
    Key = {a, b}
    Value = {v, w}
    BatchOf <- BothAtOnce
    BackupCount = 1
    MaxOps = 3
    Faults = {"read", "write", "backup", "crash"}
    Absent = Absent
    NoFile = NoFile
    Torn = Torn
    NoData = NoData
SYMMETRY Symmetry
INVARIANTS TypeOK BatchAllOrNothing
