SPECIFICATION Spec
CONSTANTS
    s1 = s1
    s2 = s2
    a = a
    b = b
    v = v
    w = w
    Strategy = {s1}
    Key = {a, b}
    Value = {v, w}
    BatchOf <- OneOrBoth
    BackupCount = 2
    MaxOps = 3
    Faults = {"crash", "backup"}
    Absent = Absent
    NoFile = NoFile
    Torn = Torn
    NoData = NoData
SYMMETRY Symmetry
 INVARIANTS NothingAckedIsLost CacheMatchesFile
PROPERTY EveryChangeIsOneOperation
