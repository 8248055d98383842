\* Five files, an environment in two parts, and one change.
CONSTANTS
    s1 = s1
    k1 = k1
    k2 = k2
    v1 = v1
    v2 = v2
    Section = {s1}
    Key = {k1, k2}
    Value = {v1, v2}
    Unset = Unset
    Absent = Absent
    Broken = Broken
    NotLoaded = NotLoaded
    App = App
    Written <- MCWritten
    InitialDisks <- MCInitialDisks
    Variables <- MCVariables
    MaxChanges = 1
SPECIFICATION Spec
INVARIANTS
    TypeOK
    PrecedenceHolds
    TypedIsCurrent
