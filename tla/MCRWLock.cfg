SPECIFICATION LockSpec
CONSTANTS
    t1 = t1
    t2 = t2
    t3 = t3
    Thread = {t1, t2, t3}
    NoThread = NoThread
SYMMETRY Symmetry
INVARIANTS LockTypeOK OneWriter CountersExact NoStrandedReader
