CONSTANTS
    None = None
    t1 = t1
    t2 = t2
    k1 = k1
    U64Max = 10
    NanosPerSec = 3
    Keys = {k1}
    Tasks = {t1, t2}
    QuotaOf <- MCEndless
    MaxTime = 3
SPECIFICATION WindowSpec
SYMMETRY Symmetry
INVARIANTS
    WindowBound
