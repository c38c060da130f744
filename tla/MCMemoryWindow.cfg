CONSTANTS
    None = None
    t1 = t1
    t2 = t2
    k1 = k1
    U64Max = 1000
    NanosPerSec = 3
    Keys = {k1}
    Tasks = {t1, t2}
    QuotaOf <- MCOneTier
    MaxTime = 3
SPECIFICATION WindowSpec
SYMMETRY Symmetry
INVARIANTS
    RetryAfterExact
    AllowanceExact
    WindowBound
    DebtCovers
