CONSTANTS
    None = None
    t1 = t1
    t2 = t2
    k1 = k1
    U64Max = 100
    NanosPerSec = 1
    Keys = {k1}
    Tasks = {t1, t2}
    QuotaOf <- MCQuota
    RequestCosts = {1, 2}
    FailureThreshold = 2
    OpenFor = 1
    MaxTime = 3
SPECIFICATION OutageSpec
SYMMETRY Symmetry
INVARIANTS
    FallbackBound
