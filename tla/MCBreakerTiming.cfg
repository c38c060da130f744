CONSTANTS
    None = None
    t1 = t1
    t2 = t2
    t3 = t3
    k1 = k1
    U64Max = 100
    NanosPerSec = 1
    Keys = {k1}
    Tasks = {t1, t2, t3}
    QuotaOf <- MCQuota
    RequestCosts = {0}
    FailureThreshold = 1
    OpenFor = 3
    CallBudget = 1
    MaxTime = 4
SPECIFICATION TimedSpec
SYMMETRY Symmetry
INVARIANTS
    NoStaleVerdict
