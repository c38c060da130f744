CONSTANTS
    None = None
    Panic = Panic
    t1 = t1
    t2 = t2
    k1 = k1
    r1 = r1
    r2 = r2
    free = free
    U64Max = 1000
    NanosPerSec = 3
    Keys = {k1}
    Tasks = {t1, t2}
    QuotaOf <- MCOneTier
    MaxTime = 1
    TierNames = {free}
    Intervals = {0, 1}
    Runtimes = {r1, r2}
SPECIFICATION FairLimiterSpec
CHECK_DEADLOCK FALSE
INVARIANTS
    LimiterTypeOK
    OneCollector
    NoStrayCollector
PROPERTIES
    StartedOnUse
    CollectedWhileRunning
