CONSTANTS
    None = None
    Panic = Panic
    t1 = t1
    t2 = t2
    k1 = k1
    U64Max = 100
    NanosPerSec = 1
    Keys = {k1}
    Tasks = {t1, t2}
    QuotaOf <- MCQuota
    RequestCosts = {1}
    FailureThreshold <- MCFailureThreshold
    OpenFor <- MCOpenFor
    MaxTime = 3
SPECIFICATION FairSpec
INVARIANTS
    TypeOK
    ProbeOwned
    ProbeInReach
PROPERTIES
    StaleResultsIgnored
    DuePrunesApart
    ProbeResolves
    Recovery
