CONSTANTS
    None = None
    Panic = Panic
    Anonymous = Anonymous
    r1 = r1
    r2 = r2
    u1 = u1
    free = free
    vip = vip
    nosuch = nosuch
    U64Max = 1000
    NanosPerSec = 3
    Requests = {r1, r2}
    Users = {u1}
    TierNames = {free, vip, nosuch}
    BodySizes = {1, 2}
    WallOffset = 4
    MaxWall = 2000
    Costs = {2}
    Configs <- MCConfigs
    MaxTime = 1
SPECIFICATION Spec
SYMMETRY Symmetry
INVARIANTS
    TypeOK
    SpendBound
    CountedOrExcused
    RefusedUncounted
    LimitedMayRetry
    HeadersHonest
    NothingSilent
