CONSTANTS
    None = None
    Junk = Junk
    t1 = t1
    k1 = k1
    d0 = d0
    d1 = d1
    d2 = d2
    x = x
    NoSecret = NoSecret
    Colon = Colon
    Ipad = Ipad
    Opad = Opad
    Block = 1
    Char = {Colon, d0, d1, d2, x}
    Decimal <- MCDecimal
    DefaultPrefix <- MCPrefix
    U64Max = 1000
    NanosPerSec = 3
    NanosPerMicro = 2
    MicrosPerMilli = 3
    MaxExact = 9
    Keys = {k1}
    Tasks = {t1}
    QuotaOf <- MCOneTier
    MaxTime = 6
    MaxBack = 1
    MaxLosses = 1
SPECIFICATION QuotaSpec
INVARIANTS
    TypeOK
    ScriptMatchesReference
    NeverLooser
PROPERTIES
    ImplementsBucket
    CapStored
