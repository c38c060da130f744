CONSTANTS
    None = None
    t1 = t1
    t2 = t2
    t3 = t3
    U64Max = 3
    NanosPerSec = 3
    Threads = {t1, t2, t3}
    Durations = {1, 2, 5}
    Settings = {0, 2}
SPECIFICATION Spec
PROPERTIES
    TakesEffectOnce
