CONSTANTS
    w1 = w1
    w2 = w2
    k1 = k1
    r1 = r1
    v1 = v1
    None = None
    Never = Never
    Active = v1
    Worker <- MCWorker
    Key <- MCKey
    Registry <- MCRegistry
    Value <- MCValue
    Durations <- MCDurations
    Prefixes <- MCPrefixes
    Calls <- MCCalls
    CachePromotion = 1
    FaultyDisk = TRUE
    MayCrash = TRUE
    MaxInstant = 2
SPECIFICATION Spec
INVARIANTS TypeOK NoImmortalCopy
