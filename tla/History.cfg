CONSTANTS
    w1 = w1
    w2 = w2
    w3 = w3
    k1 = k1
    v1 = v1
    v2 = v2
    None = None
    Never = Never
    Active = v1
    Worker <- MCWorker
    Key <- MCKey
    Registry <- NoKeys
    Value <- MCValue
    Durations <- MCDurations
    Prefixes <- MCPrefixes
    Calls <- AllCalls
    CachePromotion = 2
    FaultyDisk = FALSE
    MayCrash = TRUE
    MaxInstant = 3
    MaxCredit = 2
    Workloads <- MCWorkloads
SPECIFICATION HistorySpec
INVARIANTS Linearizable Coherent AtomicClaim
