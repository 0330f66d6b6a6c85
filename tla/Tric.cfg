CONSTANTS
    k1 = k1
    k2 = k2
    k3 = k3
    v1 = v1
    v2 = v2
    None = None
    Never = Never
    Key <- MCKey
    Value <- MCValue
    Prefixes <- MCPrefixes
    Durations <- MCDurations
    MaxInstant = 2
SPECIFICATION Spec
INVARIANTS TypeOK IndexConsistent
PROPERTIES ExpiredEntriesReclaimed ImplementsTimedMap
