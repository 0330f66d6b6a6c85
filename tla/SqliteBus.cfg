\* Two threads on a slot, restarts on it and on its clone.
SPECIFICATION Spec
CONSTANTS
    w1 = w1
    w2 = w2
    k1 = k1
    k2 = k2
    v1 = v1
    a = a
    empty = empty
    None = None
    Worker <- MCWorker
    Slots <- MCSlots
    Clones <- MCClones
    Key <- MCKey
    Value <- MCValue
    Calls <- MCCalls
    Namespace <- MCNamespace
    Listed <- MCListed
INVARIANTS
    TypeOK
    NoHiddenRows
PROPERTIES
    CallsEnd
    CloneExact
