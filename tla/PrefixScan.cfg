CONSTANTS
    Bytes <- MCBytes
    MaxLen = 2
    MaxRows = 3
    Namespaces <- MCNamespaces
    FromTransient = FromTransient
    FromPersistent = FromPersistent
SPECIFICATION Spec
INVARIANTS RangeIsExact DatabasesInOrder MergeIsExact
CHECK_DEADLOCK FALSE
