\* Any two archived states of four keys, imported or restored in any order, one crash.
SPECIFICATION Spec
CONSTANTS
    Key <- MCKey
    Row <- MCRow
INVARIANTS
    DiffApplied
    ValuesApplied
    RestoreExact
CHECK_DEADLOCK FALSE
