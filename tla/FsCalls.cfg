SPECIFICATION Spec
CONSTANTS
    Proc = {p1, p2}
    Plain = {"a", "b"}
    NINODES = 5
    NINODE = 5
    NOFILE = 1
    MaxCalls = 3
    Calls <- MCCalls
    Images <- MCImages
SYMMETRY Symmetry
INVARIANTS RefsCounted NoDanglingName CacheCoherent LockOrder
CHECK_DEADLOCK FALSE
