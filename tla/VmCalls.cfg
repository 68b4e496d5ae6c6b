SPECIFICATION Spec
CONSTANTS
    p1 = p1
    p2 = p2
    Proc = {p1, p2}
    Initial = p1
    NPAGES = 16
    PGSIZE = 2
    UPAGES = 5
    NPTE = 2
    KTABLES = 1
    SbrkArgs <- MCSbrk
    Buffers = {1, 3}
    Programs = {1, 3, 10}
    EmptyImage = FALSE
    MaxCalls = 5
INVARIANTS PagesOwned Image
CHECK_DEADLOCK FALSE
