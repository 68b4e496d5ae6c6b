SPECIFICATION Spec
CONSTANTS
    Proc = {p1, p2, p3}
    None = None
    Byte = {0, 1}
    PIPESIZE = 2
    WRAP = 4
    MaxN = 2
    FdSets <- SomeEnd
    Killable = {p1, p2, p3}
SYMMETRY Symmetry
INVARIANTS NoUseAfterFree NobodyForgotten
PROPERTY ImplementsChannel
CHECK_DEADLOCK FALSE
