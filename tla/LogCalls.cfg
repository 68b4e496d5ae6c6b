SPECIFICATION LiveSpec
CONSTANTS
    Proc = {p1, p2}
    Block = {b1, b2, b3}
    Val = {v1, v2}
    None = None
    MAXOPBLOCKS = 2
    LOGSIZE = 4
    NLOG = 4
    OpBlocks = 1
INVARIANTS NoLostWakeup NoPanic
PROPERTIES ImplementsAtomicDisk CommitEnds
