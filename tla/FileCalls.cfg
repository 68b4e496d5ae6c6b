SPECIFICATION Spec
CONSTANTS
    p1 = p1
    p2 = p2
    Proc = {p1, p2}
    Initial = p1
    Byte <- MCByte
    Inode = {1, 2, 3}
    Files <- MCFiles
    BSIZE = 2
    NDIRECT = 1
    NINDIRECT = 3
    NBLOCKS = 13
    NFILE = 3
    NOFILE = 2
    NPIPE = 2
    MAXOPBLOCKS = 6
    Modes <- MCModes
    Counts = {1, 7}
    MaxCalls = 5
INVARIANTS RefsCounted BlocksRight Contents OpFits
PROPERTY SharedOffset
CHECK_DEADLOCK FALSE
