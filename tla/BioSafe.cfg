SPECIFICATION Spec
CONSTANTS
    Proc = {p1, p2}
    k1 = k1
    k2 = k2
    k3 = k3
    k4 = k4
    Block = {k1, k2, k3, k4}
    Nested <- Order
    Val = {v1, v2}
    None = None
    NBUF = 2
    LOGSIZE = 1
    ReadFails = {FALSE}
SYMMETRY Symmetry
INVARIANTS OneCopy RequestsServed FullWhenUsed ReadsLastWrite
