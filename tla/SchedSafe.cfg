SPECIFICATION Spec
CONSTANTS
    CPU = {c1, c2}
    BootCPU = c1
    NPROC = 2
INVARIANTS NoPanic OneCpu MutualExclusion NoLostWakeup InterruptsAsLeft
