SPECIFICATION LiveSpec
CONSTANTS
    CPU = {c1}
    BootCPU = c1
    NPROC = 2
PROPERTY NobodyStarves
