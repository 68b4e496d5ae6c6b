SPECIFICATION Spec
CONSTANTS
    NPROC = 4
    NCPU = 1
    MaxPid = 4
    Calls = {"fork", "wait", "kill", "disk", "exit"}
    KillArgs = {0, 3}
    MayFail = TRUE
INVARIANTS ParentAlive WaitNotMissed MemoryOwned KilledWasTargeted
