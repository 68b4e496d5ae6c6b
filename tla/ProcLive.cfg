SPECIFICATION LiveSpec
CONSTANTS
    NPROC = 3
    NCPU = 2
    MaxPid = 3
    Calls = {"fork", "wait", "kill", "read", "exit"}
    KillArgs = {3}
    MayFail = FALSE
PROPERTIES KilledExits OrphansReaped
