CONSTANTS
    NPROC = 2
    NCPU = 1
    MaxPid = 3
    KillPids = {0}
    MaxSleep = 0
SPECIFICATION Spec
PROPERTY NewbornNotKilled
