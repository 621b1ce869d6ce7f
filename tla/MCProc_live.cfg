CONSTANTS
    NPROC = 3
    NCPU = 1
    MaxPid = 3
    KillPids = {2}
    MaxSleep = 0
SPECIFICATION FairSpec
PROPERTIES ZombiesReaped KilledExit
