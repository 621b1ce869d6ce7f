CONSTANTS
    Procs = {p1, p2}
    Val = {v1, v2}
    MAXOPBLOCKS = 3
    LOGSIZE = 6
    OpBlocks = 2
    NHome = 2
SPECIFICATION FairSpec
INVARIANT CommittedIsDurable
PROPERTIES SleepersWake ImplementsAtomicDisk
