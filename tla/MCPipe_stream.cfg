CONSTANTS
    PIPESIZE = 2
    UintMod = 4
    Procs = {1, 2, 3}
    Holds <- WithShell
    Bytes = {0, 1}
    Counts = {0, 1, 3}
    Killable = {3}
SPECIFICATION FairSpec
INVARIANTS NoLostWakeup FreedUnused
PROPERTIES ImplementsChannel CallsReturn
CHECK_DEADLOCK FALSE
