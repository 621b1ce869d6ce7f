CONSTANTS
    NPROC = 3
    NCPU = 2
    MaxPid = 3
    KillPids = {3}
    MaxSleep = 1
SPECIFICATION Spec
INVARIANTS OnOneCpu StackOwned ChildrenReaped SleepHandsOver
