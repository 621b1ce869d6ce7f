CONSTANTS
    Procs = {1, 2}
    NINODES = 3
    NINODE = 3
    NFILE = 1
    MaxLinks = 2
    NOFILE = 2
    Names = {"a", "d"}
    Calls <- TreeCalls
SPECIFICATION Spec
INVARIANT NoDeadlock
CHECK_DEADLOCK FALSE
