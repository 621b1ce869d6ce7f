CONSTANTS
    Threads = {1, 2}
    BLOCK_SIZE = 2
    LIST_SIZE = 1
    NBLOCKS = 1
    BreakLimit = 40
    Mappings = {100, 110}
    MaxHeld = 3
SPECIFICATION ArenaSpec
INVARIANT GivenOnce
CHECK_DEADLOCK FALSE
