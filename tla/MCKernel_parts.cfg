CONSTANTS
    Procs = {1, 2, 3}
    Val = {0}
    MAXOPBLOCKS = 2
    LOGSIZE = 4
    OpBlocks = 1
    NHome = 4
SPECIFICATION KernelSpec
INVARIANTS ImageSound ContentsRight WritesFit MemorySound PagesRight LogFits
CHECK_DEADLOCK FALSE
