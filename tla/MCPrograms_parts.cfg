CONSTANTS
    INPUT_BUF = 3
    UintMod = 6
    Letters = {"a", "b"}
    Readers = {1, 2}
    Killable = {2}
    ReadLens = {1, 3}
    COLS = 2
    ROWS = 3
    capacity = 3
    Items = {1, 2}
SPECIFICATION ProgramsSpec
INVARIANTS ConsoleSound ShiftMatchesKeys ParserFaithful PipelinesEnd
    HeapSound BlocksTracked WaitsEnd
PROPERTIES ImplementsLines EofAlone ImplementsHeap ImplementsFifo CachesRight
CHECK_DEADLOCK FALSE
