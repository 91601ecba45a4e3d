SPECIFICATION TSpec
CONSTANTS
    t1 = t1
    t2 = t2
    t3 = t3
    t4 = t4
    a = a
    b = b
    x = x
    y = y
    mutex = mutex
    listEmpty = listEmpty
    full = full
    empty = empty
    tableEmpty = tableEmpty
    dllistEmpty = dllistEmpty
    NULL = NULL
    Threads = {t1, t2, t3, t4}
    Main = t1
    Semaphores = {mutex, listEmpty, full, empty, tableEmpty, dllistEmpty}
    Conds = {listEmpty, full, empty, tableEmpty, dllistEmpty}
    InitialValue <- OnlyMutexFree
    RandomYield = TRUE
    MaxValue = 2
    MaxSignals <- MCMaxSignals
    MaxPending = 0
    Items = {x, y}
    maxSize = 3
    Bytes = {a, b}
    Chunks <- MCChunks
    Programs <- MCPrograms
    TableSize = 2
    oprnum = 2
    Runs <- MCRuns
    MaxNodes = 6
    yield_flag = TRUE
    Keys <- MCKeys
SYMMETRY Symm
INVARIANTS TConsistent NobodyStranded
PROPERTIES ImplementsQueue ImplementsStream DLListIsQueue
CHECK_DEADLOCK FALSE
