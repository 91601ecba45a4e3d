SPECIFICATION CSpec
CONSTANTS
    mutex = mutex
    NULL = NULL
    Threads = {t1, t2, t3}
    Main = t1
    Semaphores = {mutex, ready}
    Conds = {ready}
    InitialValue <- OnlyMutexFree
    RandomYield = TRUE
    MaxValue = 2
    MaxPending = 0
CHECK_DEADLOCK FALSE
PROPERTY BroadcastWakesAll
