SPECIFICATION LSpec
CONSTANTS
    mutex = mutex
    NULL = NULL
    Threads = {t1, t2, t3}
    Main = t1
    Semaphores = {mutex, disk}
    InitialValue <- OnlyMutexFree
    RandomYield = FALSE
    MaxValue = 2
    MaxPending = 1
INVARIANT CarcassNotLost
CHECK_DEADLOCK FALSE
