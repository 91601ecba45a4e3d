SPECIFICATION DFairSpec
CONSTANTS
    mutex = mutex
    semaphore = semaphore
    NULL = NULL
    Threads = {t1, t2, t3}
    Main = t1
    Semaphores = {mutex, semaphore}
    InitialValue <- OnlyMutexFree
    SectorNumbers = {s1}
    Data = {d0, d1}
    Blank = d0
    RandomYield = TRUE
    MaxValue = 2
    MaxPending = 2
INVARIANTS KConsistent NoLostWakeup DConsistent NoStuckRequest
PROPERTIES RequestsComplete ImplementsSemaphores ReadyThreadsRun
CHECK_DEADLOCK FALSE
