SPECIFICATION CFairSpec
CONSTANTS
    mutex = mutex
    NULL = NULL
    Threads = {t1, t2, t3}
    Main = t1
    Semaphores = {mutex, ready, other}
    Conds = {ready}
    InitialValue <- OnlyMutexFree
    RandomYield = TRUE
    MaxValue = 2
    MaxPending = 1
INVARIANTS CConsistent NobodyForgotten
PROPERTIES ImplementsLock LockProgress
CHECK_DEADLOCK FALSE
