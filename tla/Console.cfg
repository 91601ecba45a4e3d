SPECIFICATION ConFairSpec
CONSTANTS
    readAvail = readAvail
    writeDone = writeDone
    disk = disk
    NULL = NULL
    Threads = {t1, t2}
    Main = t1
    Semaphores = {readAvail, writeDone, disk}
    InitialValue <- NothingAvailable
    RandomYield = TRUE
    MaxValue = 2
    MaxPending = 2
    SystemTick = 1
    TimerTicks = 2
    ConsoleTime = 4
    DiskTime = 3
    Chars = {a, q}
    Quit = q
    MaxTyped = 2
    MaxRequests = 1
INVARIANTS ConConsistent EchoFaithful HaltsWhenQuiet
PROPERTIES EverythingEchoed TimeServes
CHECK_DEADLOCK FALSE
