SPECIFICATION PartsSpec
CONSTANTS
    ByteBits = 2
    PageSize = 16
    NumPhysPages = 4
    UserStackSize = 16
    NumGPRegs = 10
    RegionSize = 64
    SC_Halt = 0
    NoFile = Missing
    Missing = Missing
    memoffset = 64
    MEMSIZE = 64
    StackRoom = 16
    ArgRoom = 8
    BreakUnit = 16
    InputByte = 2
    Executables <- MCExecutables
    NoffHeaderSize = 10
    StackSize = 6
    CoffFiles <- MCCoffFiles
    Absent = Missing
    Programs <- MCOrs
    SectorsPerTrack = 3
    NumTracks = 3
    SeekTime = 3
    RotationTime = 3
    LastTick = 30
    e1 = e1
    e2 = e2
    e3 = e3
    thing1 = thing1
    thing2 = thing2
    Elements = {e1, e2, e3}
    Items = {thing1, thing2}
    Keys = {0, 1}
    Nil = Missing
    FindJobs <- MCFindJobs
    Unknown = Missing
    LargeSize = 2
    OpenMax = 16
    Deepest = 5
    IntMax = 15
    FirstSize = 1
    Inputs <- MCInputs
    OldContents <- MCOldContents
PROPERTY ImplementsMIPS
CHECK_DEADLOCK FALSE
