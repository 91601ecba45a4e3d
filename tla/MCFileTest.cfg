SPECIFICATION FTSpec
CONSTANTS
    a = a
    b = b
    x = x
    y = y
    z = z
    test = test
    longTest = longTest
    other = other
    third = third
    Junk = Junk
    NoFile = NoFile
    NumSectors = 10
    SectorSize = 3
    NumDirEntries = 3
    FreeMapFileSize = 2
    DirectoryFileSize = 5
    Straddler = 2
    Names = {test, longTest, other, third}
    Keys = {x, y, z}
    Stored <- MCStored
    Texts <- MCTexts
    TransferSize = 2
    TestFile = test
    Contents <- MCContents
    TestSize = 4
    MaxCommands = 4
INVARIANT FConsistent
PROPERTY FilesKept
CHECK_DEADLOCK FALSE
