----------------------------- MODULE FileSystem -----------------------------
(***************************************************************************)
(* The Nachos file system: FileSystem (filesys/filesys.cc), Directory,      *)
(* FileHeader, OpenFile and the BitMap of free sectors (userprog/bitmap.cc).*)
(*                                                                         *)
(* The operations assume that nobody else uses the file system meanwhile    *)
(* (filesys.cc:30), and SynchDisk makes each sector access wait for the     *)
(* disk.  What an operation reads does not change under it, so that the     *)
(* operation is one step that computes the sector writes it is going to     *)
(* make, followed by one step for each write, in the order of the code.     *)
(* Nachos may stop between two of them; what the next Nachos would then     *)
(* find is the value of disk at that moment.                               *)
(***************************************************************************)
EXTENDS Integers, Sequences, SequencesExt, FiniteSetsExt

CONSTANTS
    NumSectors, SectorSize,     \* disk.h
    NumDirEntries,              \* filesys.cc
    FreeMapFileSize,            \* at most SectorSize: one sector
    DirectoryFileSize,          \* two sectors
    Straddler,                  \* the entry that lies across them
    Names,                      \* the file names that commands are given
    Keys,                       \* what FileNameMaxLen leaves of them
    Stored,                     \* strncpy and strncmp: from Names to Keys
    Junk                        \* any byte or name that was never written

FreeMapSector   == 0
DirectorySector == 1

Sectors == 0..(NumSectors - 1)

ASSUME FileSystemAssumption ==
    /\ NumSectors \in Nat
    /\ NumSectors >= 5         \* what formatting takes
    /\ SectorSize \in Nat \ {0}
    /\ NumDirEntries \in Nat
    /\ FreeMapFileSize \in 1..SectorSize
    /\ DirectoryFileSize \in (SectorSize + 1)..(2 * SectorSize)
    /\ Straddler \in 1..NumDirEntries
    /\ Stored \in [Names -> Keys]
    /\ Junk \notin Keys

VARIABLES
    disk,           \* the contents of the sectors
    todo,           \* the sector writes that the operation has still to make
    made,           \* the directory entry of the file that the command has made
    hdr,            \* OpenFile::hdr of the file that the command has open
    seekPosition    \* OpenFile::seekPosition

fsvars == << disk, todo, made, hdr, seekPosition >>

NoSector == -1

\* A write of a sector.
To(s, holds) == [sector |-> s, holds |-> holds]

-----------------------------------------------------------------------------
(* BitMap, as the set of the marked sectors.                               *)

Mark(marked, s) == marked \cup {s}

Clear(marked, s) == marked \ {s}

ClearBits(marked) == Sectors \ marked

NumClear(marked) == Cardinality(ClearBits(marked))

\* Mutant of FirstClear: the bit is not tested.
FirstClearUntested(marked) == NumSectors - 1

\* BitMap::Find, the bit it marks.
FirstClear(marked) ==
    IF ClearBits(marked) = {} THEN NoSector ELSE Min(ClearBits(marked))

-----------------------------------------------------------------------------
(* FileHeader.                                                             *)

DivRoundUp(n, s) == (n + s - 1) \div s

NumDataSectors(size) == DivRoundUp(size, SectorSize)

\* The i-th clear sector, counted from the first.
ClearSector(marked, i) ==
    CHOOSE s \in ClearBits(marked) :
        Cardinality({r \in ClearBits(marked) : r < s}) = i - 1

\* FileHeader::Allocate when there is enough space: the first clear sectors.
Allocate(marked, size) ==
    [length |-> size,
     sectors |-> [i \in 1..NumDataSectors(size) |-> ClearSector(marked, i)]]

\* The sectors that Allocate has marked and Deallocate clears.
DataSectors(h) == Range(h.sectors)

\* FileHeader::Deallocate.
Deallocate(marked, h) == marked \ DataSectors(h)

ByteToSector(h, offset) == h.sectors[(offset \div SectorSize) + 1]

-----------------------------------------------------------------------------
(* OpenFile.  The bytes of a sector that never was part of a file are junk.  *)

ByteAt(h, p) ==
    LET sector == disk[ByteToSector(h, p)]
    IN IF "bytes" \in DOMAIN sector THEN sector.bytes[(p % SectorSize) + 1] ELSE Junk

\* How much of a request the file's length leaves.
Clip(h, numBytes, position) ==
    IF numBytes <= 0 \/ position >= h.length THEN 0
    ELSE IF position + numBytes > h.length THEN h.length - position
    ELSE numBytes

\* OpenFile::ReadAt: the bytes read.
ReadAt(h, numBytes, position) ==
    [i \in 1..Clip(h, numBytes, position) |-> ByteAt(h, position + i - 1)]

\* Mutant of WriteAt: a sector that is written in part is not read first.
WriteAtBlind(h, from, position) ==
    LET n == Clip(h, Len(from), position)
        first == position \div SectorSize
        last == (position + n - 1) \div SectorSize
        Byte(p) == IF p \in position..(position + n - 1)
                     THEN from[p - position + 1]
                     ELSE Junk
    IN IF n = 0
         THEN << >>
         ELSE [i \in 1..(last - first + 1) |->
                 LET offset == (first + i - 1) * SectorSize
                 IN To(ByteToSector(h, offset),
                       [bytes |-> [k \in 1..SectorSize |-> Byte(offset + k - 1)]])]

\* OpenFile::WriteAt: the sector writes.  A sector that is written in part is
\* read first, as far as the file goes; the rest of the buffer is junk.
WriteAt(h, from, position) ==
    LET n == Clip(h, Len(from), position)
        first == position \div SectorSize
        last == (position + n - 1) \div SectorSize
        Byte(p) == IF p \in position..(position + n - 1) THEN from[p - position + 1]
                   ELSE IF p < h.length THEN ByteAt(h, p)
                   ELSE Junk
    IN IF n = 0
         THEN << >>
         ELSE [i \in 1..(last - first + 1) |->
                 LET offset == (first + i - 1) * SectorSize
                 IN To(ByteToSector(h, offset),
                       [bytes |-> [k \in 1..SectorSize |-> Byte(offset + k - 1)]])]

-----------------------------------------------------------------------------
(* The free map and the directory, which are files too.                    *)

MapSector == disk[FreeMapSector].sectors[1]

DirSector(n) == disk[DirectorySector].sectors[n]

\* BitMap::FetchFrom and WriteBack.
FreeMap == disk[MapSector].marked

FreeMapWriteBack(marked) == << To(MapSector, [marked |-> marked]) >>

EmptyEntry == [inUse |-> FALSE, sector |-> NoSector, name |-> Junk]

EmptyDirectory == [i \in 1..NumDirEntries |-> EmptyEntry]

\* What the two sectors of the directory hold: the entry in the middle has its
\* flag and its sector in the first and its name in the second.
FirstPart(table) ==
    [entries |-> SubSeq(table, 1, Straddler - 1),
     inUse |-> table[Straddler].inUse,
     sector |-> table[Straddler].sector]

SecondPart(table) ==
    [name |-> table[Straddler].name,
     entries |-> SubSeq(table, Straddler + 1, NumDirEntries)]

\* Directory::FetchFrom and WriteBack.
Table ==
    LET first == disk[DirSector(1)]
        second == disk[DirSector(2)]
    IN first.entries
         \o << [inUse |-> first.inUse, sector |-> first.sector, name |-> second.name] >>
         \o second.entries

DirectoryWriteBack(table) ==
    << To(DirSector(1), FirstPart(table)), To(DirSector(2), SecondPart(table)) >>

\* Directory::FindIndex, 0 for -1.
FindIndex(table, key) ==
    SelectInSeq(table, LAMBDA e : e.inUse /\ e.name = key)

FirstUnused(table) == SelectInSeq(table, LAMBDA e : ~e.inUse)

\* Directory::Find.
Find(table, key) ==
    LET i == FindIndex(table, key) IN IF i = 0 THEN NoSector ELSE table[i].sector

\* Directory::Add when there is an unused entry, and Directory::Remove.
AddEntry(table, key, s) ==
    [table EXCEPT ![FirstUnused(table)] = [inUse |-> TRUE, sector |-> s, name |-> key]]

RemoveEntry(table, key) == [table EXCEPT ![FindIndex(table, key)].inUse = FALSE]

-----------------------------------------------------------------------------
(* FileSystem.                                                             *)

\* The constructor with format = TRUE.
MapHdr == Allocate({FreeMapSector, DirectorySector}, FreeMapFileSize)

DirHdr ==
    Allocate({FreeMapSector, DirectorySector} \cup DataSectors(MapHdr),
             DirectoryFileSize)

Formatting ==
    << To(FreeMapSector, MapHdr), To(DirectorySector, DirHdr),
       To(MapHdr.sectors[1],
          [marked |-> {FreeMapSector, DirectorySector}
                        \cup DataSectors(MapHdr) \cup DataSectors(DirHdr)]),
       To(DirHdr.sectors[1], FirstPart(EmptyDirectory)),
       To(DirHdr.sectors[2], SecondPart(EmptyDirectory)) >>

NoHeader == [length |-> 0, sectors |-> << >>]

FInit ==
    /\ disk = [s \in Sectors |-> [unwritten |-> TRUE]]
    /\ todo = Formatting
    /\ made = 0
    /\ hdr = NoHeader
    /\ seekPosition = 0

\* SynchDisk::WriteSector.
WriteSector ==
    /\ todo # << >>
    /\ disk' = [disk EXCEPT ![Head(todo).sector] = Head(todo).holds]
    /\ todo' = Tail(todo)
    /\ UNCHANGED << made, hdr, seekPosition >>

\* The tests that Create makes, in memory, before it writes anything.
CanCreate(key, size) ==
    /\ Find(Table, key) = NoSector
    /\ FirstClear(FreeMap) # NoSector
    /\ FirstUnused(Table) # 0
    /\ NumClear(Mark(FreeMap, FirstClear(FreeMap))) >= NumDataSectors(size)

\* Mutant of Create: the header's sector is not marked for the data sectors.
CreateUnmarked(key, size) ==
    LET sector == FirstClear(FreeMap)
        h == Allocate(FreeMap, size)
    IN /\ CanCreate(key, size)
       /\ made' = FirstUnused(Table)
       /\ todo' = << To(sector, h) >>
                    \o DirectoryWriteBack(AddEntry(Table, key, sector))
                    \o FreeMapWriteBack(Mark(FreeMap, sector) \cup DataSectors(h))
       /\ UNCHANGED << disk, hdr, seekPosition >>

\* FileSystem::Create: the header, the directory and the map are written.
Create(key, size) ==
    LET sector == FirstClear(FreeMap)
        marked == Mark(FreeMap, sector)
        h == Allocate(marked, size)
    IN /\ CanCreate(key, size)
       /\ made' = FirstUnused(Table)
       /\ todo' = << To(sector, h) >>
                    \o DirectoryWriteBack(AddEntry(Table, key, sector))
                    \o FreeMapWriteBack(marked \cup DataSectors(h))
       /\ UNCHANGED << disk, hdr, seekPosition >>

\* FileSystem::Open of a file that is there: OpenFile keeps a copy of its header.
Open(key) ==
    /\ Find(Table, key) # NoSector
    /\ hdr' = disk[Find(Table, key)]
    /\ seekPosition' = 0
    /\ UNCHANGED << disk, todo, made >>

\* FileSystem::Remove of a file that is there: the map and the directory are
\* written.
RemoveFile(key) ==
    LET sector == Find(Table, key)
        marked == Clear(Deallocate(FreeMap, disk[sector]), sector)
    IN /\ sector # NoSector
       /\ todo' = FreeMapWriteBack(marked)
                    \o DirectoryWriteBack(RemoveEntry(Table, key))
       /\ UNCHANGED << disk, made, hdr, seekPosition >>

\* OpenFile::Write and OpenFile::Read at the seek position.
Write(from) ==
    /\ todo' = WriteAt(hdr, from, seekPosition)
    /\ seekPosition' = seekPosition + Clip(hdr, Len(from), seekPosition)
    /\ UNCHANGED << disk, made, hdr >>

Read(numBytes) ==
    /\ seekPosition' = seekPosition + Clip(hdr, numBytes, seekPosition)
    /\ UNCHANGED << disk, todo, made, hdr >>

\* OpenFile's destructor; the program that made a file has done with it.
Close ==
    /\ made' = 0
    /\ hdr' = NoHeader
    /\ seekPosition' = 0
    /\ UNCHANGED << disk, todo >>
=============================================================================
