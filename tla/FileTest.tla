------------------------------ MODULE FileTest ------------------------------
(***************************************************************************)
(* The commands that use the file system of FileSystem (filesys/fstest.cc   *)
(* and the options of threads/main.cc): -cp copies a UNIX file to a Nachos  *)
(* file, -p prints a Nachos file, -r removes one, -t is PerformanceTest.    *)
(* They run one after the other, in any order.                             *)
(***************************************************************************)
EXTENDS FileSystem

CONSTANTS
    Texts,          \* the contents of the UNIX files that are copied
    TransferSize,   \* fstest.cc
    TestFile,       \* FileName of fstest.cc
    Contents,       \* Contents of fstest.cc
    TestSize,       \* FileSize of fstest.cc, a multiple of ContentSize
    NoFile,
    MaxCommands     \* bound: the number of commands

ASSUME FileTestAssumption ==
    /\ Texts \subseteq Seq(UNION {Range(t) : t \in Texts})
    /\ TransferSize \in Nat \ {0}
    /\ TestFile \in Names
    /\ Contents \in Seq(Range(Contents)) /\ Len(Contents) > 0
    /\ NoFile \notin Seq((UNION {Range(t) : t \in Texts}) \cup {Junk})
    /\ MaxCommands \in Nat
    /\ TestSize % Len(Contents) = 0

VARIABLES
    at,         \* the statement of the command that is next
    name,       \* the Nachos file it works on
    text,       \* the UNIX file that Copy reads
    moved,      \* how far in the file the command is
    printed,    \* what Print has printed so far
    shown,      \* what the last Print printed
    commands    \* how many commands have begun

cvars == << at, name, text, moved, printed, shown, commands >>
ftvars == << fsvars, cvars >>

Points == {"format", "idle", "create", "open", "write", "printOpen", "read",
           "remove", "removed", "perfCreate", "perfOpen", "perfWrite",
           "perfReopen", "perfRead", "perfRemove"}

CInit ==
    /\ FInit
    /\ at = "format"
    /\ name = TestFile
    /\ text = << >>
    /\ moved = 0
    /\ printed = << >>
    /\ shown = NoFile
    /\ commands = 0

key == Stored[name]

\* The statement is next and the writes of the one before it are done.
At(point) == at = point /\ todo = << >>

Goto(point) ==
    /\ at' = point
    /\ UNCHANGED << name, text, moved, printed, shown, commands >>

Begin(point, n, t) ==
    /\ At("idle")
    /\ commands < MaxCommands
    /\ commands' = commands + 1
    /\ at' = point
    /\ name' = n
    /\ text' = t
    /\ UNCHANGED << fsvars, moved, printed, shown >>

\* The command is over.
End(result) ==
    /\ Close
    /\ at' = "idle"
    /\ name' = TestFile
    /\ text' = << >>
    /\ moved' = 0
    /\ printed' = << >>
    /\ shown' = result
    /\ UNCHANGED commands

\* The next Nachos is started without -f: the disk has been formatted.
Mounted == At("format") /\ End(shown)

-----------------------------------------------------------------------------
(* Copy of fstest.cc.                                                      *)

CopyCreate ==
    /\ At("create")
    /\ \/ Create(key, Len(text)) /\ Goto("open")
       \/ ~CanCreate(key, Len(text)) /\ End(shown)

CopyOpen == At("open") /\ Open(key) /\ Goto("write")

\* fread returns the next TransferSize bytes, or what is left.
CopyWrite ==
    LET transfer == SubSeq(text, moved + 1, Min({moved + TransferSize, Len(text)}))
    IN /\ At("write")
       /\ transfer # << >>
       /\ Write(transfer)
       /\ moved' = moved + Len(transfer)
       /\ UNCHANGED << at, name, text, printed, shown, commands >>

CopyEnd == At("write") /\ moved = Len(text) /\ End(shown)

Copy == CopyCreate \/ CopyOpen \/ CopyWrite \/ CopyEnd

-----------------------------------------------------------------------------
(* Print of fstest.cc and the -r option.                                   *)

PrintOpen ==
    /\ At("printOpen")
    /\ \/ Open(key) /\ Goto("read")
       \/ Find(Table, key) = NoSector /\ End(shown)

PrintRead ==
    LET transfer == ReadAt(hdr, TransferSize, seekPosition)
    IN /\ At("read")
       /\ transfer # << >>
       /\ Read(TransferSize)
       /\ printed' = printed \o transfer
       /\ UNCHANGED << at, name, text, moved, shown, commands >>

PrintEnd ==
    /\ At("read")
    /\ ReadAt(hdr, TransferSize, seekPosition) = << >>
    /\ End(printed)

PrintFile == PrintOpen \/ PrintRead \/ PrintEnd

RemoveOption ==
    \/ /\ At("remove")
       /\ \/ RemoveFile(key) /\ Goto("removed")
          \/ Find(Table, key) = NoSector /\ End(shown)
    \/ At("removed") /\ End(shown)

-----------------------------------------------------------------------------
(* PerformanceTest, FileWrite and FileRead of fstest.cc.                   *)

\* delete openFile, and on to the next part of the test.
PerfNext(point) ==
    /\ hdr' = NoHeader
    /\ seekPosition' = 0
    /\ moved' = 0
    /\ at' = point
    /\ UNCHANGED << disk, todo, made, name, text, printed, shown, commands >>

FileWrite ==
    \/ /\ At("perfCreate")
       /\ \/ Create(key, 0) /\ Goto("perfOpen")
          \/ ~CanCreate(key, 0) /\ UNCHANGED fsvars /\ Goto("perfReopen")
    \/ At("perfOpen") /\ Open(key) /\ Goto("perfWrite")
    \/ /\ At("perfWrite")
       /\ IF moved < TestSize /\ Clip(hdr, Len(Contents), seekPosition) = Len(Contents)
            THEN /\ Write(Contents)
                 /\ moved' = moved + Len(Contents)
                 /\ UNCHANGED << at, name, text, printed, shown, commands >>
            ELSE PerfNext("perfReopen")

FileRead ==
    \/ /\ At("perfReopen")
       /\ \/ Open(key) /\ Goto("perfRead")
          \/ Find(Table, key) = NoSector /\ UNCHANGED fsvars /\ Goto("perfRemove")
    \/ /\ At("perfRead")
       /\ IF moved < TestSize /\ ReadAt(hdr, Len(Contents), seekPosition) = Contents
            THEN /\ Read(Len(Contents))
                 /\ moved' = moved + Len(Contents)
                 /\ UNCHANGED << at, name, text, printed, shown, commands >>
            ELSE PerfNext("perfRemove")

PerformanceTest ==
    \/ FileWrite
    \/ FileRead
    \/ /\ At("perfRemove")
       /\ \/ RemoveFile(key) /\ Goto("removed")
          \/ Find(Table, key) = NoSector /\ End(shown)

-----------------------------------------------------------------------------
Start ==
    \/ \E n \in Names : \/ \E t \in Texts : Begin("create", n, t)
                        \/ Begin("printOpen", n, << >>)
                        \/ Begin("remove", n, << >>)
    \/ Begin("perfCreate", TestFile, << >>)

FTNext ==
    \/ WriteSector /\ UNCHANGED cvars
    \/ Mounted
    \/ Start
    \/ Copy
    \/ PrintFile
    \/ RemoveOption
    \/ PerformanceTest

FTSpec == CInit /\ [][FTNext]_ftvars

-----------------------------------------------------------------------------
(* Properties.                                                             *)

Formatted == at # "format"

FTTypeOK ==
    /\ DOMAIN disk = Sectors
    /\ \A i \in DOMAIN todo : todo[i].sector \in Sectors
    /\ made \in 0..NumDirEntries
    /\ hdr.length \in Nat
    /\ DataSectors(hdr) \subseteq Sectors
    /\ seekPosition \in 0..hdr.length
    /\ at \in Points
    /\ name \in Names
    /\ text \in Texts \cup {<< >>}
    /\ moved \in Nat
    /\ Range(printed) \subseteq (UNION {Range(t) : t \in Texts}) \cup {Junk}
    /\ commands \in 0..MaxCommands

\* The directory on the disk without the file that the command is making.
Others == [i \in 1..NumDirEntries |-> IF i = made THEN EmptyEntry ELSE Table[i]]

Used(table) == {i \in DOMAIN table : table[i].inUse}

OwnedBy(e) == {e.sector} \cup DataSectors(disk[e.sector])

\* The sectors of the map and of the directory themselves.
Reserved ==
    {FreeMapSector, DirectorySector}
      \cup DataSectors(disk[FreeMapSector]) \cup DataSectors(disk[DirectorySector])

\* No two files share a sector, each name is there once, and every sector in use
\* is marked; the file that is being removed excepted.  This holds between any
\* two writes, so that a Nachos that stops there leaves the other files whole;
\* and when no command is in progress nothing else is marked: no sector is lost
\* (filesys.cc:198-209, 278-283).
SectorsOwned ==
    LET used == Used(Others)
        kept == {i \in used : todo = << >> \/ Others[i].name # key}
    IN Formatted =>
         /\ \A i \in used : "sectors" \in DOMAIN disk[Others[i].sector]
         /\ \A i, j \in used :
              i # j => /\ OwnedBy(Others[i]) \cap OwnedBy(Others[j]) = {}
                       /\ Others[i].name # Others[j].name
         /\ \A i \in kept : OwnedBy(Others[i]) \subseteq FreeMap \ Reserved
         /\ At("idle") =>
              FreeMap = Reserved \cup UNION {OwnedBy(Table[i]) : i \in Used(Table)}

\* What the disk holds of file k, for a Nachos that is started now.
OnDisk(k) ==
    LET s == Find(Table, k)
    IN IF s = NoSector THEN NoFile ELSE ReadAt(disk[s], disk[s].length, 0)

\* The contents of the files, without the one that the command is making.
Files ==
    [k \in Keys |->
        LET s == Find(Others, k)
        IN IF ~Formatted \/ s = NoSector
             THEN NoFile
             ELSE ReadAt(disk[s], disk[s].length, 0)]

\* A sector write touches no file but the command's own: not its contents, not
\* its header and not its name.  (A directory entry that lies across two sectors
\* has for a moment the sector of the new file and the name of an old one, which may
\* be there again; but then in an entry before it, which is found first, because Add
\* takes the first that is unused.)  (filesys.cc:205-207)
OnlyOwnFile ==
    [][ Formatted =>
          \A k \in Keys : k # key /\ Files[k] # NoFile
                            => OnDisk(k)' = Files[k] ]_disk

\* Open never fails right after Create (ASSERT of fstest.cc:59).
CreatedIsFound == At("open") => FindIndex(Table, key) = made

\* Directory, map, headers and the command under way agree.
FConsistent == FTTypeOK /\ SectorsOwned /\ CreatedIsFound

Commands == INSTANCE AbstractFiles WITH files <- Files

\* The commands do what they promise: what -p shows is what -cp has put there,
\* whatever other files came and went, and a command that fails changes nothing.
ImplementsFiles == Commands!ASpec

\* Both of a command's views: sector by sector, and as a whole.
FilesKept == OnlyOwnFile /\ ImplementsFiles
=============================================================================
