------------------------------ MODULE Homework ------------------------------
(***************************************************************************)
(* The programs of unix/homework that only read and write files.           *)
(*                                                                         *)
(* myfind has three versions: homework_2/myfind.c, which counts the        *)
(* files of at most 4096 bytes, homework_4/myfind.c, which counts those of *)
(* more and is the same otherwise, and homework_2/myfind_glob.c, which     *)
(* finds the entries of a directory with glob().  The first two can also   *)
(* look for files by their contents (-comp) or by their names (-name).     *)
(* A tree is a function from files to what the system calls say of them;   *)
(* a stack of frames stands for the recursion of dopath().                 *)
(*                                                                         *)
(* homework_1/timewrite.c writes its input to a file again and again, each *)
(* time in pieces of twice the size.  The condition of the loop over the   *)
(* sizes, "buffersize <= 8,388,608", is 608: it is always true, and        *)
(* buffersize overflows.                                                   *)
(***************************************************************************)
EXTENDS Integers, Sequences, FiniteSets, Bags, SequencesExt

CONSTANTS
    FindJobs,       \* the command lines, with the tree they are given
    LargeSize,      \* 4096
    OpenMax,        \* how many descriptors a process has
    Unknown,        \* the entries or contents of what cannot be read
    Deepest         \* how many frames the stack of the process has room for

\* A job has a program ("homework_2", "homework_4", "glob"), a mode ("TYPE_P",
\* "TYPE_C", "TYPE_N"), a tree, its root, the names of -name, and the contents
\* for -comp.  A file has: stat (lstat succeeds), kind, size, entries (of a
\* directory) or contents; and a name, which is hidden if it begins with a dot.

VARIABLES
    job,
    frames,         \* of dopath(): directory, entries still to come, ret
    count,          \* nreg, ndir, ..., by the kind; nlit or nlrg are "size"
    found,          \* the files printed, a bag
    descriptors,    \* in use; the file to compare with stays open
    finding         \* "main", "walk", "exit 0", "exit 1", "crash"

findVars == << job, frames, count, found, descriptors, finding >>

Kinds == {"S_IFREG", "S_IFDIR", "S_IFBLK", "S_IFCHR", "S_IFIFO", "S_IFLNK", "S_IFSOCK"}

FindCalled ==
    /\ frames = << >>
    /\ count = [k \in Kinds \cup {"size"} |-> 0]
    /\ found = EmptyBag
    /\ descriptors = IF job.mode = "TYPE_C" THEN 4 ELSE 3
    /\ finding = "main"

FindInit == job \in FindJobs /\ FindCalled

FileOf(f) == job.tree[f]
IsDirectory(f) == FileOf(f).kind = "S_IFDIR"
FindEnds(how) == finding' = how

-----------------------------------------------------------------------------
(* The functions that are called for the files.                            *)

\* nlit++ and nlrg++.
\* Mutant of OfSize: a file of 4096 bytes is not counted by either.
OfSizeStrict(f) ==
    IF job.program = "homework_4" THEN FileOf(f).size > LargeSize ELSE FileOf(f).size < LargeSize

OfSize(f) ==
    IF job.program = "homework_4" THEN FileOf(f).size > LargeSize ELSE FileOf(f).size <= LargeSize

\* myfunc1, FIND_F.
CountFile(f) ==
    LET counted == {FileOf(f).kind} \cup (IF OfSize(f) THEN {"size"} ELSE {})
    IN count' = [k \in DOMAIN count |-> count[k] + (IF k \in counted THEN 1 ELSE 0)]

\* myfunc1, FIND_D.
CountDirectory == count' = [count EXCEPT !["S_IFDIR"] = @ + 1]

Opens(f) == descriptors < OpenMax /\ FileOf(f).contents # Unknown

\* memcmp of as many bytes as the file has by lstat(): what was read of them is
\* no longer than the file to compare with, the others can be anything.
Compares(f) ==
    LET read == IF Opens(f) THEN FileOf(f).contents ELSE << >>
        known == {n \in 1..FileOf(f).size : n <= Len(read) /\ n <= Len(job.comp)}
    IN IF \E n \in known : read[n] # job.comp[n] THEN {FALSE}
       ELSE IF Cardinality(known) = FileOf(f).size THEN {TRUE}
       ELSE BOOLEAN

\* myfunc2: the descriptor is not closed.
CompareFile(f) ==
    /\ \E same \in Compares(f) : found' = IF same THEN found (+) SetToBag({f}) ELSE found
    /\ descriptors' = IF Opens(f) THEN descriptors + 1 ELSE descriptors

\* myfunc3.
NameFile(f) ==
    found' = IF FileOf(f).name \in job.names THEN found (+) SetToBag({f}) ELSE found

Function(f) ==
    CASE job.mode = "TYPE_P" -> CountFile(f) /\ UNCHANGED << found, descriptors >>
      [] job.mode = "TYPE_C" -> CompareFile(f) /\ UNCHANGED count
      [] job.mode = "TYPE_N" -> NameFile(f) /\ UNCHANGED << count, descriptors >>

-----------------------------------------------------------------------------
(* dopath().                                                               *)

Hidden(f) == FileOf(f).name[1] = "."
NoLoop(f) == FileOf(f).name \notin {<< "." >>, << ".", "." >>}

Globbed(f) == SelectSeq(FileOf(f).entries, LAMBDA g : ~Hidden(g))

\* The second glob() is of the path given to the program.
EntriesOf(f) ==
    IF job.program = "glob"
      THEN Globbed(f) \o SelectSeq(FileOf(job.root).entries, LAMBDA g : Hidden(g))
    ELSE FileOf(f).entries

\* opendir, which keeps a descriptor.
CanOpenDirectory(f) == FileOf(f).entries # Unknown /\ descriptors < OpenMax

\* ret of a new frame: it is not set for -comp and -name.
RetAtFirst == IF job.mode = "TYPE_P" THEN {0} ELSE {0, 1}

Top == frames[Len(frames)]
Below == SubSeq(frames, 1, Len(frames) - 1)

\* Into the directory f, from the frames that are left to go back to.
EnterDirectory(f, rest) ==
    /\ IF job.mode = "TYPE_P" THEN CountDirectory ELSE UNCHANGED count
    /\ UNCHANGED found
    /\ IF job.program = "glob" /\ (FileOf(f).entries = Unknown \/ Globbed(f) = << >>)
         THEN FindEnds("exit 1") /\ UNCHANGED << frames, descriptors >>
       ELSE IF job.program # "glob" /\ ~CanOpenDirectory(f)
         THEN /\ frames' = rest
              /\ FindEnds(IF rest = << >> THEN "exit 0" ELSE "walk")
              /\ UNCHANGED descriptors
       ELSE IF Len(rest) = Deepest
         THEN FindEnds("crash") /\ UNCHANGED << frames, descriptors >>
       ELSE /\ \E ret \in RetAtFirst :
                 frames' = Append(rest, [left |-> EntriesOf(f), ret |-> ret])
            /\ descriptors' = IF job.program = "glob" THEN descriptors ELSE descriptors + 1
            /\ FindEnds("walk")

(* One turn of the loop over the entries, which dopath() has three times.  *)
(* What is no directory, or cannot be looked into, gives 0.                *)

NextEntry(ret) == Append(Below, [left |-> Tail(Top.left), ret |-> ret])

SkipEntry(f) ==
    /\ ~NoLoop(f) \/ ~FileOf(f).stat
    /\ frames' = NextEntry(IF NoLoop(f) THEN 0 ELSE Top.ret)
    /\ UNCHANGED << count, found, descriptors, finding >>

FileEntry(f) ==
    /\ NoLoop(f) /\ FileOf(f).stat /\ ~IsDirectory(f)
    /\ Function(f)
    /\ frames' = NextEntry(0)
    /\ UNCHANGED finding

DirectoryEntry(f) ==
    /\ NoLoop(f) /\ FileOf(f).stat /\ IsDirectory(f)
    /\ EnterDirectory(f, NextEntry(0))

Entry ==
    /\ finding = "walk"
    /\ frames # << >>
    /\ Top.left # << >>
    /\ LET f == Head(Top.left) IN SkipEntry(f) \/ FileEntry(f) \/ DirectoryEntry(f)
    /\ UNCHANGED job

\* The end of a directory: "ret = dopath(func, type) != 0" ends that of the
\* caller as well if it is not 0; glob does not look at it.
Leave ==
    /\ finding = "walk"
    /\ frames # << >>
    /\ Top.left = << >>
    /\ LET stops == Top.ret # 0 /\ job.program # "glob" IN
       frames' = IF Below = << >> THEN << >>
                 ELSE Append(SubSeq(Below, 1, Len(Below) - 1),
                             [left |-> IF stops THEN << >> ELSE Below[Len(Below)].left,
                              ret |-> IF stops THEN 1 ELSE 0])
    /\ descriptors' = IF job.program = "glob" THEN descriptors ELSE descriptors - 1
    /\ finding' = IF Below # << >> THEN finding ELSE IF Top.ret = 0 THEN "exit 0" ELSE "exit 1"
    /\ UNCHANGED << job, count, found >>

\* main() and myfind() of homework_2 and homework_4.  The path must be a
\* directory, and the file to compare with must be read.
FindMain ==
    /\ finding = "main"
    /\ job.program # "glob"
    /\ LET root == FileOf(job.root) IN
       IF ~root.stat \/ ~IsDirectory(job.root) \/ (job.mode = "TYPE_C" /\ job.comp = Unknown)
         THEN FindEnds("exit 1") /\ UNCHANGED << frames, count, found, descriptors >>
       ELSE EnterDirectory(job.root, << >>)
    /\ UNCHANGED job

\* main() of myfind_glob, which takes any path.
GlobMain ==
    /\ finding = "main"
    /\ job.program = "glob"
    /\ LET root == FileOf(job.root) IN
       IF root.stat /\ IsDirectory(job.root) THEN EnterDirectory(job.root, << >>)
       ELSE /\ IF root.stat THEN CountFile(job.root) ELSE UNCHANGED count
            /\ FindEnds("exit 0")
            /\ UNCHANGED << frames, found, descriptors >>
    /\ UNCHANGED job

FindNext == FindMain \/ GlobMain \/ Entry \/ Leave

-----------------------------------------------------------------------------
(* Properties.                                                             *)

\* What lstat() works for, the root and below.
Reached ==
    LET below(f) == IF IsDirectory(f) /\ FileOf(f).entries # Unknown
                      THEN {g \in ToSet(FileOf(f).entries) : NoLoop(g) /\ FileOf(g).stat} ELSE {}
        upTo[n \in Nat] ==
          IF n = 0 THEN {job.root}
          ELSE LET u == upTo[n - 1] IN u \cup UNION {below(f) : f \in u}
    IN upTo[Deepest]

Directories == {f \in Reached : IsDirectory(f)}
NonDirectories == Reached \ Directories

\* The walk is complete if the descriptors, of which -comp closes none, are
\* enough, if no directory is empty (but for counting: its ret is not set), and,
\* for glob, if nothing is hidden and each directory can be read.
Undisturbed ==
    /\ 4 + Cardinality(DOMAIN job.tree) <= OpenMax
    /\ job.mode # "TYPE_P" =>
          \A f \in Directories :
              FileOf(f).entries # Unknown => \E g \in ToSet(FileOf(f).entries) : NoLoop(g)
    /\ job.program = "glob" =>
          \A f \in Directories :
              /\ FileOf(f).entries # Unknown
              /\ Globbed(f) # << >>
              /\ \A g \in ToSet(FileOf(f).entries) : NoLoop(g) => ~Hidden(g)

Agrees(s) == \A n \in 1..Len(s) : n <= Len(job.comp) => s[n] = job.comp[n]

\* Every file that can be reached is counted once, under its kind and size, or
\* printed once if it has one of the names, whatever else is in the tree; of the
\* regular files printed by -comp none differs in what it and the file have, and
\* none that is equal is missing (myfind.c:152-238, 261-305; myfind_glob.c:56-91).
FilesFound ==
    finding \in {"exit 0", "exit 1", "crash"} /\ Undisturbed
      /\ FileOf(job.root).stat /\ IsDirectory(job.root) /\ job.comp # Unknown =>
        /\ finding = "exit 0"
        /\ job.mode = "TYPE_P" =>
              /\ \A k \in Kinds : count[k] = Cardinality({f \in Reached : FileOf(f).kind = k})
              /\ count["size"] = Cardinality({f \in NonDirectories :
                      IF job.program = "homework_4" THEN FileOf(f).size > LargeSize
                      ELSE FileOf(f).size <= LargeSize})
        /\ job.mode = "TYPE_N" => found = SetToBag({f \in NonDirectories : FileOf(f).name \in job.names})
        /\ job.mode = "TYPE_C" =>
              \A f \in NonDirectories : FileOf(f).kind = "S_IFREG" /\ FileOf(f).contents # Unknown =>
                 /\ FileOf(f).contents = job.comp => f \in DOMAIN found /\ found[f] = 1
                 /\ BagIn(f, found) => Agrees(FileOf(f).contents)

-----------------------------------------------------------------------------
(* timewrite.                                                              *)

CONSTANTS
    IntMax,         \* INT_MAX, 2^31 - 1
    FirstSize,      \* 256
    Inputs,         \* what standard input has
    OldContents     \* of the file that is opened: without O_TRUNC

\* BUFFERSIZE, the most that is read of the input, is half of 2^31.
ASSUME TimeWriteAssumption ==
    /\ IntMax \in Nat
    /\ FirstSize \in 1..IntMax
    /\ Inputs \subseteq Seq(Int)
    /\ \A s \in Inputs : 2 * Len(s) <= IntMax + 1
    /\ OldContents \in Seq(Int)

VARIABLES
    input,          \* buf; length is its own
    outfile,
    buffersize, offset, cnt,
    phase           \* "size", "write", "exit 1"

timeWriteVars == << input, outfile, buffersize, offset, cnt, phase >>

FromFirstSize ==
    /\ outfile = OldContents
    /\ buffersize = FirstSize
    /\ offset = 0
    /\ cnt = 0
    /\ phase = "size"

TimeWriteInit == input \in Inputs /\ FromFirstSize

\* lseek() to the head, and the first test of the inner loop.
NextSize ==
    /\ phase = "size"
    /\ offset' = 0
    /\ cnt' = 0
    /\ phase' = "write"
    /\ UNCHANGED << input, outfile, buffersize >>

\* A negative size is an enormous one to write(), which fails.
WriteSize ==
    LET left == Len(input) - offset IN IF buffersize < left THEN buffersize ELSE left

Put(n) ==
    outfile' = SubSeq(outfile, 1, offset) \o SubSeq(input, offset + 1, offset + n)
                 \o SubSeq(outfile, offset + n + 1, Len(outfile))

WritePiece ==
    /\ phase = "write"
    /\ offset < Len(input)
    /\ WriteSize >= 0
    /\ Put(WriteSize)
    /\ offset' = offset + buffersize
    /\ cnt' = cnt + 1
    /\ UNCHANGED << input, buffersize, phase >>

\* It also fails when the disk is full, or writes less.
WriteError ==
    /\ phase = "write"
    /\ offset < Len(input)
    /\ Put(0) \/ \E n \in 1..WriteSize - 1 : Put(n)
    /\ phase' = "exit 1"
    /\ UNCHANGED << input, buffersize, offset, cnt >>

\* buffersize *= 2, which wraps.
Doubled ==
    LET n == (2 * buffersize) % (2 * (IntMax + 1))
    IN IF n <= IntMax THEN n ELSE n - 2 * (IntMax + 1)

SizeDone ==
    /\ phase = "write"
    /\ offset >= Len(input)
    /\ buffersize' = Doubled
    /\ phase' = "size"
    /\ UNCHANGED << input, outfile, offset, cnt >>

TimeWriteNext == NextSize \/ WritePiece \/ WriteError \/ SizeDone

TimeWriteSpec == TimeWriteInit /\ [][TimeWriteNext]_timeWriteVars

\* After every round, whatever the size of the pieces, the file begins with the
\* whole input, followed by what was longer in it, and the number of pieces is
\* what is printed.  Only an empty input is written with the size 0, and i, an int
\* to which sizes are added, does not overflow (timewrite.c:56-76).
InputWritten ==
    /\ offset <= IntMax
    /\ phase = "write" /\ offset >= Len(input) =>
        /\ outfile = input \o SubSeq(OldContents, Len(input) + 1, Len(OldContents))
        /\ input # << >> =>
              buffersize > 0 /\ cnt = (Len(input) + buffersize - 1) \div buffersize

\* myfind finds what is in its tree, and timewrite writes what it has read.
FilesRight == FilesFound /\ InputWritten
=============================================================================
