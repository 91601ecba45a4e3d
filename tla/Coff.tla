-------------------------------- MODULE Coff --------------------------------
(***************************************************************************)
(* The converters of bin/: coff2noff.c makes the executables of NachOS,    *)
(* and coff2flat.c images that can be copied to memory as they are.  They  *)
(* read the headers of a COFF file, then copy its sections one by one; the *)
(* header of a NOFF file is written last, in the room left for it.         *)
(***************************************************************************)
EXTENDS Integers, Sequences

CONSTANTS
    NoffHeaderSize, \* sizeof(NoffHeader)
    StackSize,      \* of a flat file: 1024
    CoffFiles,      \* the files, by what their headers say
    Absent          \* in place of a file that does not exist

ASSUME CoffAssumption ==
    /\ NoffHeaderSize \in Nat
    /\ StackSize \in Nat /\ StackSize >= 4
    /\ \A c \in CoffFiles :
          /\ c.f_nscns \in Nat
          /\ c.sections \in Seq([s_name : STRING, s_paddr : Nat, s_size : Nat, raw : Seq(0..255)])

VARIABLES
    converter,      \* "coff2noff" or "coff2flat"
    coff,           \* the file argv[1]
    writable,       \* argv[2] could be opened
    output,         \* the file argv[2]: a header (NOFF) and what comes after it
    noffH,          \* the header in memory
    section,        \* i, of the loop over the sections
    top,            \* of coff2flat: the end of the sections so far
    step,           \* "open", "headers", "sections", "exit 0", "exit 1"
    complaint       \* which of the messages was printed

coffVars == << converter, coff, writable, output, noffH, section, top, step, complaint >>

NoSegment == [virtualAddr |-> 0, inFileAddr |-> 0, size |-> 0]
NoffH0 == [code |-> NoSegment, initData |-> NoSegment, uninitData |-> NoSegment]

\* The sizes alone are set to zero (coff2noff.c:144-147), the rest of an unused
\* segment is not looked at by anybody.
Called ==
    /\ output = Absent
    /\ noffH = NoffH0
    /\ section = 1
    /\ top = 0
    /\ step = "open"
    /\ complaint = "none"

CoffInit ==
    /\ converter \in {"coff2noff", "coff2flat"}
    /\ coff \in CoffFiles \cup {Absent}
    /\ writable \in BOOLEAN
    /\ Called

\* exit(1): coff2noff removes its output before, coff2flat leaves it.
NoffFail == converter = "coff2noff" /\ output' = Absent
FlatFail == converter = "coff2flat" /\ output' = output

Fail(message) ==
    /\ step' = "exit 1"
    /\ complaint' = message
    /\ NoffFail \/ FlatFail
    /\ UNCHANGED << converter, coff, writable, noffH, section, top >>

-----------------------------------------------------------------------------
(* main().                                                                 *)

\* That the second open() failed is not noticed: the test is of fdIn again.
Opened ==
    /\ step = "open"
    /\ IF coff = Absent
         THEN /\ step' = "exit 1"
              /\ complaint' = "perror"
              /\ UNCHANGED output
         ELSE /\ output' = IF writable THEN [header |-> Absent, body |-> << >>] ELSE Absent
              /\ step' = "headers"
              /\ UNCHANGED complaint
    /\ UNCHANGED << converter, coff, writable, noffH, section, top >>

NoffOpen == converter = "coff2noff" /\ Opened
FlatOpen == converter = "coff2flat" /\ Opened

\* The two magic numbers, and as many section headers as the first announces.
Headers ==
    /\ step = "headers"
    /\ IF coff.f_magic # "MIPSELMAGIC" THEN Fail("not MIPSEL")
       ELSE IF coff.magic # "OMAGIC" THEN Fail("not OMAGIC")
       ELSE IF coff.f_nscns > Len(coff.sections) THEN Fail("too short")
       ELSE /\ step' = "sections"
            /\ UNCHANGED << converter, coff, writable, output, noffH, section, top, complaint >>

NoffHeaders == converter = "coff2noff" /\ Headers
FlatHeaders == converter = "coff2flat" /\ Headers

Current == coff.sections[section]

\* The bytes that can be read at s_scnptr are fewer than s_size if the file is
\* too short.  A write can fail at any time.
Copies(h) ==
    \/ Len(Current.raw) < Current.s_size /\ Fail("too short")
    \/ Len(Current.raw) = Current.s_size /\ Fail("cannot write")
    \/ /\ Len(Current.raw) = Current.s_size
       /\ writable
       /\ output' = [output EXCEPT !.body = @ \o Current.raw]
       /\ noffH' = h
       /\ section' = section + 1
       /\ UNCHANGED << converter, coff, writable, top, step, complaint >>

Skips(h) ==
    /\ noffH' = h
    /\ section' = section + 1
    /\ UNCHANGED << converter, coff, writable, output, top, step, complaint >>

\* inNoffFile: what was written so far.
\* Mutant of InNoffFile: the room for the header is not counted.
InNoffFileBare == IF writable THEN Len(output.body) ELSE 0

InNoffFile == NoffHeaderSize + (IF writable THEN Len(output.body) ELSE 0)

Segment == [virtualAddr |-> Current.s_paddr, inFileAddr |-> InNoffFile, size |-> Current.s_size]

\* The second of .bss and .sbss is refused if it begins where the first ends.
AddUninitData ==
    LET u == noffH.uninitData IN
    IF u.size = 0
      THEN Skips([noffH EXCEPT !.uninitData = [Segment EXCEPT !.inFileAddr = 0]])
    ELSE IF Current.s_paddr = u.virtualAddr + u.size THEN Fail("bss and sbss")
    ELSE Skips([noffH EXCEPT !.uninitData.size = @ + Current.s_size])

NoffSection ==
    CASE Current.s_size = 0 -> Skips(noffH)
      [] Current.s_size # 0 /\ Current.s_name = ".text" -> Copies([noffH EXCEPT !.code = Segment])
      [] Current.s_size # 0 /\ Current.s_name \in {".data", ".rdata"} ->
            IF noffH.initData.size # 0 THEN Fail("data and rdata")
            ELSE Copies([noffH EXCEPT !.initData = Segment])
      [] Current.s_size # 0 /\ Current.s_name \in {".bss", ".sbss"} -> AddUninitData
      [] OTHER -> Fail("unknown")

\* Wherever the section belongs, it is written behind the one before.
FlatSection ==
    LET end == Current.s_paddr + Current.s_size IN
    \/ /\ Current.s_name \in {".bss", ".sbss"} \/ (Len(Current.raw) = Current.s_size /\ writable)
       /\ top' = IF end > top THEN end ELSE top
       /\ section' = section + 1
       /\ output' = IF Current.s_name \in {".bss", ".sbss"} THEN output
                    ELSE [output EXCEPT !.body = @ \o Current.raw]
       /\ UNCHANGED << converter, coff, writable, noffH, step, complaint >>
    \/ Current.s_name \notin {".bss", ".sbss"} /\ Len(Current.raw) < Current.s_size /\ Fail("too short")
    \/ Current.s_name \notin {".bss", ".sbss"} /\ Len(Current.raw) = Current.s_size /\ Fail("cannot write")

\* A word at the end, behind zeros: the file is as long as the memory.
Extended(body) ==
    [n \in 1..top + StackSize |->
        IF n > top + StackSize - 4 \/ n > Len(body) THEN 0 ELSE body[n]]

\* After the last section, when everything could be written.
Finished(out) ==
    /\ step = "sections"
    /\ section > coff.f_nscns
    /\ \/ Fail("cannot write")
       \/ /\ writable
          /\ output' = out
          /\ step' = "exit 0"
          /\ UNCHANGED << converter, coff, writable, noffH, section, top, complaint >>

NoffFinish == converter = "coff2noff" /\ Finished([output EXCEPT !.header = noffH])
FlatFinish == converter = "coff2flat" /\ Finished([output EXCEPT !.body = Extended(@)])

\* The turns of the loop over the sections.
Copying == step = "sections" /\ section <= coff.f_nscns

Coff2Noff == NoffOpen \/ NoffHeaders \/ (converter = "coff2noff" /\ Copying /\ NoffSection) \/ NoffFinish
Coff2Flat == FlatOpen \/ FlatHeaders \/ (converter = "coff2flat" /\ Copying /\ FlatSection) \/ FlatFinish

CoffNext == Coff2Noff \/ Coff2Flat

CoffSpec == CoffInit /\ [][CoffNext]_coffVars

-----------------------------------------------------------------------------
(* Properties.                                                             *)

Sections == {coff.sections[n] : n \in 1..coff.f_nscns}

Covers(s, a) == a - s.s_paddr \in 0..s.s_size - 1

\* The byte that the COFF file puts at an address.
CoffByte(a) ==
    LET covers == {s \in Sections : Covers(s, a) /\ s.s_name \notin {".bss", ".sbss"}}
    IN IF covers = {} THEN 0
       ELSE LET s == CHOOSE s \in covers : TRUE IN s.raw[a - s.s_paddr + 1]

End == CHOOSE e \in {s.s_paddr + s.s_size : s \in Sections} \cup {0} :
          \A s \in Sections : s.s_paddr + s.s_size <= e

\* The linker makes one section of each name (coff2noff.c:15-18, test/script).
OneOfEach ==
    \A m, n \in 1..coff.f_nscns : coff.sections[m].s_name = coff.sections[n].s_name => m = n

\* The convention of both programs: "gld with -N -Ttext 0 or ld with -N -T 0",
\* by which the sections fill the addresses from 0 on, none over another.
LinkedAtZero ==
    /\ OneOfEach
    /\ \A a \in 0..End - 1 : \E s \in Sections : Covers(s, a)
    /\ \A s, t \in Sections :
          (\E a \in 0..End - 1 : Covers(s, a) /\ Covers(t, a)) => s = t

\* What the constructor of AddrSpace makes of a NOFF file (addrspace.cc:74-117).
NoffByte(noff, a) ==
    LET in(seg) == a - seg.virtualAddr \in 0..seg.size - 1
        n(seg) == seg.inFileAddr - NoffHeaderSize + a - seg.virtualAddr + 1
        byte(seg) == IF n(seg) \in DOMAIN noff.body THEN noff.body[n(seg)] ELSE Absent
    IN CASE in(noff.header.initData) -> byte(noff.header.initData)
         [] in(noff.header.code) -> byte(noff.header.code)
         [] OTHER -> 0

NoffSpace(noff) == noff.header.code.size + noff.header.initData.size + noff.header.uninitData.size

\* Of an executable that is linked at 0 coff2noff makes a file from which NachOS
\* builds the same memory, in an address space that has room for all of it
\* (coff2noff.c:12-19, addrspace.cc:74-117); when it fails it leaves no output.
NoffFaithful ==
    converter = "coff2noff" =>
        /\ step = "exit 1" => output = Absent
        /\ step = "exit 0" /\ LinkedAtZero =>
              /\ NoffSpace(output) = End
              /\ \A a \in 0..End - 1 : NoffByte(output, a) = CoffByte(a)

\* A flat file is the memory itself if its sections come in the order of their
\* addresses, the uninitialised ones last (coff2flat.c:8-13).
InOrder ==
    \A m, n \in 1..coff.f_nscns :
        m < n => LET s == coff.sections[m] t == coff.sections[n] IN
                 /\ s.s_paddr <= t.s_paddr
                 /\ s.s_name \in {".bss", ".sbss"} => t.s_name \in {".bss", ".sbss"}

FlatFaithful ==
    converter = "coff2flat" /\ step = "exit 0" /\ LinkedAtZero /\ InOrder =>
        /\ Len(output.body) = End + StackSize
        /\ \A a \in 0..End - 1 : output.body[a + 1] = CoffByte(a)

\* What a converter says is in the file it wrote is there.
ConvertsFaithfully == NoffFaithful /\ FlatFaithful

\* coff2noff.c:198-200, "need to check if we have both .bss and .sbss -- make
\* sure they are contiguous": the sections it refuses are not.
RefusedIfApart ==
    complaint = "bss and sbss" =>
        Current.s_paddr # noffH.uninitData.virtualAddr + noffH.uninitData.size
=============================================================================
