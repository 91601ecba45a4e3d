----------------------------- MODULE MCSequential ---------------------------
(***************************************************************************)
(* The parts of the repository that a single thread executes: the          *)
(* processor of NachOS, the times of its disk, its lists, the interpreter  *)
(* and the converters of bin/, myfind and timewrite.  A behaviour is one   *)
(* of one part, in `part`.                                                 *)
(***************************************************************************)
EXTENDS Machine, Emulator, Coff, DiskTime, List, Homework

VARIABLE part

partsVars == << part, vars, evars, coffVars, diskTimeVars, listVars, findVars, timeWriteVars >>

AnyCommand == CHOOSE c \in Executables : TRUE
AnyJob == CHOOSE j \in FindJobs : TRUE

\* The arguments of the programs that are not run do not matter.
PartsInit ==
    /\ part \in {"nachos", "execute", "convert", "disk", "list", "find", "timewrite"}
    /\ IF part = "nachos" THEN Init ELSE program = NoFile /\ Boot
    /\ IF part = "execute" THEN EInit ELSE command = AnyCommand /\ Started
    /\ IF part = "convert" THEN CoffInit
       ELSE coff = Absent /\ converter = "coff2noff" /\ writable = TRUE /\ Called
    /\ DiskTimeInit
    /\ ListInit
    /\ IF part = "find" THEN FindInit ELSE job = AnyJob /\ FindCalled
    /\ IF part = "timewrite" THEN TimeWriteInit ELSE input = << >> /\ FromFirstSize

PartsNext ==
    /\ UNCHANGED part
    /\ \/ part = "nachos" /\ Next
          /\ UNCHANGED << evars, coffVars, diskTimeVars, listVars, findVars, timeWriteVars >>
       \/ part = "execute" /\ ENext
          /\ UNCHANGED << vars, coffVars, diskTimeVars, listVars, findVars, timeWriteVars >>
       \/ part = "convert" /\ CoffNext
          /\ UNCHANGED << vars, evars, diskTimeVars, listVars, findVars, timeWriteVars >>
       \/ part = "disk" /\ DiskTimeNext
          /\ UNCHANGED << vars, evars, coffVars, listVars, findVars, timeWriteVars >>
       \/ part = "list" /\ ListNext
          /\ UNCHANGED << vars, evars, coffVars, diskTimeVars, findVars, timeWriteVars >>
       \/ part = "find" /\ FindNext
          /\ UNCHANGED << vars, evars, coffVars, diskTimeVars, listVars, timeWriteVars >>
       \/ part = "timewrite" /\ TimeWriteNext
          /\ UNCHANGED << vars, evars, coffVars, diskTimeVars, listVars, findVars >>

PartsSpec == PartsInit /\ [][PartsNext]_partsVars

-----------------------------------------------------------------------------
(* Properties.                                                             *)

\* The types of the processors' variables, the dirty bits of the page table, the
\* arguments on the stack and the links of the lists are as they should be
\* (MachineConsistent, EmulatorConsistent, ListWellFormed).
PartsConsistent == MachineConsistent /\ EmulatorConsistent /\ ListWellFormed

-----------------------------------------------------------------------------
(* Values for TLC.  For NachOS: every instruction on pairs of edge values, *)
(* from initialised data; faults, also in delay slots; a loop and a call.  *)
(* In no delay slot of a load is its register used, but by a LWL, a LWR or *)
(* a system call.  OR has equal operands, and SRL and SRLV shift positive  *)
(* words: MCOrs has other ORs.                                             *)

CONSTANT Missing

I(major, rt, rs, imm) == [major |-> major, funct |-> "none", rs |-> rs, rt |-> rt, rd |-> 0, imm |-> imm]
R(funct, rd, rs, rt) == [major |-> "SPECIAL", funct |-> funct, rs |-> rs, rt |-> rt, rd |-> rd, imm |-> 0]
Sh(funct, rd, rt, n) == [R(funct, rd, 0, rt) EXCEPT !.imm = n]
Nop == Sh("SLL", 0, 0, 0)
SP == 7

\* An executable of 4 pages: code, bss, two words of data, and the stack.
File(text, a, b) == [text |-> text, data |-> << a, b >>, dataAt |-> 40, bss |-> 56 - 4 * Len(text) - 16]

\* r1 and r4 get the data, the body runs, and the program halts with r2 = 0.
Prologue == << I("LW", 1, SP, 8), I("LW", 4, SP, 12), Nop >>
Body(seq, a, b) == File(Prologue \o seq \o << R("SYSCALL", 0, 0, 0) >>, a, b)

Edges == {0, 1, 2, 63, 85, 127, 128, 129, 170, 192, 254, 255}

ThreeOperands == {"ADD", "ADDU", "SUB", "SUBU", "AND", "XOR", "NOR", "SLT", "SLTU", "SLLV", "SRAV"}
Products == {"MULT", "MULTU", "DIV", "DIVU"}
Immediates == {"ADDI", "ADDIU", "ANDI", "ORI", "XORI", "SLTI", "SLTIU"}

Arithmetic ==
    {Body(<< R(op, 5, 1, 4), I("SW", 5, SP, 0) >>, a, b) : op \in ThreeOperands, a \in Edges, b \in Edges}
    \cup {Body(<< R("SRLV", 5, 1, 4) >>, a, b) : a \in Edges, b \in {0, 1, 85, 127}}
    \cup {Body(<< R("OR", 5, 1, 1) >>, a, 0) : a \in Edges}
    \cup {Body(<< R(op, 0, 1, 4), R("MFHI", 5, 0, 0), R("MFLO", 4, 0, 0) >>, a, b) :
            op \in Products, a \in Edges, b \in Edges}
    \cup {Body(<< R("MTHI", 0, 1, 0), R("MTLO", 0, 4, 0) >>, 3, 7)}
    \cup {Body(<< I(op, 5, 1, n) >>, a, 0) : op \in Immediates, a \in Edges, n \in {0, 7, 8, 15}}
    \cup {Body(<< Sh(op, 5, 1, n) >>, a, 0) : op \in {"SLL", "SRA"}, a \in Edges, n \in {0, 1, 7}}
    \cup {Body(<< Sh("SRL", 5, 1, n) >>, a, 0) : a \in {0, 85, 127}, n \in {0, 1, 7}}
    \cup {Body(<< I("LUI", 5, 0, n) >>, 0, 0) : n \in {0, 9}}

\* The delay slot adds 1 to r5, what is jumped over adds 2.
Branches ==
    {Body(<< I(op, rt, 1, 2), I("ADDIU", 5, 5, 1), I("ADDIU", 5, 5, 2) >>, a, b) :
        << op, rt >> \in {<< "BEQ", 4 >>, << "BNE", 4 >>, << "BLEZ", 0 >>, << "BGTZ", 0 >>,
                          << "BCOND", 0 >>, << "BCOND", 1 >>, << "BCOND", 16 >>,
                          << "BCOND", 17 >>, << "BCOND", 2 >>},
        a \in Edges, b \in {0, 85}}
    \cup {Body(<< I(op, 0, 0, 6), I("ADDIU", 5, 5, 1), I("ADDIU", 5, 5, 2) >>, 0, 0) : op \in {"J", "JAL"}}
    \cup {Body(<< R("JALR", 5, 1, 0), I("ADDIU", 4, 4, 1), I("ADDIU", 5, 5, 2) >>, 24, 0)}

\* Loads, with the effective address from the data; LWL and LWR use the register
\* of the load before them.
Accesses ==
    {Body(<< I(op, 5, 1, n), Nop, R("ADDU", 4, 5, 5) >>, a, b) :
        op \in {"LB", "LBU", "LH", "LHU", "LW", "LWL", "LWR"},
        n \in {0, 8}, a \in {40, 44, 45, 46, 66, 250}, b \in {141, 228}}
    \cup {Body(<< I("LW", 5, SP, 12), I(op, 5, SP, 8), Nop >>, 141, 228) : op \in {"LW", "LWL", "LWR"}}
    \cup {Body(<< I(op, 4, 1, n) >>, a, b) :
        op \in {"SB", "SH", "SW", "SWL", "SWR"},
        n \in {0, 8}, a \in {40, 44, 45, 46, 66, 250}, b \in {141, 228}}

Others ==
    { Body(<< I("UNIMP", 0, 0, 0) >>, 0, 0),
      Body(<< R("RES", 0, 0, 0) >>, 0, 0),
      \* An overflow in the delay slot of a branch that is taken.
      Body(<< I("BEQ", 0, 0, 2), R("ADD", 5, 1, 1) >>, 127, 0),
      \* A load to register 0, and the code of the system call loaded just before it.
      Body(<< I("LW", 0, SP, 8), R("ADDU", 5, 0, 0), I("LW", 2, SP, 8) >>, 1, 0),
      Body(<< I("LW", 2, SP, 12) >>, 1, 0),
      \* r4 counts down from 2 in a loop that adds r1 to r5.
      Body(<< R("ADDU", 5, 5, 1), I("BNE", 0, 4, 14), I("ADDIU", 4, 4, 15) >>, 3, 2),
      \* A function that is called, and returns.
      File(<< I("JAL", 0, 0, 4), I("ADDIU", 1, 0, 5), R("SYSCALL", 0, 0, 0), Nop,
              R("JR", 0, 5, 0), R("ADDU", 4, 1, 1) >>, 0, 0),
      \* Jumps to an address that is not aligned, and out of the program.
      Body(<< R("JR", 0, 1, 0), Nop >>, 41, 0),
      Body(<< R("JR", 0, 1, 0), Nop >>, 128, 0),
      \* More than there is memory for.
      [File(<< Nop >>, 0, 0) EXCEPT !.bss = 40] }

\* OR of different operands.
MCOrs == {Body(<< R("OR", 5, 1, 4) >>, a, b) : a \in Edges, b \in Edges}

MCPrograms == Arithmetic \cup Branches \cup Accesses \cup Others

-----------------------------------------------------------------------------
(* For the interpreter.  There are no overflows and no misaligned          *)
(* addresses, which it does not notice; products are of small numbers and  *)
(* the immediates of logical instructions positive, LWL and LWR meet       *)
(* zeros, SWL and SWR are missing, and the jumps are not in delay slots.   *)

Header(vaddr, raw) == [s_vaddr |-> vaddr, s_scnptr |-> 1, raw |-> raw]
WordBytes(w) == [n \in 1..4 |-> ByteOf(w, n - 1)]

\* The data is below the initial stack pointer.
Command(text, a, b) ==
    [opens |-> TRUE, mipsel |-> TRUE, argv |-> << << 1 >>, << 2 >> >>, text |-> text,
     sections |-> [name \in {".text", ".data", ".sbss"} |->
        CASE name = ".text" -> Header(64, << >>)
          [] name = ".data" -> Header(104, WordBytes(a) \o WordBytes(b))
          [] name = ".sbss" -> [Header(112, << 3 >>) EXCEPT !.s_scnptr = 0]]]

Exit == << I("ADDIU", 2, 0, 1), R("SYSCALL", 0, 0, 0) >>
EBody(seq, a, b) == Command(Prologue \o seq \o Exit, a, b)

Small == {0, 1, 3, 15, 241, 255}

EArithmetic ==
    {EBody(<< R(op, 5, 1, 4), I("SW", 5, SP, 0) >>, a, b) :
        op \in (ThreeOperands \ {"ADD", "SUB"}) \cup {"OR", "SRLV"}, a \in Edges, b \in Edges}
    \cup {EBody(<< R(op, 5, 1, 4) >>, a, b) : op \in {"ADD", "SUB"}, a \in {0, 1, 63, 255}, b \in {1, 63, 192}}
    \cup {EBody(<< R(op, 0, 1, 4), R("MFHI", 5, 0, 0), R("MFLO", 4, 0, 0) >>, a, b) :
            op \in {"MULT", "DIV"}, a \in Small, b \in Small \ {0}}
    \cup {EBody(<< R(op, 0, 1, 4) >>, a, b) : op \in {"MULTU", "DIVU"}, a \in {0, 9, 15}, b \in {1, 4, 15}}
    \cup {EBody(<< R("DIV", 0, 1, 4) >>, 128, 255)}
    \cup {EBody(<< R("MTHI", 0, 1, 0), R("MTLO", 0, 4, 0) >>, 3, 7)}
    \cup {EBody(<< I(op, 5, 1, n) >>, a, 0) : op \in {"ADDIU", "SLTI", "SLTIU"}, a \in Edges, n \in {0, 7, 8, 15}}
    \cup {EBody(<< I(op, 5, 1, n) >>, a, 0) : op \in {"ADDI", "ANDI", "ORI", "XORI"}, a \in {0, 5, 85, 170}, n \in {0, 7}}
    \cup {EBody(<< Sh(op, 5, 1, n) >>, a, 0) : op \in {"SLL", "SRA", "SRL"}, a \in Edges, n \in {0, 1, 7}}
    \cup {EBody(<< I("LUI", 5, 0, n) >>, 0, 0) : n \in {0, 9}}

EBranches ==
    {EBody(<< I(op, rt, 1, 2), I("ADDIU", 5, 5, 1), I("ADDIU", 5, 5, 2) >>, a, b) :
        << op, rt >> \in {<< "BEQ", 4 >>, << "BNE", 4 >>, << "BLEZ", 0 >>, << "BGTZ", 0 >>,
                          << "BCOND", 0 >>, << "BCOND", 1 >>, << "BCOND", 16 >>,
                          << "BCOND", 17 >>, << "BCOND", 2 >>},
        a \in Edges, b \in {0, 85}}
    \cup {EBody(<< I(op, 0, 0, 6), I("ADDIU", 5, 5, 1), I("ADDIU", 5, 5, 2) >>, 0, 0) : op \in {"J", "JAL"}}
    \cup {EBody(<< R(op, 1, 1, 0), I("ADDIU", 4, 4, 1), I("ADDIU", 5, 5, 2) >>, 88, 0) : op \in {"JALR", "JR"}}

EAccesses ==
    {EBody(<< I(op, 5, 1, n), R("ADDU", 4, 5, 5) >>, a, 141) :
        op \in {"LB", "LBU", "LH", "LHU", "LW", "LWL"}, n \in {0, 8}, a \in {104, 108, 116, 128}}
    \cup {EBody(<< I("LWR", 5, 1, 0) >>, 108, 0)}
    \cup {EBody(<< I(op, 4, 1, n) >>, a, 228) : op \in {"SB", "SH", "SW"}, n \in {0, 8}, a \in {104, 108, 128}}
    \cup {EBody(<< I("LW", 0, SP, 8), R("ADDU", 5, 0, 0) >>, 1, 0)}

\* r1 is the number of the call, the buffer is at SP - 8, of 3 bytes.
ECalls ==
    {EBody(<< R("ADDU", 2, 1, 0), I("ADDIU", 5, SP, 8), I("ADDIU", 6, 0, 3), R(trap, 0, 0, 0) >>, call, 0) :
        trap \in {"SYSCALL", "BREAK"}, call \in {2, 3, 4, 5, 6, 17, 19, 54, 62, 64}}
    \cup {Command(<< I("ADDIU", 2, 0, 3), I("ADDIU", 6, 0, 3), R("SYSCALL", 0, 0, 0) >>, 0, 0)}

EOthers ==
    LET plain == Command(Exit, 5, 6) IN
    { plain, [plain EXCEPT !.opens = FALSE], [plain EXCEPT !.mipsel = FALSE],
      [plain EXCEPT !.argv = << << 2, 1 >> >>],
      [plain EXCEPT !.argv = << << >>, << >>, << >> >>],
      \* Too much for the memory.
      [plain EXCEPT !.sections[".data"] = Header(124, WordBytes(5))],
      \* Unknown instructions, a coprocessor, and what is not implemented.
      EBody(<< R("RES", 0, 0, 0) >>, 0, 0), EBody(<< I("UNIMP", 0, 0, 0) >>, 0, 0),
      \* A jump out of the memory.
      EBody(<< R("JR", 0, 1, 0), Nop >>, 132, 0) }

MCExecutables == EArithmetic \cup EBranches \cup EAccesses \cup ECalls \cup EOthers

-----------------------------------------------------------------------------
(* For the converters.                                                     *)

Part(name, paddr, raw) == [s_name |-> name, s_paddr |-> paddr, s_size |-> Len(raw), raw |-> raw]
Object(sections) == [f_magic |-> "MIPSELMAGIC", magic |-> "OMAGIC", f_nscns |-> Len(sections), sections |-> sections]

Text == Part(".text", 0, << 1, 2, 3 >>)
Data(a) == Part(".data", a, << 2, 1 >>)
Bss(name, a) == Part(name, a, << 0, 0 >>)
Empty(name) == Part(name, 0, << >>)

MCCoffFiles ==
    LET usual == Object(<< Text, Data(3), Bss(".bss", 5) >>) IN
    { usual,
      Object(<< Text, Empty(".rdata"), Data(3), Empty(".sbss"), Bss(".bss", 5) >>),
      Object(<< Data(3), Text, Bss(".sbss", 5) >>),
      Object(<< Text, Part(".rdata", 3, << 3 >>) >>),
      Object(<< Bss(".bss", 3), Text, Data(5) >>),
      \* Both kinds of data, and both of uninitialised data, together and apart.
      Object(<< Text, Data(3), Part(".rdata", 5, << 3 >>) >>),
      Object(<< Text, Bss(".sbss", 3), Bss(".bss", 5) >>),
      Object(<< Text, Bss(".sbss", 3), Data(5), Bss(".bss", 7) >>),
      \* A gap, an unknown section, and what is not an executable.
      Object(<< Text, Data(4) >>),
      Object(<< Text, Part(".sdata", 3, << 1 >>) >>),
      [usual EXCEPT !.f_magic = "other"], [usual EXCEPT !.magic = "other"],
      [usual EXCEPT !.f_nscns = 4],
      [usual EXCEPT !.sections[2].s_size = 3] }
-----------------------------------------------------------------------------
(* For the list and myfind.                                                *)

CONSTANTS e1, e2, e3, thing1, thing2

Plain(name, kind, size) ==
    [stat |-> TRUE, kind |-> kind, name |-> name, size |-> size, entries |-> Missing, contents |-> Missing]
Regular(name, contents) == [Plain(name, "S_IFREG", Len(contents)) EXCEPT !.contents = contents]
Directory(name, entries) == [Plain(name, "S_IFDIR", 3) EXCEPT !.entries = entries]
Loops == [dot |-> Directory(<< "." >>, Missing), dots |-> Directory(<< ".", "." >>, Missing)]

\* A link is followed by open(), not by lstat().
Trees ==
    LET whole == [ root |-> Directory(<< "r" >>, << "dot", "x", "d", "dots", "y", "m", "z" >>),
                   x |-> Regular(<< "x" >>, << 1, 2 >>),
                   y |-> [Plain(<< "y" >>, "S_IFLNK", 1) EXCEPT !.contents = << 1, 2, 3 >>],
                   z |-> Regular(<< "x" >>, << 1 >>),
                   d |-> Directory(<< "d" >>, << "dots", "w", "dot", "v" >>),
                   w |-> Regular(<< "w" >>, << 1, 2, 1 >>),
                   v |-> Regular(<< "x" >>, << 2, 1 >>),
                   m |-> Directory(<< "m" >>, << "p", "dot", "dots" >>),
                   p |-> Plain(<< "p" >>, "S_IFIFO", 0) ] @@ Loops
    IN { whole,
         [whole EXCEPT !.d.entries = << "dot", "dots" >>],
         [whole EXCEPT !.d.entries = Missing, !.x.contents = Missing, !.y.stat = FALSE],
         [whole EXCEPT !.x.name = << ".", "x" >>, !.m.name = << ".", "m" >>],
         [whole EXCEPT !.root = Plain(<< "r" >>, "S_IFREG", 2)],
         [whole EXCEPT !.root.stat = FALSE] }

MCFindJobs ==
    { [program |-> version, mode |-> mode, tree |-> tree, root |-> "root", names |-> names, comp |-> comp] :
        << version, mode, names, comp >> \in
            ({"homework_2", "homework_4", "glob"} \X {"TYPE_P"} \X {{}} \X {<< >>})
            \cup ({"homework_4"} \X {"TYPE_N"} \X {{<< "x" >>, << "d" >>}} \X {<< >>})
            \cup ({"homework_4"} \X {"TYPE_C"} \X {{}} \X {<< 1, 2 >>, Missing}),
        tree \in Trees }

MCInputs == {[n \in 1..k |-> n] : k \in 0..8}
MCOldContents == << 0, 0, 0, 0, 0 >>
=============================================================================
