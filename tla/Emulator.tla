------------------------------ MODULE Emulator ------------------------------
(***************************************************************************)
(* The other simulator of the MIPS, bin/main.c, execute.c and system.c: an *)
(* interpreter that loads a COFF executable at memoffset, gives it its     *)
(* arguments on the stack and serves its system calls with those of the    *)
(* host.  It has no page tables, no pending loads and no exceptions; what  *)
(* C leaves undefined (an access outside of mem, a division by zero) ends  *)
(* the model with the outcome "crash".                                     *)
(*                                                                         *)
(* An operation of the processor takes and gives a record c of what the    *)
(* instruction changes.  The names are those of the cases of runprogram(). *)
(***************************************************************************)
EXTENDS Words, Sequences

CONSTANTS
    memoffset,      \* the lowest address of a program: 0x10000000
    MEMSIZE,        \* 1 << 24
    StackRoom,      \* what is left for the arguments, and below it: 1024
    ArgRoom,        \* the room for pointers to arguments: 32
    BreakUnit,      \* the multiple of call 17: 8192
    InputByte,      \* what files consist of
    Executables     \* command lines: an argv and the file it names

ASSUME EmulatorAssumption ==
    /\ {memoffset, MEMSIZE, StackRoom, ArgRoom, BreakUnit} \subseteq Nat \ {0}
    /\ StackRoom < MEMSIZE
    /\ memoffset + MEMSIZE < 2^WordBits
    /\ InputByte \in Byte

VARIABLES
    command,        \* the command line
    Reg, HI, LO,
    mem,            \* mem, by the addresses of the program
    pc, npc,
    outcome         \* "boot", "user", "halted", "aborted", "crash"

evars == << command, Reg, HI, LO, mem, pc, npc, outcome >>

Addresses == memoffset..memoffset + MEMSIZE - 1
InitialSP == memoffset + MEMSIZE - StackRoom

Started ==
    /\ Reg = [r \in 0..NumGPRegs - 1 |-> 0]
    /\ HI = 0
    /\ LO = 0
    /\ mem = [a \in Addresses |-> 0]
    /\ pc = memoffset
    /\ npc = memoffset + 4
    /\ outcome = "boot"

EInit == command \in Executables /\ Started

-----------------------------------------------------------------------------
(* The accesses of int.h.  The program's address indexes mem directly.     *)

InMem(a, n) == a..a + n - 1 \subseteq Addresses

Poke(m, a, n, v) ==
    [x \in DOMAIN m |-> IF x - a \in 0..n - 1 THEN ByteOf(v, x - a) ELSE m[x]]

-----------------------------------------------------------------------------
(* load_program: the sections that are there and have data in the file.    *)

SectionNames == << ".text", ".rdata", ".data", ".sdata", ".sbss", ".bss" >>

LoadedSections ==
    {k \in 1..Len(SectionNames) :
        /\ SectionNames[k] \in DOMAIN command.sections
        /\ command.sections[SectionNames[k]].s_scnptr # 0}

Sec(k) == command.sections[SectionNames[k]]

\* Of two sections at one address the later one stays.  The code is read from
\* command.text, and the bytes of .text are zero.
Loaded ==
    [a \in Addresses |->
        LET covers == {k \in LoadedSections :
                         a - Sec(k).s_vaddr \in 0..Len(Sec(k).raw) - 1}
        IN IF covers = {} THEN 0
           ELSE LET k == CHOOSE k \in covers : \A l \in covers : l <= k
                IN Sec(k).raw[a - Sec(k).s_vaddr + 1]]

\* The first section whose bytes reach the end of mem ends the load.
TooLarge ==
    \E k \in LoadedSections :
        Sec(k).s_vaddr + Len(Sec(k).raw) >= memoffset + MEMSIZE

-----------------------------------------------------------------------------
(* The arguments: argc, pointers, and from ArgRoom bytes on the strings.   *)

\* Mutant of AfterString: the null byte is not counted.
AfterStringShort(ai, s) == ai + Len(s)

AfterString(ai, s) == ai + Len(s) + 1

PutString(m, a, s) ==
    [x \in DOMAIN m |-> CASE x - a \in 0..Len(s) - 1 -> s[x - a + 1]
                          [] x = a + Len(s) -> 0
                          [] OTHER -> m[x]]

\* The memory and the variable ai after j turns of the loop.
WithArgs(m, argv) ==
    LET turn[j \in 0..Len(argv)] ==
          IF j = 0 THEN << Poke(m, InitialSP, 4, Len(argv)), InitialSP + 4 + ArgRoom >>
          ELSE LET t == turn[j - 1]
               IN << Poke(PutString(t[1], t[2], argv[j]), InitialSP + 4 * j, 4, t[2]),
                     AfterString(t[2], argv[j]) >>
    IN turn[Len(argv)][1]

\* main(), up to the first instruction.  The file that was closed after the first
\* attempt to open it is read once more, in the place ldopen() gives it.
LoadProgram ==
    /\ outcome = "boot"
    /\ IF ~command.opens \/ ~command.mipsel \/ TooLarge THEN
         /\ outcome' = "aborted"
         /\ UNCHANGED << Reg, mem >>
       ELSE
         /\ outcome' = "user"
         /\ mem' = WithArgs(Loaded, command.argv)
         /\ Reg' = [Reg EXCEPT ![StackReg] = InitialSP]
    /\ UNCHANGED << command, HI, LO, pc, npc >>

-----------------------------------------------------------------------------
(* The instructions.                                                       *)

Set(c, r, v) == [c EXCEPT !.Reg[r] = v]
Go(c, target) == [c EXCEPT !.npc = target]
Ends(c, how) == [c EXCEPT !.outcome = how]

RS(c, i) == c.Reg[i.rs]
RT(c, i) == c.Reg[i.rt]
immed(i) == Wrap(SignedBits(i.imm, HalfBits))
EAddress(c, i) == Wrap(RS(c, i) + immed(i))
NearTarget(c, i) == Wrap(c.xpc + 4 + IndexToAddr(immed(i)))

\* The codes of encode.h, by what they name: in the major field, in the field of
\* functions of I_SPECIAL, and in the register field of I_BCOND.
MajorCodes ==
    {"SPECIAL", "BCOND", "J", "JAL", "BEQ", "BNE", "BLEZ", "BGTZ", "ADDI", "ADDIU",
     "SLTI", "SLTIU", "ANDI", "ORI", "XORI", "LUI", "LB", "LH", "LWL", "LW", "LBU",
     "LHU", "LWR", "SB", "SH", "SWL", "SW", "SWR"}
FunctionCodes ==
    {"SLL", "SRL", "SRA", "SLLV", "SRLV", "SRAV", "JR", "JALR", "SYSCALL", "BREAK",
     "MFHI", "MTHI", "MFLO", "MTLO", "MULT", "MULTU", "DIV", "DIVU", "ADD", "ADDU",
     "SUB", "SUBU", "AND", "OR", "XOR", "NOR", "SLT", "SLTU"}
BranchCodes == {0, 1, 16, 17}

\* I_SLL to I_SRAV.  The host takes the count of a shift modulo the word.
Shift(c, i) ==
    LET n == IF i.funct \in {"SLL", "SRL", "SRA"} THEN i.imm ELSE RS(c, i) % WordBits
    IN Set(c, i.rd, CASE i.funct \in {"SLL", "SLLV"} -> ShiftLeft(RT(c, i), n)
                      [] i.funct \in {"SRL", "SRLV"} -> RT(c, i) \div 2^n
                      [] OTHER -> ShiftRight(RT(c, i), n))

\* I_JR and I_JALR: the register is read before the link is written.
JumpRegister(c, i) ==
    IF i.funct = "JR" THEN Go(c, RS(c, i))
    ELSE Set(Go(c, RS(c, i)), i.rd, Wrap(c.xpc + 8))

\* I_MFHI to I_MTLO.
MoveHiLo(c, i) ==
    CASE i.funct = "MFHI" -> Set(c, i.rd, c.HI)
      [] i.funct = "MFLO" -> Set(c, i.rd, c.LO)
      [] i.funct = "MTHI" -> [c EXCEPT !.HI = RS(c, i)]
      [] i.funct = "MTLO" -> [c EXCEPT !.LO = RS(c, i)]

\* I_MULT and I_MULTU.  HI adds up the halves of the cross products, and loses
\* what they carry.
Multiply(c, i) ==
    LET signed == i.funct = "MULT"
        neg == signed /\ Negative(RS(c, i)) # Negative(RT(c, i))
        Abs(w) == IF signed /\ Negative(w) THEN Wrap(-w) ELSE w
        t1 == Abs(RS(c, i))
        t2 == Abs(RT(c, i))
        High(w) == w \div 2^HalfBits
        Cross(h, l) == ShiftRight(Wrap(h * l), HalfBits)
        hi == Wrap(High(t1) * High(t2) + Cross(High(t1), Low16(t2)) + Cross(High(t2), Low16(t1)))
        lo == Wrap(t1 * t2)
        minus == Wrap(-lo)
    IN IF neg THEN [c EXCEPT !.LO = minus, !.HI = Wrap(Complement(hi) + Flag(minus = 0))]
       ELSE [c EXCEPT !.LO = lo, !.HI = hi]

\* I_DIV and I_DIVU, with the division of the host.
DivideC(c, i) ==
    LET a == Signed(RS(c, i))
        b == Signed(RT(c, i))
    IN IF b = 0 THEN Ends(c, "crash")
       ELSE IF i.funct = "DIVU"
         THEN [c EXCEPT !.LO = RS(c, i) \div RT(c, i), !.HI = RS(c, i) % RT(c, i)]
       ELSE IF DivC(a, b) \notin SignedWords THEN Ends(c, "crash")
       ELSE [c EXCEPT !.LO = Wrap(DivC(a, b)), !.HI = Wrap(RemC(a, b))]

\* I_ADD to I_SLTU.
Operate(c, i) ==
    LET a == RS(c, i) b == RT(c, i) IN
    Set(c, i.rd, CASE i.funct \in {"ADD", "ADDU"} -> Wrap(a + b)
                   [] i.funct \in {"SUB", "SUBU"} -> Wrap(a - b)
                   [] i.funct = "AND" -> a & b
                   [] i.funct = "OR" -> a | b
                   [] i.funct = "XOR" -> a ^^ b
                   [] i.funct = "NOR" -> Complement(a | b)
                   [] i.funct = "SLT" -> Flag(Signed(a) < Signed(b))
                   [] i.funct = "SLTU" -> Flag(a < b))

\* The inner switch.  The system calls are not here.
Special(c, i) ==
    CASE i.funct \notin FunctionCodes -> Ends(c, "aborted")
      [] i.funct \in {"SLL", "SRL", "SRA", "SLLV", "SRLV", "SRAV"} -> Shift(c, i)
      [] i.funct \in {"JR", "JALR"} -> JumpRegister(c, i)
      [] i.funct \in {"MFHI", "MTHI", "MFLO", "MTLO"} -> MoveHiLo(c, i)
      [] i.funct \in {"MULT", "MULTU"} -> Multiply(c, i)
      [] i.funct \in {"DIV", "DIVU"} -> DivideC(c, i)
      [] OTHER -> Operate(c, i)

\* I_BCOND, by the register field: the link is written before the test.
BranchCond(c, i) ==
    LET l == IF i.rt \in {16, 17} THEN Set(c, R31, Wrap(c.xpc + 8)) ELSE c
        taken == IF i.rt \in {0, 16} THEN Negative(RS(l, i)) ELSE ~Negative(RS(l, i))
    IN IF i.rt \notin BranchCodes THEN Ends(c, "aborted")
       ELSE IF taken THEN Go(l, NearTarget(c, i)) ELSE l

\* I_J and I_JAL: the target is in the region of the jump.
JumpFar(c, i) ==
    LET l == IF i.major = "JAL" THEN Set(c, R31, Wrap(c.xpc + 8)) ELSE c
    IN Go(l, c.xpc - (c.xpc % RegionSize) + IndexToAddr(i.imm))

\* I_BEQ to I_BGTZ.
\* Mutant of BranchNear: the offset is taken from the branch itself.
BranchNearEarly(c, i) ==
    LET a == Signed(RS(c, i))
        taken == CASE i.major = "BEQ" -> RS(c, i) = RT(c, i)
                   [] i.major = "BNE" -> RS(c, i) # RT(c, i)
                   [] i.major = "BLEZ" -> a <= 0
                   [] i.major = "BGTZ" -> a > 0
    IN IF taken THEN Go(c, Wrap(c.xpc + IndexToAddr(immed(i)))) ELSE c

BranchNear(c, i) ==
    LET a == Signed(RS(c, i))
        taken == CASE i.major = "BEQ" -> RS(c, i) = RT(c, i)
                   [] i.major = "BNE" -> RS(c, i) # RT(c, i)
                   [] i.major = "BLEZ" -> a <= 0
                   [] i.major = "BGTZ" -> a > 0
    IN IF taken THEN Go(c, NearTarget(c, i)) ELSE c

\* I_ADDI to I_LUI: nothing overflows, and every immediate is sign-extended.
OperateImmediate(c, i) ==
    LET a == RS(c, i) n == immed(i) IN
    Set(c, i.rt, CASE i.major \in {"ADDI", "ADDIU"} -> Wrap(a + n)
                   [] i.major = "SLTI" -> Flag(Signed(a) < Signed(n))
                   [] i.major = "SLTIU" -> Flag(a < n)
                   [] i.major = "ANDI" -> a & n
                   [] i.major = "ORI" -> a | n
                   [] i.major = "XORI" -> a ^^ n
                   [] i.major = "LUI" -> ShiftLeft(i.imm, HalfBits))

AccessSize(op) == CASE op \in {"LB", "LBU", "SB"} -> 1
                    [] op \in {"LH", "LHU", "SH"} -> 2
                    [] OTHER -> 4

\* I_LWL and I_LWR: the masks are shifts of -1, which stays -1 when it is
\* shifted right.
MergeLeft(c, i, word, n) == RT(c, i) | ShiftLeft(word, n * ByteBits)
MergeRight(c, i, word, n) ==
    IF n = 0 THEN word
    ELSE (RT(c, i) & ShiftLeft(2^WordBits - 1, n * ByteBits)) | ShiftRight(word, (4 - n) * ByteBits)

\* I_LB to I_LWR.
LoadMem(c, i) ==
    LET a == EAddress(c, i)
        n == a % 4
        partial == i.major \in {"LWL", "LWR"}
        from == IF partial THEN a - n ELSE a
        size == AccessSize(i.major)
        v == FromBytes(c.mem, from, size)
    IN IF ~InMem(from, size) THEN Ends(c, "crash")
       ELSE Set(c, i.rt, CASE i.major \in {"LB", "LH"} -> Wrap(SignedBits(v, size * ByteBits))
                           [] i.major = "LWL" -> MergeLeft(c, i, v, n)
                           [] i.major = "LWR" -> MergeRight(c, i, v, n)
                           [] OTHER -> v)

\* I_SB to I_SWR: the last two are not implemented.
StoreMem(c, i) ==
    LET a == EAddress(c, i)
        size == AccessSize(i.major)
    IN IF i.major \in {"SWL", "SWR"} THEN Ends(c, "aborted")
       ELSE IF ~InMem(a, size) THEN Ends(c, "crash")
       ELSE [c EXCEPT !.mem = Poke(@, a, size, RT(c, i))]

\* The outer switch.  Coprocessors and unknown codes end the interpreter.
Interpret(c, i) ==
    CASE i.major \notin MajorCodes -> Ends(c, "aborted")
      [] i.major = "SPECIAL" -> Special(c, i)
      [] i.major = "BCOND" -> BranchCond(c, i)
      [] i.major \in {"J", "JAL"} -> JumpFar(c, i)
      [] i.major \in {"BEQ", "BNE", "BLEZ", "BGTZ"} -> BranchNear(c, i)
      [] i.major \in {"ADDI", "ADDIU", "SLTI", "SLTIU", "ANDI", "ORI", "XORI", "LUI"}
            -> OperateImmediate(c, i)
      [] i.major \in {"LB", "LH", "LWL", "LW", "LBU", "LHU", "LWR"} -> LoadMem(c, i)
      [] i.major \in {"SB", "SH", "SWL", "SW", "SWR"} -> StoreMem(c, i)

-----------------------------------------------------------------------------
(* The loop of runprogram().                                               *)

\* ifetch: behind the code there are zeros, which are no-ops.
Instr ==
    LET n == (pc - memoffset) \div 4 + 1
    IN IF n \in DOMAIN command.text THEN command.text[n]
       ELSE [major |-> "SPECIAL", funct |-> "SLL", rs |-> 0, rt |-> 0, rd |-> 0, imm |-> 0]

Trapping == InMem(pc, 4) /\ Instr.major = "SPECIAL" /\ Instr.funct \in {"SYSCALL", "BREAK"}

\* Register 0 is cleared, and the delay slot comes before the target.
Begun == [Reg |-> [Reg EXCEPT ![0] = 0], HI |-> HI, LO |-> LO, mem |-> mem,
          xpc |-> pc, npc |-> Wrap(npc + 4), outcome |-> "user"]

Becomes(c) ==
    /\ outcome' = c.outcome
    /\ IF c.outcome = "user"
         THEN /\ Reg' = c.Reg
              /\ HI' = c.HI
              /\ LO' = c.LO
              /\ mem' = c.mem
              /\ pc' = npc
              /\ npc' = c.npc
         ELSE UNCHANGED << Reg, HI, LO, mem, pc, npc >>
    /\ UNCHANGED command

Instruction ==
    /\ outcome = "user"
    /\ ~Trapping
    /\ Becomes(IF InMem(pc, 4) THEN Interpret(Begun, Instr) ELSE Ends(Begun, "crash"))

-----------------------------------------------------------------------------
(* system_trap.  The calls of the host can fail.                           *)

Failed == Wrap(-1)

\* What a call that returns may leave in register 1.
Returns(call, o0, o1, o2) ==
    CASE call \in {3, 4} -> {Failed} \cup 0..o2                     \* read, write
      [] call = 5 -> {Failed, 3}                                    \* open
      [] call = 6 -> {0}                                            \* close
      [] call = 17 -> {Wrap((DivC(Signed(o0), BreakUnit) + 1) * BreakUnit)}
      [] call = 19 -> {Failed, o1}                                  \* lseek
      [] call = 54 -> {0}                                           \* ioctl
      [] call = 62 -> {Failed, 0}                                   \* fstat
      [] call = 64 -> {BreakUnit}                                   \* getpagesize
      [] OTHER -> {}

SystemTrap ==
    LET call == Reg[2]
        buffer == Reg[5]
        size == Reg[6]
    IN /\ outcome = "user"
       /\ Trapping
       /\ \/ call = 1 /\ Becomes(Ends(Begun, "halted"))
          \/ /\ call # 1
             /\ Returns(call, Reg[4], buffer, size) = {}
             /\ Becomes(Ends(Begun, "aborted"))
          \/ /\ call \in {3, 4} /\ ~InMem(buffer, size)
             /\ Becomes(Ends(Begun, "crash"))
          \/ \E r \in Returns(call, Reg[4], buffer, size) :
               /\ call \in {3, 4} => InMem(buffer, size)
               /\ Becomes([Set(Begun, 1, r) EXCEPT !.mem =
                     [a \in Addresses |->
                        IF call = 3 /\ r # Failed /\ a - buffer \in 0..r - 1
                          THEN InputByte ELSE @[a]]])

ENext == LoadProgram \/ Instruction \/ SystemTrap

ESpec == EInit /\ [][ENext]_evars

-----------------------------------------------------------------------------
(* Properties.                                                             *)

\* Every variable has its type.
EmulatorTypeOK ==
    /\ Reg \in [0..NumGPRegs - 1 -> Word]
    /\ {HI, LO, pc, npc} \subseteq Word
    /\ mem \in [Addresses -> Byte]
    /\ outcome \in {"boot", "user", "halted", "aborted", "crash"}

StringAt(a, s) ==
    /\ \A n \in 1..Len(s) : mem[a + n - 1] = s[n]
    /\ mem[a + Len(s)] = 0

\* A program finds its arguments: when the first instruction is to be executed
\* the stack pointer points to argc, and after it to as many pointers, each to
\* its own string with its null byte (execute.c:74-84).  There is room for
\* ArgRoom bytes of pointers: more would overwrite the strings.
ArgumentsFound ==
    outcome = "user" /\ pc = memoffset /\ 4 * Len(command.argv) <= ArgRoom =>
        /\ Reg[StackReg] = InitialSP
        /\ FromBytes(mem, InitialSP, 4) = Len(command.argv)
        /\ \A j \in 1..Len(command.argv) :
              StringAt(FromBytes(mem, InitialSP + 4 * j, 4), command.argv[j])

EmulatorConsistent == EmulatorTypeOK /\ ArgumentsFound

\* The interpreter is a MIPS for the programs it was made for: where C and the
\* processor agree on the arithmetic, every instruction, delay slot, link and
\* system call does what the processor does.  (What it does not have is listed
\* with the programs.)
EmulatedMIPS == INSTANCE AbstractMIPS WITH
    Origin <- memoffset,
    EndCall <- 1,
    Served <- {3, 4, 5, 6, 17, 19, 54, 62, 64},
    text <- command.text,
    limit <- MEMSIZE,
    gpr <- [Reg EXCEPT ![0] = 0],
    hi <- HI,
    lo <- LO,
    next <- npc,
    outcome <- IF outcome = "crash" THEN "aborted" ELSE outcome

EmulatorImplementsMIPS == EmulatedMIPS!MIPSSpec
=============================================================================
