------------------------------ MODULE Machine ------------------------------
(***************************************************************************)
(* User programs: StartProcess of userprog/progtest.cc loads one, and the  *)
(* simulated MIPS of machine/mipssim.cc, translate.cc and machine.cc runs  *)
(* it until userprog/exception.cc stops it.  A timer interrupt can come    *)
(* after any instruction.                                                  *)
(*                                                                         *)
(* An operation of the processor takes and gives a record m of the machine *)
(* under way: regs, mem and table are the registers, mainMemory and the    *)
(* page table, after is pcAfter, load is nextLoadReg and nextLoadValue,    *)
(* and outcome says how the instruction ended.  The names and the lines of *)
(* OneInstruction are those of its cases.                                  *)
(***************************************************************************)
EXTENDS Words, Sequences, FiniteSets

CONSTANTS
    PageSize, NumPhysPages, UserStackSize,
    SC_Halt,        \* the code of the system call Halt
    NoFile,         \* the name of a file that cannot be opened
    Programs        \* the executables: their code, initialised data and bss

MemorySize == NumPhysPages * PageSize

ASSUME MachineAssumption ==
    /\ {PageSize, NumPhysPages, UserStackSize} \subseteq Nat \ {0}
    /\ PageSize % 4 = 0
    /\ MemorySize < 2^WordBits

VARIABLES
    program,      \* the argument of StartProcess
    registers,    \* Machine::registers: gpr, and the others by their names
    mainMemory,   \* Machine::mainMemory
    pageTable,    \* Machine::pageTable, whose domain has pageTableSize elements
    at,           \* "instruction" or "tick": where the loop of Run() is
    status        \* "boot", "user", "returned", "halted", "aborted"

vars == << program, registers, mainMemory, pageTable, at, status >>

Registers0 == [gpr |-> [r \in 0..NumGPRegs - 1 |-> 0], Hi |-> 0, Lo |-> 0,
               PC |-> 0, NextPC |-> 0, PrevPC |-> 0,
               Load |-> 0, LoadValue |-> 0, BadVAddr |-> 0]

Boot ==
    /\ registers = Registers0
    /\ mainMemory = [a \in 0..MemorySize - 1 |-> 0]
    /\ pageTable = << >>
    /\ at = "instruction"
    /\ status = "boot"

Init == program \in Programs \cup {NoFile} /\ Boot

-----------------------------------------------------------------------------
(* StartProcess, and the address space it makes.                           *)

NumPages(p) ==
    LET size == 4 * Len(p.text) + 4 * Len(p.data) + p.bss + UserStackSize
    IN (size + PageSize - 1) \div PageSize

IdentityTable(n) ==
    [v \in 0..n - 1 |-> [physicalPage |-> v, valid |-> TRUE, use |-> FALSE,
                         dirty |-> FALSE, readOnly |-> FALSE]]

\* The code stays in p.text: the programs do not read or write it as data, and
\* in mainMemory its bytes are left zero.
Image(p) ==
    [a \in 0..MemorySize - 1 |->
        IF a - p.dataAt \in 0..4 * Len(p.data) - 1
          THEN ByteOf(p.data[(a - p.dataAt) \div 4 + 1], (a - p.dataAt) % 4)
          ELSE 0]

InitRegisters(n) ==
    [Registers0 EXCEPT !.NextPC = 4, !.gpr[StackReg] = n * PageSize - 16]

StartProcess ==
    /\ status = "boot"
    /\ IF program = NoFile THEN
         /\ status' = "returned"
         /\ UNCHANGED << registers, mainMemory, pageTable >>
       ELSE IF NumPages(program) > NumPhysPages THEN
         /\ status' = "aborted"
         /\ UNCHANGED << registers, mainMemory, pageTable >>
       ELSE
         /\ status' = "user"
         /\ pageTable' = IdentityTable(NumPages(program))
         /\ mainMemory' = Image(program)
         /\ registers' = InitRegisters(NumPages(program))
    /\ UNCHANGED << program, at >>

-----------------------------------------------------------------------------
(* Machine::Translate, ReadMem and WriteMem.                               *)

Misaligned(addr, size) == size \in {2, 4} /\ addr % size # 0

\* The first check that fails.
TranslationError(table, addr, size, writing) ==
    LET vpn == addr \div PageSize IN
    CASE Misaligned(addr, size) -> "AddressError"
      [] vpn \notin DOMAIN table -> "AddressError"
      [] ~table[vpn].valid -> "PageFault"
      [] table[vpn].readOnly /\ writing -> "ReadOnly"
      [] table[vpn].physicalPage >= NumPhysPages -> "BusError"
      [] OTHER -> "NoException"

\* The exception, the physical address, and the table with its new bits.
Translation(table, addr, exception, dirtied) ==
    LET vpn == addr \div PageSize IN
    IF exception # "NoException"
      THEN [exception |-> exception, phys |-> 0, table |-> table]
      ELSE [exception |-> exception,
            phys |-> table[vpn].physicalPage * PageSize + (addr % PageSize),
            table |-> [table EXCEPT ![vpn].use = TRUE, ![vpn].dirty = @ \/ dirtied]]

\* Mutant of Translate: the page is not marked dirty.
TranslateClean(table, addr, size, writing) ==
    Translation(table, addr, TranslationError(table, addr, size, writing), FALSE)

Translate(table, addr, size, writing) ==
    Translation(table, addr, TranslationError(table, addr, size, writing), writing)

\* A byte is read through a signed char, a halfword through an unsigned short.
ReadMem(m, addr, size) ==
    LET t == Translate(m.table, addr, size, FALSE)
        raw == FromBytes(m.mem, t.phys, size)
    IN IF t.exception # "NoException"
         THEN [m |-> [m EXCEPT !.outcome = t.exception, !.bad = addr], value |-> 0]
         ELSE [m |-> [m EXCEPT !.table = t.table],
               value |-> IF size = 1 THEN Wrap(SignedBits(raw, ByteBits)) ELSE raw]

WriteMem(m, addr, size, value) ==
    LET t == Translate(m.table, addr, size, TRUE)
    IN IF t.exception # "NoException"
         THEN [m EXCEPT !.outcome = t.exception, !.bad = addr]
         ELSE [m EXCEPT !.table = t.table,
                        !.mem = [a \in DOMAIN @ |->
                                   IF a - t.phys \in 0..size - 1
                                     THEN ByteOf(value, a - t.phys) ELSE @[a]]]

-----------------------------------------------------------------------------
(* The instructions.                                                       *)

Rs(m, i) == m.regs.gpr[i.rs]
Rt(m, i) == m.regs.gpr[i.rt]
WriteReg(m, r, value) == [m EXCEPT !.regs.gpr[r] = value]
Raise(m, exception, addr) == [m EXCEPT !.outcome = exception, !.bad = addr]
LoadNext(m, r, value) == [m EXCEPT !.load = << r, value >>]

\* The formats of opTable: immediates are sign-extended, a shift amount and a
\* jump target are not.
Format(major) ==
    CASE major = "SPECIAL" -> "RFMT"
      [] major \in {"J", "JAL"} -> "JFMT"
      [] OTHER -> "IFMT"

Decode(i) ==
    [rs |-> i.rs, rt |-> i.rt, rd |-> i.rd,
     extra |-> IF Format(i.major) = "IFMT" THEN Wrap(SignedBits(i.imm, HalfBits)) ELSE i.imm,
     opCode |-> CASE i.major = "SPECIAL" -> i.funct
                  [] i.major # "BCOND" -> i.major
                  [] i.rt = 0 -> "BLTZ"
                  [] i.rt = 1 -> "BGEZ"
                  [] i.rt = 16 -> "BLTZAL"
                  [] i.rt = 17 -> "BGEZAL"
                  [] OTHER -> "UNIMP"]

\* OP_ADD.  The sum of two ints wraps.
Add(m, i) ==
    LET sum == Wrap(Rs(m, i) + Rt(m, i)) IN
    IF ~Negative(Rs(m, i) ^^ Rt(m, i)) /\ Negative(Rs(m, i) ^^ sum)
      THEN Raise(m, "Overflow", 0)
      ELSE WriteReg(m, i.rd, sum)

AddImmediate(m, i) ==
    LET sum == Wrap(Rs(m, i) + i.extra) IN
    IF ~Negative(Rs(m, i) ^^ i.extra) /\ Negative(i.extra ^^ sum)
      THEN Raise(m, "Overflow", 0)
      ELSE WriteReg(m, i.rt, sum)

Sub(m, i) ==
    LET diff == Wrap(Rs(m, i) - Rt(m, i)) IN
    IF Negative(Rs(m, i) ^^ Rt(m, i)) /\ Negative(Rs(m, i) ^^ diff)
      THEN Raise(m, "Overflow", 0)
      ELSE WriteReg(m, i.rd, diff)

\* OP_ADDIU, OP_ADDU, OP_AND, OP_ANDI.
AddAnd(m, i) ==
    CASE i.opCode = "ADDIU" -> WriteReg(m, i.rt, Wrap(Rs(m, i) + i.extra))
      [] i.opCode = "ADDU" -> WriteReg(m, i.rd, Wrap(Rs(m, i) + Rt(m, i)))
      [] i.opCode = "AND" -> WriteReg(m, i.rd, Rs(m, i) & Rt(m, i))
      [] i.opCode = "ANDI" -> WriteReg(m, i.rt, Rs(m, i) & Low16(i.extra))

\* OP_NOR, OP_OR and OP_ORI.  OP_OR takes the first operand twice.
OrNor(m, i) ==
    CASE i.opCode = "NOR" -> WriteReg(m, i.rd, Complement(Rs(m, i) | Rt(m, i)))
      [] i.opCode = "OR" -> WriteReg(m, i.rd, Rs(m, i) | Rs(m, i))
      [] i.opCode = "ORI" -> WriteReg(m, i.rt, Rs(m, i) | Low16(i.extra))

ExclusiveOr(m, i) ==
    IF i.opCode = "XOR" THEN WriteReg(m, i.rd, Rs(m, i) ^^ Rt(m, i))
    ELSE WriteReg(m, i.rt, Rs(m, i) ^^ Low16(i.extra))

\* The branches: a link is written before the condition is tested.
Branch(m, i) ==
    LET l == IF i.opCode \in {"BGEZAL", "BLTZAL"}
               THEN WriteReg(m, R31, Wrap(m.regs.NextPC + 4)) ELSE m
        taken == CASE i.opCode = "BEQ" -> Rs(l, i) = Rt(l, i)
                   [] i.opCode = "BNE" -> Rs(l, i) # Rt(l, i)
                   [] i.opCode \in {"BGEZ", "BGEZAL"} -> ~Negative(Rs(l, i))
                   [] i.opCode \in {"BLTZ", "BLTZAL"} -> Negative(Rs(l, i))
                   [] i.opCode = "BGTZ" -> Signed(Rs(l, i)) > 0
                   [] i.opCode = "BLEZ" -> Signed(Rs(l, i)) <= 0
    IN IF taken THEN [l EXCEPT !.after = Wrap(m.regs.NextPC + IndexToAddr(i.extra))] ELSE l

\* OP_J, OP_JAL, OP_JALR and OP_JR.
Jump(m, i) ==
    LET link == Wrap(m.regs.NextPC + 4)
        l == CASE i.opCode = "JAL" -> WriteReg(m, R31, link)
               [] i.opCode = "JALR" -> WriteReg(m, i.rd, link)
               [] OTHER -> m
    IN IF i.opCode \in {"J", "JAL"}
         THEN [l EXCEPT !.after = (@ - (@ % RegionSize)) + IndexToAddr(i.extra)]
         ELSE [l EXCEPT !.after = Rs(l, i)]

WriteHiLo(m, h, l) == [m EXCEPT !.regs.Hi = h, !.regs.Lo = l]

\* OP_DIV and OP_DIVU.  The smallest int divided by -1 is undefined in C: the
\* host's division traps, and the simulator ends.
Divide(m, i) ==
    LET a == Signed(Rs(m, i))
        b == Signed(Rt(m, i))
    IN IF b = 0 THEN WriteHiLo(m, 0, 0)
       ELSE IF i.opCode = "DIVU"
         THEN WriteHiLo(m, Rs(m, i) % Rt(m, i), Rs(m, i) \div Rt(m, i))
       ELSE IF DivC(a, b) \notin SignedWords THEN [m EXCEPT !.outcome = "crash"]
       ELSE WriteHiLo(m, Wrap(RemC(a, b)), Wrap(DivC(a, b)))

\* The loop of Mult() and its early exit, from bit n on.  The unsigned words lo
\* and bLo wrap, and a is shifted as an int.
MultLoop[n \in 0..WordBits, a \in Word, bHi \in Word, bLo \in Word, hi \in Word, lo \in Word] ==
    LET odd == a % 2 = 1
        sum == Wrap(lo + bLo)
        l == IF odd THEN sum ELSE lo
        h == IF odd THEN Wrap(hi + Flag(sum < bLo) + bHi) ELSE hi
    IN IF n = WordBits THEN << hi, lo >>
       ELSE IF a = 1 THEN << h, l >>
       ELSE MultLoop[n + 1, ShiftRight(a, 1), Wrap(2 * bHi + Flag(Negative(bLo))),
                     Wrap(2 * bLo), h, l]

Mult(a, b, signedArith) ==
    LET Abs(w) == IF signedArith /\ Negative(w) THEN Wrap(-w) ELSE w
        negative == signedArith /\ Negative(a) # Negative(b)
        p == MultLoop[0, Abs(a), 0, Abs(b), 0, 0]
        lo == Wrap(Complement(p[2]) + 1)
    IN IF a = 0 \/ b = 0 THEN << 0, 0 >>
       ELSE IF ~negative THEN p
       ELSE << Wrap(Complement(p[1]) + Flag(lo = 0)), lo >>

\* OP_MFHI to OP_MULTU.
HiLo(m, i) ==
    LET p == Mult(Rs(m, i), Rt(m, i), i.opCode = "MULT") IN
    CASE i.opCode = "MFHI" -> WriteReg(m, i.rd, m.regs.Hi)
      [] i.opCode = "MFLO" -> WriteReg(m, i.rd, m.regs.Lo)
      [] i.opCode = "MTHI" -> WriteHiLo(m, Rs(m, i), m.regs.Lo)
      [] i.opCode = "MTLO" -> WriteHiLo(m, m.regs.Hi, Rs(m, i))
      [] OTHER -> WriteHiLo(m, p[1], p[2])

\* The shift count of an instruction, from a register if its name ends in V.
Count(m, i) == IF i.opCode \in {"SLLV", "SRAV", "SRLV"} THEN Rs(m, i) % WordBits ELSE i.extra

ShiftsLeft(m, i) == WriteReg(m, i.rd, ShiftLeft(Rt(m, i), Count(m, i)))

\* OP_SRA to OP_SRLV: all of them shift an int, and keep the sign.
ShiftsRight(m, i) == WriteReg(m, i.rd, ShiftRight(Rt(m, i), Count(m, i)))

\* OP_SLT to OP_SLTU.
SetLess(m, i) ==
    CASE i.opCode = "SLT" -> WriteReg(m, i.rd, Flag(Signed(Rs(m, i)) < Signed(Rt(m, i))))
      [] i.opCode = "SLTI" -> WriteReg(m, i.rt, Flag(Signed(Rs(m, i)) < Signed(i.extra)))
      [] i.opCode = "SLTIU" -> WriteReg(m, i.rt, Flag(Rs(m, i) < i.extra))
      [] i.opCode = "SLTU" -> WriteReg(m, i.rd, Flag(Rs(m, i) < Rt(m, i)))

SubUnsigned(m, i) == WriteReg(m, i.rd, Wrap(Rs(m, i) - Rt(m, i)))
LoadUpper(m, i) == WriteReg(m, i.rt, ShiftLeft(i.extra, HalfBits))

EffectiveAddr(m, i) == Wrap(Rs(m, i) + i.extra)

\* OP_LB to OP_LHU and OP_LW: after the read, sign bits are set or cleared.
Load(m, i) ==
    LET addr == EffectiveAddr(m, i)
        size == CASE i.opCode \in {"LB", "LBU"} -> 1
                  [] i.opCode \in {"LH", "LHU"} -> 2
                  [] OTHER -> 4
        read == ReadMem(m, addr, size)
        bits == size * ByteBits
        low == read.value % 2^bits
    IN IF Misaligned(addr, size) THEN Raise(m, "AddressError", addr)
       ELSE IF read.m.outcome # "NoException" THEN read.m
       ELSE LoadNext(read.m, i.rt,
                     IF i.opCode \in {"LB", "LH"} THEN Wrap(SignedBits(low, bits)) ELSE low)

\* What OP_LWL and OP_LWR merge into: the value of a load that is pending for
\* the register, if there is one.
\* Mutant of MergedInto: the pending load is not looked at.
MergedIntoStale(m, i) == Rt(m, i)

MergedInto(m, i) == IF m.regs.Load = i.rt THEN m.regs.LoadValue ELSE Rt(m, i)

\* OP_LWL and OP_LWR at an aligned address, the only one they are allowed.
LoadPartial(m, i) ==
    LET addr == EffectiveAddr(m, i)
        read == ReadMem(m, addr, 4)
        old == MergedInto(m, i)
    IN IF addr % 4 # 0 THEN [m EXCEPT !.outcome = "assert"]
       ELSE IF read.m.outcome # "NoException" THEN read.m
       ELSE LoadNext(read.m, i.rt,
              IF i.opCode = "LWL" THEN read.value
              ELSE (old - (old % 2^ByteBits)) + ByteOf(read.value, 3))

\* OP_SB, OP_SH and OP_SW.
Store(m, i) ==
    LET size == CASE i.opCode = "SB" -> 1 [] i.opCode = "SH" -> 2 [] OTHER -> 4
    IN WriteMem(m, EffectiveAddr(m, i), size, Rt(m, i))

\* OP_SWL and OP_SWR at an aligned address: the word is read, merged and written.
StorePartial(m, i) ==
    LET addr == EffectiveAddr(m, i)
        read == ReadMem(m, addr, 4)
        low24 == 2^(3 * ByteBits)
        merged == IF i.opCode = "SWL" THEN Rt(m, i)
                  ELSE (read.value % low24) + ShiftLeft(Rt(m, i), 3 * ByteBits)
    IN IF addr % 4 # 0 THEN [m EXCEPT !.outcome = "assert"]
       ELSE IF read.m.outcome # "NoException" THEN read.m
       ELSE WriteMem(read.m, addr, 4, merged)

\* The switch of OneInstruction.
Execute(m, i) ==
    CASE i.opCode = "ADD" -> Add(m, i)
      [] i.opCode = "ADDI" -> AddImmediate(m, i)
      [] i.opCode \in {"ADDIU", "ADDU", "AND", "ANDI"} -> AddAnd(m, i)
      [] i.opCode \in {"BEQ", "BNE", "BGEZ", "BGEZAL", "BLTZ", "BLTZAL", "BGTZ", "BLEZ"}
            -> Branch(m, i)
      [] i.opCode \in {"J", "JAL", "JALR", "JR"} -> Jump(m, i)
      [] i.opCode \in {"DIV", "DIVU"} -> Divide(m, i)
      [] i.opCode \in {"LB", "LBU", "LH", "LHU", "LW"} -> Load(m, i)
      [] i.opCode \in {"LWL", "LWR"} -> LoadPartial(m, i)
      [] i.opCode = "LUI" -> LoadUpper(m, i)
      [] i.opCode \in {"MFHI", "MFLO", "MTHI", "MTLO", "MULT", "MULTU"} -> HiLo(m, i)
      [] i.opCode \in {"NOR", "OR", "ORI"} -> OrNor(m, i)
      [] i.opCode \in {"XOR", "XORI"} -> ExclusiveOr(m, i)
      [] i.opCode \in {"SLL", "SLLV"} -> ShiftsLeft(m, i)
      [] i.opCode \in {"SRA", "SRAV", "SRL", "SRLV"} -> ShiftsRight(m, i)
      [] i.opCode \in {"SLT", "SLTI", "SLTIU", "SLTU"} -> SetLess(m, i)
      [] i.opCode = "SUB" -> Sub(m, i)
      [] i.opCode = "SUBU" -> SubUnsigned(m, i)
      [] i.opCode \in {"SB", "SH", "SW"} -> Store(m, i)
      [] i.opCode \in {"SWL", "SWR"} -> StorePartial(m, i)
      [] i.opCode = "SYSCALL" -> Raise(m, "Syscall", 0)
      [] i.opCode \in {"RES", "UNIMP"} -> Raise(m, "IllegalInstr", 0)

-----------------------------------------------------------------------------
(* Machine::Run: an instruction, then the tick of the clock.               *)

DelayedLoad(regs, nextReg, nextValue) ==
    [regs EXCEPT !.gpr = [@ EXCEPT ![regs.Load] = regs.LoadValue, ![0] = 0],
                 !.Load = nextReg, !.LoadValue = nextValue]

\* ExceptionHandler, with the registers it finds.
ExceptionHandler(which, regs) ==
    IF which = "Syscall" /\ regs.gpr[2] = SC_Halt THEN "halted" ELSE "aborted"

\* Neither outcome of the handler returns, so that the program is never resumed.
RaiseException(m) ==
    /\ registers' = DelayedLoad([m.regs EXCEPT !.BadVAddr = m.bad], 0, 0)
    /\ status' = ExceptionHandler(m.outcome, registers')
    /\ mainMemory' = m.mem
    /\ pageTable' = m.table
    /\ UNCHANGED at

\* The successful end of OneInstruction.
Complete(m) ==
    /\ registers' = [DelayedLoad(m.regs, m.load[1], m.load[2]) EXCEPT
                        !.PrevPC = m.regs.PC, !.PC = m.regs.NextPC, !.NextPC = m.after]
    /\ mainMemory' = m.mem
    /\ pageTable' = m.table
    /\ at' = "tick"
    /\ UNCHANGED status

\* An ASSERT fails, or the host ends the simulator: the memory of the process
\* is lost, and the model keeps it as it was.
Collapse ==
    /\ status' = "aborted"
    /\ UNCHANGED << registers, mainMemory, pageTable, at >>

\* The word that instr->value gets: zeros, which are a SLL of r0, behind the code.
Fetched(phys) ==
    IF phys \div 4 < Len(program.text) THEN program.text[phys \div 4 + 1]
    ELSE [major |-> "SPECIAL", funct |-> "SLL", rs |-> 0, rt |-> 0, rd |-> 0, imm |-> 0]

\* The machine when an instruction begins, its translation being "fetch".
Fresh(fetch) ==
    [regs |-> registers, after |-> Wrap(registers.NextPC + 4), load |-> << 0, 0 >>,
     mem |-> mainMemory, table |-> fetch.table,
     outcome |-> fetch.exception, bad |-> registers.PC]

OneInstruction ==
    /\ status = "user"
    /\ at = "instruction"
    /\ \E fetch \in {Translate(pageTable, registers.PC, 4, FALSE)} :
       \E m0 \in {Fresh(fetch)}, i \in {Decode(Fetched(fetch.phys))} :
       \E m \in {IF fetch.exception = "NoException" THEN Execute(m0, i) ELSE m0} :
         \/ m.outcome = "NoException" /\ Complete(m)
         \/ m.outcome \in {"assert", "crash"} /\ Collapse
         \/ m.outcome \notin {"NoException", "assert", "crash"} /\ RaiseException(m)
    /\ UNCHANGED program

\* Interrupt::OneTick.  When an interrupt is due CheckIfDue completes the
\* pending load before the handler runs in the kernel.
OneTick(due) ==
    /\ status = "user"
    /\ at = "tick"
    /\ at' = "instruction"
    /\ registers' = IF due THEN DelayedLoad(registers, 0, 0) ELSE registers
    /\ UNCHANGED << program, mainMemory, pageTable, status >>

Next == StartProcess \/ OneInstruction \/ \E due \in BOOLEAN : OneTick(due)

Spec == Init /\ [][Next]_vars

-----------------------------------------------------------------------------
(* Properties.                                                             *)

\* Every variable has its type; register 0 is zero between instructions, also
\* as the target of a load that is pending (mipssim.cc:578-581).
MachineTypeOK ==
    /\ registers.gpr \in [0..NumGPRegs - 1 -> Word]
    /\ registers.gpr[0] = 0
    /\ {registers[r] : r \in DOMAIN registers \ {"gpr"}} \subseteq Word
    /\ registers.Load \in 0..NumGPRegs - 1
    /\ mainMemory \in [0..MemorySize - 1 -> Byte]
    /\ \A v \in DOMAIN pageTable : pageTable[v].physicalPage \in 0..NumPhysPages - 1
    /\ at \in {"instruction", "tick"}
    /\ status \in {"boot", "user", "returned", "halted", "aborted"}

\* The bits of the page table tell what the program did to its pages, as a
\* kernel that evicts pages would have to know: a page of memory that differs
\* from what was loaded belongs to an entry that is marked dirty, and so does no
\* page that is unused (translate.cc:246-248).
DirtyPagesMarked ==
    status \notin {"boot", "returned"} /\ pageTable # << >> =>
        /\ \A a \in 0..MemorySize - 1 :
              mainMemory[a] # Image(program)[a] =>
                  \E v \in DOMAIN pageTable :
                     /\ pageTable[v].physicalPage = a \div PageSize
                     /\ pageTable[v].dirty
        /\ \A v \in DOMAIN pageTable : pageTable[v].dirty => pageTable[v].use

\* Registers, memory and page table are in step after every instruction.
MachineConsistent == MachineTypeOK /\ DirtyPagesMarked

\* "User programs shouldn't be able to tell that they are running on our
\* simulator or on the real hardware" (machine.h:96): with the value of a
\* pending load counted as the register's, programs that keep off a register in
\* the delay slot of its load see an ideal processor, on which interrupts do not
\* show.
MIPS == INSTANCE AbstractMIPS WITH
    Origin <- 0,
    EndCall <- SC_Halt,
    Served <- {},
    text <- IF program = NoFile THEN << >> ELSE program.text,
    limit <- PageSize * Cardinality(DOMAIN pageTable),
    gpr <- [r \in 0..NumGPRegs - 1 |->
              IF r = registers.Load /\ r # 0 THEN registers.LoadValue
              ELSE registers.gpr[r]],
    hi <- registers.Hi,
    lo <- registers.Lo,
    mem <- mainMemory,
    pc <- registers.PC,
    next <- registers.NextPC,
    outcome <- status

ImplementsMIPS == MIPS!MIPSSpec
=============================================================================
