---------------------------- MODULE AbstractMIPS ----------------------------
(***************************************************************************)
(* What a user program may rely on: the integer instructions of the MIPS,  *)
(* one at a time, with a branch delay slot and loads that are complete     *)
(* when the next instruction starts.  There are no pending loads, page     *)
(* tables or interrupts here.  A fault changes nothing and ends the        *)
(* program, as does a system call that is not served; one that is served   *)
(* gives a result, and may write the buffer it was given.                  *)
(***************************************************************************)
EXTENDS Words, Sequences

CONSTANTS
    Origin,     \* the lowest address, that of the first instruction
    EndCall,    \* the number of the system call that ends the program
    Served      \* the numbers of those after which it goes on

VARIABLES
    text,       \* the instructions, the first one at Origin
    limit,      \* the size of the address space
    gpr, hi, lo, mem,
    pc, next,   \* this instruction, and the one after it
    outcome     \* "boot", "user" while it runs, "halted", "aborted", "returned"

mipsvars == << text, limit, gpr, hi, lo, mem, pc, next, outcome >>

ImmediateArithmetic == {"ADDI", "ADDIU", "SLTI", "SLTIU"}
ImmediateLogic == {"ANDI", "ORI", "XORI"}
FixedShifts == {"SLL", "SRL", "SRA"}
VariableShifts == {"SLLV", "SRLV", "SRAV"}
ThreeRegister == {"ADD", "ADDU", "SUB", "SUBU", "AND", "OR", "XOR", "NOR", "SLT", "SLTU"}
Computes == ThreeRegister \cup FixedShifts \cup VariableShifts
            \cup ImmediateArithmetic \cup ImmediateLogic \cup {"LUI"}
Loads == {"LB", "LBU", "LH", "LHU", "LW", "LWL", "LWR"}
Stores == {"SB", "SH", "SW", "SWL", "SWR"}
Links == {"JAL", "JALR", "BLTZAL", "BGEZAL"}
Calls == {"SYSCALL", "BREAK"}

\* The operation, its halfword as an integer, and its operands.
Op(i) == CASE i.major = "SPECIAL" -> i.funct
           [] i.major = "BCOND" -> [r \in 0..31 |->
                  CASE r = 0 -> "BLTZ" [] r = 1 -> "BGEZ" [] r = 16 -> "BLTZAL"
                    [] r = 17 -> "BGEZAL" [] OTHER -> "UNIMP"][i.rt]
           [] OTHER -> i.major

Offset(i) == SignedBits(i.imm, HalfBits)

Left(i) == CASE Op(i) \in FixedShifts -> i.imm
             [] Op(i) \in VariableShifts -> gpr[i.rs] % WordBits
             [] OTHER -> gpr[i.rs]

Right(i) == CASE Op(i) \in ImmediateArithmetic -> Wrap(Offset(i))
              [] Op(i) \in ImmediateLogic \cup {"LUI"} -> i.imm
              [] OTHER -> gpr[i.rt]

Result(op, a, b) ==
    CASE op \in {"ADD", "ADDU", "ADDI", "ADDIU"} -> Wrap(a + b)
      [] op \in {"SUB", "SUBU"} -> Wrap(a - b)
      [] op \in {"AND", "ANDI"} -> a & b
      [] op \in {"OR", "ORI"} -> a | b
      [] op \in {"XOR", "XORI"} -> a ^^ b
      [] op = "NOR" -> Complement(a | b)
      [] op \in {"SLT", "SLTI"} -> Flag(Signed(a) < Signed(b))
      [] op \in {"SLTU", "SLTIU"} -> Flag(a < b)
      [] op \in {"SLL", "SLLV"} -> Wrap(b * 2^a)
      [] op \in {"SRL", "SRLV"} -> b \div 2^a
      [] op \in {"SRA", "SRAV"} -> Wrap(Signed(b) \div 2^a)
      [] op = "LUI" -> Wrap(b * 2^HalfBits)

Taken(i) ==
    LET a == Signed(gpr[i.rs]) IN
    CASE Op(i) = "BEQ" -> gpr[i.rs] = gpr[i.rt]
      [] Op(i) = "BNE" -> gpr[i.rs] # gpr[i.rt]
      [] Op(i) = "BLEZ" -> a <= 0
      [] Op(i) = "BGTZ" -> a > 0
      [] Op(i) \in {"BLTZ", "BLTZAL"} -> a < 0
      [] Op(i) \in {"BGEZ", "BGEZAL"} -> a >= 0
      [] OTHER -> FALSE

\* Where the instruction after the delay slot is.
Target(i) ==
    LET sequel == Wrap(next + 4) IN
    CASE Op(i) \in {"J", "JAL"} -> (sequel - (sequel % RegionSize)) + 4 * i.imm
      [] Op(i) \in {"JR", "JALR"} -> gpr[i.rs]
      [] Taken(i) -> Wrap(next + 4 * Offset(i))
      [] OTHER -> sequel

Address(i) == Wrap(gpr[i.rs] + Offset(i))

Width(op) == CASE op \in {"LB", "LBU", "SB"} -> 1
               [] op \in {"LH", "LHU", "SH"} -> 2
               [] OTHER -> 4

BadAddress(a, width) == a % width # 0 \/ a \notin Origin..Origin + limit - 1

OutOfRange(i) ==
    LET a == Signed(Left(i)) b == Signed(Right(i)) IN
    \/ Op(i) \in {"ADD", "ADDI"} /\ a + b \notin SignedWords
    \/ Op(i) = "SUB" /\ a - b \notin SignedWords
    \/ Op(i) = "DIV" /\ b # 0 /\ DivC(a, b) \notin SignedWords

\* The instruction cannot be executed.  An overflow of DIV, whose result the
\* processor does not define, may end the program.
Faults(i) ==
    \/ BadAddress(pc, 4)
    \/ Op(i) \in {"UNIMP", "RES"}
    \/ OutOfRange(i)
    \/ Op(i) \in Loads \cup Stores /\ BadAddress(Address(i), Width(Op(i)))

\* The double word in HI and LO.
Wide(n) == << (n \div 2^WordBits) % 2^WordBits, Wrap(n) >>

HiLo(i) ==
    LET a == gpr[i.rs] b == gpr[i.rt] IN
    CASE Op(i) = "MULT" -> Wide(Signed(a) * Signed(b))
      [] Op(i) = "MULTU" -> Wide(a * b)
      [] Op(i) \in {"DIV", "DIVU"} /\ b = 0 -> << 0, 0 >>
      [] Op(i) = "DIVU" -> << a % b, a \div b >>
      [] Op(i) = "DIV" -> << Wrap(RemC(Signed(a), Signed(b))),
                             Wrap(DivC(Signed(a), Signed(b))) >>
      [] Op(i) = "MTHI" -> << a, lo >>
      [] Op(i) = "MTLO" -> << hi, a >>
      [] OTHER -> << hi, lo >>

\* What an aligned LWR leaves of the register: the other bytes.
Loaded(i) ==
    LET v == FromBytes(mem, Address(i), Width(Op(i))) IN
    CASE Op(i) = "LB" -> Wrap(SignedBits(v, ByteBits))
      [] Op(i) = "LH" -> Wrap(SignedBits(v, HalfBits))
      [] Op(i) = "LWR" -> (gpr[i.rt] - (gpr[i.rt] % 2^ByteBits)) + ByteOf(v, 3)
      [] OTHER -> v

\* The register an instruction writes, and what.
Written(i) ==
    CASE Op(i) \in Computes -> << IF i.major = "SPECIAL" THEN i.rd ELSE i.rt,
                                  Result(Op(i), Left(i), Right(i)) >>
      [] Op(i) \in Loads -> << i.rt, Loaded(i) >>
      [] Op(i) = "MFHI" -> << i.rd, hi >>
      [] Op(i) = "MFLO" -> << i.rd, lo >>
      [] Op(i) \in Links -> << IF Op(i) = "JALR" THEN i.rd ELSE R31, Wrap(next + 4) >>
      [] OTHER -> << 0, 0 >>

Stored(i) ==
    IF Op(i) \notin Stores THEN mem
    ELSE [a \in DOMAIN mem |->
            CASE Op(i) = "SWR" /\ a = Address(i) + 3 -> ByteOf(gpr[i.rt], 0)
              [] Op(i) # "SWR" /\ a \in Address(i)..Address(i) + Width(Op(i)) - 1
                    -> ByteOf(gpr[i.rt], a - Address(i))
              [] OTHER -> mem[a]]

-----------------------------------------------------------------------------
Current == text[(pc - Origin) \div 4 + 1]

Fault ==
    /\ outcome' = "aborted"
    /\ UNCHANGED << text, limit, gpr, hi, lo, mem, pc, next >>

\* The last call, and one that is unknown.
SystemCall ==
    /\ outcome' = IF gpr[2] = EndCall THEN "halted" ELSE "aborted"
    /\ UNCHANGED << text, limit, gpr, hi, lo, mem, pc, next >>

\* A call that returns: its result is in register 1, and of memory only the
\* buffer, at the address in register 5 and of the size in register 6, changes.
Buffer == gpr[5]..gpr[5] + gpr[6] - 1

ServedCall ==
    /\ \E result \in Word : gpr' = [gpr EXCEPT ![1] = result]
    /\ \A a \in DOMAIN mem :
          a \notin Buffer => mem'[a] = mem[a]
    /\ DOMAIN mem' = DOMAIN mem
    /\ pc' = next
    /\ next' = Wrap(next + 4)
    /\ UNCHANGED << text, limit, hi, lo, outcome >>

Instruct(i) ==
    /\ gpr' = [gpr EXCEPT ![Written(i)[1]] = IF Written(i)[1] = 0 THEN 0 ELSE Written(i)[2]]
    /\ << hi', lo' >> = HiLo(i)
    /\ mem' = Stored(i)
    /\ pc' = next
    /\ next' = Target(i)
    /\ UNCHANGED << text, limit, outcome >>

MStep ==
    /\ outcome = "user"
    /\ IF BadAddress(pc, 4) \/ Faults(Current) THEN Fault
       ELSE IF Op(Current) \notin Calls THEN Instruct(Current)
       ELSE IF gpr[2] \in Served
         THEN ServedCall \/ (~(Buffer \subseteq DOMAIN mem) /\ Fault)
       ELSE SystemCall

\* The program is loaded, or it cannot be.
MLoad ==
    /\ outcome = "boot"
    /\ outcome' \in {"user", "returned", "aborted"}
    /\ outcome' = "user" => pc' = Origin /\ next' = Origin + 4
    /\ text' = text

MIPSSpec == outcome = "boot" /\ [][MLoad \/ MStep]_mipsvars
=============================================================================
