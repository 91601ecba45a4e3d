------------------------------- MODULE Words -------------------------------
(***************************************************************************)
(* Machine words of four bytes, as naturals below 2^WordBits, and the      *)
(* arithmetic of C on them.  A byte has eight bits in the programs; the    *)
(* instances take fewer, with the same proportions, so that every word can *)
(* be tried.  The two simulators of the MIPS share this module.            *)
(***************************************************************************)
EXTENDS Integers, Bitwise

CONSTANTS
    ByteBits,
    NumGPRegs,      \* the last of them holds return addresses, R31
    RegionSize      \* a jump stays within so many bytes: 0x10000000

ASSUME WordsAssumption ==
    /\ {ByteBits, RegionSize} \subseteq Nat \ {0}
    /\ NumGPRegs \in Nat
    /\ NumGPRegs > 5

R31 == NumGPRegs - 1
StackReg == NumGPRegs - 3

HalfBits == 2 * ByteBits
WordBits == 4 * ByteBits

Byte == 0..2^ByteBits - 1
Word == 0..2^WordBits - 1

\* The word that a computation leaves in a register.
Wrap(n) == n % 2^WordBits

\* The integer that a pattern of so many bits stands for.
SignedBits(v, bits) == IF v >= 2^(bits - 1) THEN v - 2^bits ELSE v

Signed(w) == SignedBits(w, WordBits)

SignedWords == -(2^(WordBits - 1))..2^(WordBits - 1) - 1

Complement(w) == 2^WordBits - 1 - w

Negative(w) == w >= 2^(WordBits - 1)    \* w & SIGN_BIT
Low16(w) == w % 2^HalfBits              \* w & 0xffff
ShiftRight(w, n) == Wrap(Signed(w) \div 2^n)    \* >> of an int
ShiftLeft(w, n) == Wrap(w * 2^n)
IndexToAddr(x) == ShiftLeft(x, 2)
Flag(p) == IF p THEN 1 ELSE 0

\* C's / and %, which round towards zero.
DivC(a, b) ==
    LET q == (IF a < 0 THEN -a ELSE a) \div (IF b < 0 THEN -b ELSE b)
    IN IF (a < 0) = (b < 0) THEN q ELSE -q

RemC(a, b) == a - DivC(a, b) * b

\* The bytes of a little-endian word, and the word of some of them.
ByteOf(w, n) == (w \div 2^(n * ByteBits)) % 2^ByteBits

\* Of one, two or four bytes, as they are read.
FromBytes(bytes, a, n) ==
    bytes[a] + (IF n = 1 THEN 0 ELSE 2^ByteBits * bytes[a + 1])
             + (IF n # 4 THEN 0 ELSE 2^HalfBits * (bytes[a + 2] + 2^ByteBits * bytes[a + 3]))
=============================================================================
