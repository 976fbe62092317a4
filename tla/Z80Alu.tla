------------------------------- MODULE Z80Alu -------------------------------
(***************************************************************************)
(* The arithmetic of core/alu.c: what each operation of the processor      *)
(* computes from its operands, result and flags, by the masks and shifts   *)
(* of the code (the macros of alu.h).  A byte is a number, the flags are   *)
(* the set of those that are 1.  An operation is a record: r is the result *)
(* as it is stored, f the flags.                                           *)
(*                                                                         *)
(* The last part states what the operations are for, in signed and         *)
(* unsigned arithmetic and without a mask.                                 *)
(***************************************************************************)
EXTENDS Integers, FiniteSets

Byte == 0..255
Word == 0..65535
Low(v) == v % 256
Low16(v) == v % 65536

\* A char offset: the build has signed chars.
Signed(b) == IF b >= 128 THEN b - 256 ELSE b
Signed16(w) == IF w >= 32768 THEN w - 65536 ELSE w

Weight == [C |-> 1, N |-> 2, P |-> 4, F3 |-> 8, H |-> 16, F5 |-> 32, Z |-> 64,
           S |-> 128]
Flags == DOMAIN Weight

Has(v, mask) == (v \div mask) % 2 = 1
FlagsOf(b) == {n \in Flags : Has(b, Weight[n])}
Part(f, n) == IF n \in f THEN Weight[n] ELSE 0
FlagByte(f) == Part(f, "C") + Part(f, "N") + Part(f, "P") + Part(f, "F3")
                 + Part(f, "H") + Part(f, "F5") + Part(f, "Z") + Part(f, "S")
On(n, holds) == IF holds THEN {n} ELSE {}

\* A byte has the bits of the flags it would set.
And(a, b) == FlagByte(FlagsOf(a) \cap FlagsOf(b))
Or(a, b) == FlagByte(FlagsOf(a) \cup FlagsOf(b))
Xor(a, b) == FlagByte((FlagsOf(a) \cup FlagsOf(b)) \ (FlagsOf(a) \cap FlagsOf(b)))

(***************************************************************************)
(* The flag macros.                                                        *)
(***************************************************************************)
Copies(v) == On("F5", Has(v, 32)) \cup On("F3", Has(v, 8))
SignZero(v) == On("S", Has(v, 128)) \cup On("Z", Low(v) = 0)
Carry9(v) == On("C", Has(v, 256))
Parity(v) == On("P", Cardinality(FlagsOf(v)) % 2 = 0)
HalfAdd(a, b, c) == On("H", Has((a % 16) + (b % 16) + c, 16))
HalfSub(a, b, c) == On("H", Has((a % 16) - (b % 16) - c, 16))
OverAdd(a, b, r) ==
  On("P", (Has(a, 128) <=> Has(b, 128)) /\ ~(Has(a, 128) <=> Has(r, 128)))
\* Faulty: a subtraction overflows where an addition would.
OverSubAdded(a, b, r) == OverAdd(a, b, r)

OverSub(a, b, r) ==
  On("P", ~(Has(a, 128) <=> Has(b, 128)) /\ ~(Has(a, 128) <=> Has(r, 128)))
HalfAdd16(a, b, c) == On("H", Has((a % 4096) + (b % 4096) + c, 4096))
HalfSub16(a, b, c) == On("H", Has((a % 4096) - (b % 4096) - c, 4096))
OverAdd16(a, b, r) ==
  On("P", (Has(a, 32768) <=> Has(b, 32768)) /\ ~(Has(a, 32768) <=> Has(r, 32768)))
OverSub16(a, b, r) ==
  On("P", ~(Has(a, 32768) <=> Has(b, 32768)) /\ ~(Has(a, 32768) <=> Has(r, 32768)))
High(v) == v \div 256
SignZero16(v) == On("S", Has(v, 32768)) \cup On("Z", Low16(v) = 0)
Carry17(v) == On("C", Has(v, 65536))

(***************************************************************************)
(* Eight bits.                                                             *)
(***************************************************************************)
Add(a, b, c) ==
  LET r == a + b + c
  IN [r |-> Low(r), f |-> SignZero(r) \cup Copies(r) \cup HalfAdd(a, b, c)
                            \cup OverAdd(a, b, r) \cup Carry9(r)]

Sub(a, b, c) ==
  LET r == a - b - c
  IN [r |-> Low(r), f |-> SignZero(r) \cup Copies(r) \cup HalfSub(a, b, c)
                            \cup OverSub(a, b, r) \cup {"N"} \cup Carry9(r)]

\* The comparison keeps a, and takes the undocumented flags from its operand.
Compare(a, b) ==
  LET r == a - b
  IN [r |-> a, f |-> SignZero(r) \cup Copies(b) \cup HalfSub(a, b, 0)
                       \cup OverSub(a, b, r) \cup {"N"} \cup Carry9(r)]

Logic(r, half) == [r |-> r, f |-> SignZero(r) \cup Copies(r) \cup Parity(r) \cup half]
AndA(a, b) == Logic(And(a, b), {"H"})
OrA(a, b)  == Logic(Or(a, b), {})
XorA(a, b) == Logic(Xor(a, b), {})

Neg(a) == Sub(0, a, 0)
Inc(v, f) ==
  LET r == Low(v + 1)
  IN [r |-> r, f |-> SignZero(r) \cup Copies(r) \cup HalfAdd(v, 1, 0)
                       \cup OverAdd(v, 1, r) \cup (f \cap {"C"})]
Dec(v, f) ==
  LET r == Low(v - 1)
  IN [r |-> r, f |-> SignZero(r) \cup Copies(r) \cup HalfSub(v, 1, 0)
                       \cup OverSub(v, 1, r) \cup {"N"} \cup (f \cap {"C"})]

Cpl(a, f) == LET r == 255 - a
             IN [r |-> r, f |-> (f \cap {"S", "Z", "P", "C"}) \cup Copies(r) \cup {"H", "N"}]

\* Faulty: the second correction looks at the digit and not at the value.
DaaDigit(a, f) ==
  LET by == (IF "H" \in f \/ a % 16 > 9 THEN 6 ELSE 0)
              + (IF "C" \in f \/ a > 159 THEN 96 ELSE 0)
      r  == IF "N" \in f THEN a - by ELSE a + by
  IN [r |-> Low(r), f |-> SignZero(r) \cup Copies(r) \cup Parity(r)
        \cup On("H", Has(a, 16) # Has(r, 16)) \cup (f \cap {"N", "C"})
        \cup On("C", a > 153)]

Daa(a, f) ==
  LET by == (IF "H" \in f \/ a % 16 > 9 THEN 6 ELSE 0)
              + (IF "C" \in f \/ a > 153 THEN 96 ELSE 0)
      r  == IF "N" \in f THEN a - by ELSE a + by
  IN [r |-> Low(r), f |-> SignZero(r) \cup Copies(r) \cup Parity(r)
        \cup On("H", Has(a, 16) # Has(r, 16)) \cup (f \cap {"N", "C"})
        \cup On("C", a > 153)]

(***************************************************************************)
(* Rotations and shifts: the result is the byte in, the bit that leaves is *)
(* the carry.                                                              *)
(***************************************************************************)
Shifted(r, out) == [r |-> Low(r), f |-> SignZero(r) \cup Copies(r) \cup Parity(r)
                                          \cup On("C", out = 1)]
Top(v) == v \div 128
CarryBit(f) == IF "C" \in f THEN 1 ELSE 0
Rlc(v)   == Shifted(2 * v + Top(v), Top(v))
Rrc(v)   == Shifted((v \div 2) + 128 * (v % 2), v % 2)
Rl(v, f) == Shifted(2 * v + CarryBit(f), Top(v))
Rr(v, f) == Shifted((v \div 2) + 128 * CarryBit(f), v % 2)
Sla(v)   == Shifted(2 * v, Top(v))
Sra(v)   == Shifted((v \div 2) + 128 * Top(v), v % 2)
Sll(v)   == Shifted(2 * v + 1, Top(v))
Srl(v)   == Shifted(v \div 2, v % 2)

\* The same on the accumulator: sign, zero and parity are kept.
OnA(shift, f) ==
  [shift EXCEPT !.f = (f \cap {"S", "Z", "P"}) \cup (@ \cap {"F5", "F3", "C"})]

Scf(a, f) == (f \cap {"S", "Z", "P"}) \cup Copies(a) \cup {"C"}
Ccf(a, f) == (f \cap {"S", "Z", "P"}) \cup Copies(Or(a, FlagByte(f)))
               \cup (IF "C" \in f THEN {"H"} ELSE {"C"})

\* BIT: the flags of the one bit left standing; seen is where the undocumented
\* flags come from.
BitFlags(v, mask, seen, f) ==
  LET r == IF Has(v, mask) THEN mask ELSE 0
  IN SignZero(r) \cup Copies(seen) \cup {"H"} \cup Parity(r) \cup (f \cap {"C"})

(***************************************************************************)
(* Sixteen bits.                                                           *)
(***************************************************************************)
Add16(a, b, f) ==
  LET r == a + b
  IN [r |-> Low16(r), f |-> (f \cap {"S", "Z", "P"}) \cup Copies(High(r))
                              \cup HalfAdd16(a, b, 0) \cup Carry17(r)]
Adc16(a, b, c) ==
  LET r == a + b + c
  IN [r |-> Low16(r), f |-> SignZero16(r) \cup Copies(High(r)) \cup HalfAdd16(a, b, c)
                              \cup OverAdd16(a, b, r) \cup Carry17(r)]
Sbc16(a, b, c) ==
  LET r == a - b - c
  IN [r |-> Low16(r), f |-> SignZero16(r) \cup Copies(High(r)) \cup HalfSub16(a, b, c)
                              \cup OverSub16(a, b, r) \cup {"N"} \cup Carry17(r)]

(***************************************************************************)
(* The flags of the block instructions.  The comparison takes the half     *)
(* carry out of the flags of before it, not of the comparison itself.      *)
(***************************************************************************)
SearchFlags(a, v, more, f) ==
  LET r    == a - v
      seen == v - (IF "H" \in f THEN 1 ELSE 0)
  IN SignZero(r) \cup Copies(seen) \cup HalfSub(a, v, 0) \cup On("P", more)
       \cup {"N"} \cup (f \cap {"C"})

CopyFlags(sum, more, f) == On("F5", Has(sum, 2)) \cup On("F3", Has(sum, 8))
                             \cup On("P", more) \cup (f \cap {"S", "Z", "C"})

PortFlags(b, v, sum) ==
  SignZero(b) \cup Copies(b) \cup Parity(Xor(sum % 8, b)) \cup On("N", Has(v, 128))
    \cup (IF sum > 255 THEN {"H", "C"} ELSE {})

\* What a byte read leaves in the flags.
ReadFlags(v, f) == SignZero(v) \cup Copies(v) \cup Parity(v) \cup (f \cap {"C"})

(***************************************************************************)
(* What the results mean.  An operation of the code is right if it         *)
(* delivers the number of integer arithmetic modulo 256 and the flags tell *)
(* what was lost by it: C the unsigned range, P the signed one, H the low  *)
(* digit.                                                                  *)
(***************************************************************************)
AddMeaning(a, b, c, r, f) ==
  /\ r \in Byte /\ (r - (a + b + c)) % 256 = 0
  /\ "C" \in f <=> a + b + c > 255
  /\ "P" \in f <=> Signed(a) + Signed(b) + c \notin -128..127
  /\ "H" \in f <=> (a % 16) + (b % 16) + c > 15
  /\ "Z" \in f <=> r = 0
  /\ "S" \in f <=> Signed(r) < 0
  /\ "N" \notin f

SubMeaning(a, b, c, r, f) ==
  /\ r \in Byte /\ (r - (a - b - c)) % 256 = 0
  /\ "C" \in f <=> a < b + c
  /\ "P" \in f <=> Signed(a) - Signed(b) - c \notin -128..127
  /\ "H" \in f <=> a % 16 < (b % 16) + c
  /\ "Z" \in f <=> r = 0
  /\ "S" \in f <=> Signed(r) < 0
  /\ "N" \in f

Within(x, low, high) == low <= x /\ x <= high

Add16Meaning(a, b, c, r, f) ==
  /\ Within(r, 0, 65535) /\ (r - (a + b + c)) % 65536 = 0
  /\ "C" \in f <=> a + b + c > 65535
  /\ "P" \in f <=> ~Within(Signed16(a) + Signed16(b) + c, -32768, 32767)
  /\ "H" \in f <=> (a % 4096) + (b % 4096) + c > 4095
  /\ "Z" \in f <=> r = 0
  /\ "S" \in f <=> Signed16(r) < 0
  /\ "N" \notin f

Sub16Meaning(a, b, c, r, f) ==
  /\ Within(r, 0, 65535) /\ (r - (a - b - c)) % 65536 = 0
  /\ "C" \in f <=> a < b + c
  /\ "P" \in f <=> ~Within(Signed16(a) - Signed16(b) - c, -32768, 32767)
  /\ "H" \in f <=> a % 4096 < (b % 4096) + c
  /\ "Z" \in f <=> r = 0
  /\ "S" \in f <=> Signed16(r) < 0
  /\ "N" \in f

\* The number two decimal digits stand for.
Decimal(b) == 10 * (b \div 16) + (b % 16)
IsDecimal(b) == b % 16 < 10 /\ b \div 16 < 10
=============================================================================
