--------------------------------- MODULE Z80 ---------------------------------
(***************************************************************************)
(* The processor: the four opcode tables of core/optable.h, the functions  *)
(* of alu.c, control.c and indexcb.c they name, and CPU_step of core.c,    *)
(* which runs one instruction, lets the devices ask for an interrupt and   *)
(* takes it.                                                               *)
(*                                                                         *)
(* Memory is the 64 KB the program sees, of which only the bytes that are  *)
(* not 0 need be given; banks, protection and timing are left out (see     *)
(* BankSwitch and Interrupts).  A port answers any byte of PortBytes, what *)
(* is written to ports is kept in sent, and at an interrupt the bus holds  *)
(* any byte of BusBytes.                                                   *)
(***************************************************************************)
EXTENDS Z80Alu, Sequences

CONSTANTS Machines,   \* the processors to start from, with their programs
          PortBytes,  \* what an IN may read
          BusBytes    \* what the bus may hold when an interrupt is taken

VARIABLES cpu,        \* CPU_t and the memory behind it
          start       \* history: the machine this one started as

vars == <<cpu, start>>

Registers == {"a", "b", "c", "d", "e", "h", "l", "ixh", "ixl", "iyh", "iyl"}
Shadowed == {"b", "c", "d", "e", "h", "l"}

\* The fields of a processor; a machine may have more.
Fields == {"reg", "alt", "f", "pc", "sp", "i", "r", "imode", "iff1", "iff2",
           "ei_block", "halt", "index", "mem", "sent"}
IsProcessor(s) ==
  /\ Fields \subseteq DOMAIN s
  /\ s.reg \in [Registers -> Byte]
  /\ s.alt \in [Shadowed \cup {"a", "f"} -> Byte]
  /\ s.f \subseteq Flags
  /\ s.pc \in Word /\ s.sp \in Word
  /\ s.i \in Byte /\ s.r \in Byte
  /\ s.imode \in 0..2
  /\ {s.iff1, s.iff2, s.ei_block, s.halt} \subseteq BOOLEAN
  /\ s.index \in {"hl", "ix", "iy"}
  /\ \A a \in DOMAIN s.mem : a \in Word /\ s.mem[a] \in Byte
  /\ s.sent \in Seq(Byte \X Byte)

ASSUME MachinesAssumption == \A s \in Machines : IsProcessor(s) /\ s.index = "hl"
ASSUME BytesAssumption == PortBytes \subseteq Byte /\ BusBytes \subseteq Byte

(***************************************************************************)
(* Memory and registers.  index is the pair that stands for HL: the        *)
(* prefix of CPU_t, "hl" when there is none.                               *)
(***************************************************************************)
Peek(s, a) == IF a \in DOMAIN s.mem THEN s.mem[a] ELSE 0
Put(mem, a, v) == [b \in DOMAIN mem \cup {a} |-> IF b = a THEN v ELSE mem[b]]
Poke(s, a, v) == [s EXCEPT !.mem = Put(s.mem, Low16(a), v)]
Peek16(s, a) == Peek(s, Low16(a)) + 256 * Peek(s, Low16(a + 1))
Poke16(s, a, w) == Poke(Poke(s, a, Low(w)), a + 1, High(w))
Number8(s) == Peek(s, s.pc)
Number16(s) == Peek16(s, s.pc)
Past(s, n) == [s EXCEPT !.pc = Low16(@ + n)]
Opcode(s) == Peek(s, s.pc)
Fetched(s) == [Past(s, 1) EXCEPT !.r = 128 * Top(@) + ((@ + 1) % 128)]

Halves == [bc |-> <<"b", "c">>, de |-> <<"d", "e">>, hl |-> <<"h", "l">>,
           ix |-> <<"ixh", "ixl">>, iy |-> <<"iyh", "iyl">>]
Pair(s, p) == CASE p = "sp" -> s.sp
                [] p = "af" -> 256 * s.reg["a"] + FlagByte(s.f)
                [] OTHER -> 256 * s.reg[Halves[p][1]] + s.reg[Halves[p][2]]
SetReg(s, n, v) == [s EXCEPT !.reg[n] = v]
SetPair(s, p, w) ==
  CASE p = "sp" -> [s EXCEPT !.sp = w]
    [] p = "af" -> [SetReg(s, "a", High(w)) EXCEPT !.f = FlagsOf(Low(w))]
    [] OTHER -> SetReg(SetReg(s, Halves[p][1], High(w)), Halves[p][2], Low(w))
Moved(s, p, by) == SetPair(s, p, Low16(Pair(s, p) + by))

\* The register fields of an opcode: 6 is the byte in memory.
Name(s, n) == <<"b", "c", "d", "e", Halves[s.index][1], Halves[s.index][2], "m", "a">>[n + 1]
PlainName(n) == <<"b", "c", "d", "e", "h", "l", "m", "a">>[n + 1]
PairName(s, n) == <<"bc", "de", s.index, "sp">>[n + 1]
StackName(s, n) == <<"bc", "de", s.index, "af">>[n + 1]
X(op) == op \div 64
Y(op) == (op \div 8) % 8
Z(op) == op % 8
P(op) == (op \div 16) % 4

\* The byte (HL), or (IX+d) with the displacement at pc.
Indexed(s) == s.index # "hl"
Place(s) == IF Indexed(s) THEN Low16(Pair(s, s.index) + Signed(Number8(s)))
                          ELSE Pair(s, "hl")
PastPlace(s) == IF Indexed(s) THEN Past(s, 1) ELSE s
Operand(s, n) == IF n = 6 THEN Peek(s, Place(s)) ELSE s.reg[Name(s, n)]
PastOperand(s, n) == IF n = 6 THEN PastPlace(s) ELSE s
SetOperand(s, n, v) ==
  IF n = 6 THEN Poke(PastPlace(s), Place(s), v) ELSE SetReg(s, Name(s, n), v)

WithFlags(s, f) == [s EXCEPT !.f = f]
OnAcc(s, out) == WithFlags(SetReg(s, "a", out.r), out.f)

Pushed(s, w) == Poke16([s EXCEPT !.sp = Low16(@ - 2)], s.sp - 2, w)
Popped(s) == [s EXCEPT !.sp = Low16(@ + 2)]
TopWord(s) == Peek16(s, s.sp)
JumpTo(s, a) == [s EXCEPT !.pc = a]

Condition(s, n) ==
  LET flag == <<"Z", "C", "P", "S">>[(n \div 2) + 1]
  IN (flag \in s.f) <=> (n % 2 = 1)

(***************************************************************************)
(* Opcodes 80 to BF and their immediate forms.                             *)
(***************************************************************************)
AddA(s, v, c) == OnAcc(s, Add(s.reg["a"], v, c))
SubA(s, v, c) == OnAcc(s, Sub(s.reg["a"], v, c))
CompareA(s, v) == WithFlags(s, Compare(s.reg["a"], v).f)
Accumulate(s, y, v) ==
  CASE y = 0 -> AddA(s, v, 0)
    [] y = 1 -> AddA(s, v, CarryBit(s.f))
    [] y = 2 -> SubA(s, v, 0)
    [] y = 3 -> SubA(s, v, CarryBit(s.f))
    [] y = 4 -> OnAcc(s, AndA(s.reg["a"], v))
    [] y = 5 -> OnAcc(s, XorA(s.reg["a"], v))
    [] y = 6 -> OnAcc(s, OrA(s.reg["a"], v))
    [] y = 7 -> CompareA(s, v)

Arithmetic(s, op) ==
  Accumulate(PastOperand(s, Z(op)), Y(op), Operand(s, Z(op)))
ArithmeticNumber(s, op) == Accumulate(Past(s, 1), Y(op), Number8(s))

(***************************************************************************)
(* Opcodes 40 to 7F: loads between registers, and HALT.  With a prefix,    *)
(* (IX+d) is loaded into H and L themselves.                               *)
(***************************************************************************)
Halt(s) == [s EXCEPT !.halt = TRUE]

LoadRegister(s, op) ==
  CASE Y(op) = 6 /\ Indexed(s) -> SetOperand(s, 6, s.reg[PlainName(Z(op))])
    [] Z(op) = 6 /\ Indexed(s) -> SetReg(PastPlace(s), PlainName(Y(op)), Operand(s, 6))
    [] OTHER -> SetOperand(s, Y(op), Operand(s, Z(op)))

LoadOrHalt(s, op) == IF op = 118 THEN Halt(s) ELSE LoadRegister(s, op)

(***************************************************************************)
(* Opcodes 00 to 3F.                                                       *)
(***************************************************************************)
IncReg8(s, op) ==
  LET out == Inc(Operand(s, Y(op)), s.f)
  IN WithFlags(SetOperand(s, Y(op), out.r), out.f)
DecReg8(s, op) ==
  LET out == Dec(Operand(s, Y(op)), s.f)
  IN WithFlags(SetOperand(s, Y(op), out.r), out.f)

\* LD (IX+d),n has its displacement before the number.
LoadNumber8(s, op) ==
  IF Y(op) = 6 /\ Indexed(s)
    THEN Past(Poke(s, Place(s), Peek(s, Low16(s.pc + 1))), 2)
    ELSE SetOperand(Past(s, 1), Y(op), Number8(s))
LoadNumber16(s, op) == SetPair(Past(s, 2), PairName(s, P(op)), Number16(s))
AddToIndex(s, op) ==
  LET out == Add16(Pair(s, s.index), Pair(s, PairName(s, P(op))), s.f)
  IN WithFlags(SetPair(s, s.index, out.r), out.f)
IncReg16(s, op) == Moved(s, PairName(s, P(op)), 1)
DecReg16(s, op) == Moved(s, PairName(s, P(op)), -1)

Swapped(s) == [s EXCEPT !.reg["a"] = s.alt["a"], !.f = FlagsOf(s.alt["f"]),
                        !.alt["a"] = s.reg["a"], !.alt["f"] = FlagByte(s.f)]
JumpNear(s) == JumpTo(s, Low16(s.pc + 1 + Signed(Number8(s))))
Djnz(s) ==
  LET t == SetReg(s, "b", Low(s.reg["b"] - 1))
  IN IF t.reg["b"] # 0 THEN JumpNear(t) ELSE Past(t, 1)
JumpNearIf(s, op) == IF Condition(s, Y(op) - 4) THEN JumpNear(s) ELSE Past(s, 1)

Column0(s, op) ==
  CASE op = 0 -> s
    [] op = 8 -> Swapped(s)
    [] op = 16 -> Djnz(s)
    [] op = 24 -> JumpNear(s)
    [] OTHER -> JumpNearIf(s, op)

StoreIndex(s) == Past(Poke16(s, Number16(s), Pair(s, s.index)), 2)
LoadIndex(s) == SetPair(Past(s, 2), s.index, Peek16(s, Number16(s)))
StoreA(s, a) == Poke(s, a, s.reg["a"])
LoadA(s, a) == SetReg(s, "a", Peek(s, a))
Column2(s, op) ==
  CASE op = 2  -> StoreA(s, Pair(s, "bc"))
    [] op = 18 -> StoreA(s, Pair(s, "de"))
    [] op = 34 -> StoreIndex(s)
    [] op = 50 -> StoreA(Past(s, 2), Number16(s))
    [] op = 10 -> LoadA(s, Pair(s, "bc"))
    [] op = 26 -> LoadA(s, Pair(s, "de"))
    [] op = 42 -> LoadIndex(s)
    [] op = 58 -> LoadA(Past(s, 2), Number16(s))

Column7(s, op) ==
  LET a == s.reg["a"] IN
  CASE op = 7  -> OnAcc(s, OnA(Rlc(a), s.f))
    [] op = 15 -> OnAcc(s, OnA(Rrc(a), s.f))
    [] op = 23 -> OnAcc(s, OnA(Rl(a, s.f), s.f))
    [] op = 31 -> OnAcc(s, OnA(Rr(a, s.f), s.f))
    [] op = 39 -> OnAcc(s, Daa(a, s.f))
    [] op = 47 -> OnAcc(s, Cpl(a, s.f))
    [] op = 55 -> WithFlags(s, Scf(a, s.f))
    [] op = 63 -> WithFlags(s, Ccf(a, s.f))

FirstQuarter(s, op) ==
  CASE Z(op) = 0 -> Column0(s, op)
    [] Z(op) = 1 /\ Y(op) % 2 = 0 -> LoadNumber16(s, op)
    [] Z(op) = 1 /\ Y(op) % 2 = 1 -> AddToIndex(s, op)
    [] Z(op) = 2 -> Column2(s, op)
    [] Z(op) = 3 /\ Y(op) % 2 = 0 -> IncReg16(s, op)
    [] Z(op) = 3 /\ Y(op) % 2 = 1 -> DecReg16(s, op)
    [] Z(op) = 4 -> IncReg8(s, op)
    [] Z(op) = 5 -> DecReg8(s, op)
    [] Z(op) = 6 -> LoadNumber8(s, op)
    [] Z(op) = 7 -> Column7(s, op)

(***************************************************************************)
(* Opcodes C0 to FF.                                                       *)
(***************************************************************************)
\* Faulty: EI lets an interrupt in right after itself.
EnableAtOnce(s) == [s EXCEPT !.iff1 = TRUE, !.iff2 = TRUE]

Enable(s) == [s EXCEPT !.iff1 = TRUE, !.iff2 = TRUE, !.ei_block = TRUE]
Disable(s) == [s EXCEPT !.iff1 = FALSE, !.iff2 = FALSE]

Return(s) == JumpTo(Popped(s), TopWord(s))
Call(s) == JumpTo(Pushed(Past(s, 2), Low16(s.pc + 2)), Number16(s))
Jump(s) == JumpTo(s, Number16(s))
ReturnIf(s, op) == IF Condition(s, Y(op)) THEN Return(s) ELSE s
CallIf(s, op) == IF Condition(s, Y(op)) THEN Call(s) ELSE Past(s, 2)
JumpIf(s, op) == IF Condition(s, Y(op)) THEN Jump(s) ELSE Past(s, 2)
Rst(s, op) == JumpTo(Pushed(s, s.pc), 8 * Y(op))
Push(s, op) == Pushed(s, Pair(s, StackName(s, P(op))))
Pop(s, op) == SetPair(Popped(s), StackName(s, P(op)), TopWord(s))
ExchangeTop(s) == Poke16(SetPair(s, s.index, TopWord(s)), s.sp, Pair(s, s.index))
ExchangeDE(s) == SetPair(SetPair(s, "de", Pair(s, "hl")), "hl", Pair(s, "de"))
Over(f, g) == [n \in DOMAIN g |-> IF n \in Shadowed THEN f[n] ELSE g[n]]
Exx(s) == [s EXCEPT !.reg = Over(s.alt, s.reg), !.alt = Over(s.reg, s.alt)]
Output(s, port, v) == [s EXCEPT !.sent = Append(@, <<port, v>>)]

LastQuarter(s, op, answer) ==
  CASE Z(op) = 0 -> ReturnIf(s, op)
    [] Z(op) = 1 /\ Y(op) % 2 = 0 -> Pop(s, op)
    [] op = 201 -> Return(s)
    [] op = 217 -> Exx(s)
    [] op = 233 -> JumpTo(s, Pair(s, s.index))
    [] op = 249 -> [s EXCEPT !.sp = Pair(s, s.index)]
    [] Z(op) = 2 -> JumpIf(s, op)
    [] op = 195 -> Jump(s)
    [] op = 211 -> Output(Past(s, 1), Number8(s), s.reg["a"])
    [] op = 219 -> SetReg(Past(s, 1), "a", answer)
    [] op = 227 -> ExchangeTop(s)
    [] op = 235 -> ExchangeDE(s)
    [] op = 243 -> Disable(s)
    [] op = 251 -> Enable(s)
    [] Z(op) = 4 -> CallIf(s, op)
    [] Z(op) = 5 /\ Y(op) % 2 = 0 -> Push(s, op)
    [] op = 205 -> Call(s)
    [] Z(op) = 6 -> ArithmeticNumber(s, op)
    [] Z(op) = 7 -> Rst(s, op)

\* Every opcode but the prefixes CB, DD, ED and FD.
Execute(s, op, answer) ==
  CASE X(op) = 0 -> FirstQuarter(s, op)
    [] X(op) = 1 -> LoadOrHalt(s, op)
    [] X(op) = 2 -> Arithmetic(s, op)
    [] X(op) = 3 -> LastQuarter(s, op, answer)

(***************************************************************************)
(* Prefix CB: rotations, and single bits.                                  *)
(***************************************************************************)
Rotation(y, v, f) ==
  CASE y = 0 -> Rlc(v)
    [] y = 1 -> Rrc(v)
    [] y = 2 -> Rl(v, f)
    [] y = 3 -> Rr(v, f)
    [] y = 4 -> Sla(v)
    [] y = 5 -> Sra(v)
    [] y = 6 -> Sll(v)
    [] y = 7 -> Srl(v)
Mask(y) == <<1, 2, 4, 8, 16, 32, 64, 128>>[y + 1]
BitReset(v, y) == IF Has(v, Mask(y)) THEN v - Mask(y) ELSE v
BitGiven(v, y) == IF Has(v, Mask(y)) THEN v ELSE v + Mask(y)

Rotate(s, op) ==
  LET out == Rotation(Y(op), Operand(s, Z(op)), s.f)
  IN WithFlags(SetOperand(s, Z(op), out.r), out.f)
TestBit(s, op) ==
  LET v == Operand(s, Z(op))
  IN WithFlags(s, BitFlags(v, Mask(Y(op)), And(v, Mask(Y(op))), s.f))
ResetBit(s, op) == SetOperand(s, Z(op), BitReset(Operand(s, Z(op)), Y(op)))
GiveBit(s, op) == SetOperand(s, Z(op), BitGiven(Operand(s, Z(op)), Y(op)))

Bits(s, op) ==
  CASE X(op) = 0 -> Rotate(s, op)
    [] X(op) = 1 -> TestBit(s, op)
    [] X(op) = 2 -> ResetBit(s, op)
    [] X(op) = 3 -> GiveBit(s, op)

\* The indexed forms work on memory and leave a copy in a register as well.
IndexedStore(s, at, op, v) ==
  IF Z(op) = 6 THEN Poke(s, at, v) ELSE SetReg(Poke(s, at, v), PlainName(Z(op)), v)
IndexedRotate(s, at, op) ==
  LET out == Rotation(Y(op), Peek(s, at), s.f)
  IN IndexedStore(WithFlags(s, out.f), at, op, out.r)
IndexedTest(s, at, op) ==
  WithFlags(s, BitFlags(Peek(s, at), Mask(Y(op)), High(at), s.f))
IndexedReset(s, at, op) == IndexedStore(s, at, op, BitReset(Peek(s, at), Y(op)))
IndexedGive(s, at, op) == IndexedStore(s, at, op, BitGiven(Peek(s, at), Y(op)))

\* The displacement comes before the opcode, whose fetch is not counted in r.
IndexedBits(s) ==
  LET at == Place(s)
      op == Peek(s, Low16(s.pc + 1))
      t  == Past(s, 2)
  IN CASE X(op) = 0 -> IndexedRotate(t, at, op)
       [] X(op) = 1 -> IndexedTest(t, at, op)
       [] X(op) = 2 -> IndexedReset(t, at, op)
       [] X(op) = 3 -> IndexedGive(t, at, op)

(***************************************************************************)
(* Prefix ED.  These use HL whatever the prefix before them.               *)
(***************************************************************************)
WidePair(op) == <<"bc", "de", "hl", "sp">>[P(op) + 1]
ReadPort(s, op, answer) ==
  WithFlags(IF Y(op) = 6 THEN s ELSE SetReg(s, PlainName(Y(op)), answer),
            ReadFlags(answer, s.f))
WritePort(s, op) ==
  Output(s, s.reg["c"], IF Y(op) = 6 THEN 255 ELSE s.reg[PlainName(Y(op))])
WideSubtract(s, op) ==
  LET out == Sbc16(Pair(s, "hl"), Pair(s, WidePair(op)), CarryBit(s.f))
  IN WithFlags(SetPair(s, "hl", out.r), out.f)
WideAdd(s, op) ==
  LET out == Adc16(Pair(s, "hl"), Pair(s, WidePair(op)), CarryBit(s.f))
  IN WithFlags(SetPair(s, "hl", out.r), out.f)
WideStore(s, op) == Past(Poke16(s, Number16(s), Pair(s, WidePair(op))), 2)
WideLoad(s, op) == SetPair(Past(s, 2), WidePair(op), Peek16(s, Number16(s)))
ReturnFromInterrupt(s) == [Return(s) EXCEPT !.iff1 = s.iff2]
Mode(s, y) == [s EXCEPT !.imode = CASE y % 4 \in {0, 1} -> 0
                                    [] y % 4 = 2 -> 1
                                    [] y % 4 = 3 -> 2]
FromControl(s, v) ==
  WithFlags(SetReg(s, "a", v), (ReadFlags(v, s.f) \ {"P"}) \cup On("P", s.iff2))
DigitsLeft(s) ==
  LET a == s.reg["a"]
      v == Peek(s, Pair(s, "hl"))
      r == 16 * (a \div 16) + (v \div 16)
      t == Poke(SetReg(s, "a", r), Pair(s, "hl"), 16 * (v % 16) + (a % 16))
  IN WithFlags(t, ReadFlags(r, s.f))
DigitsRight(s) ==
  LET a == s.reg["a"]
      v == Peek(s, Pair(s, "hl"))
      r == 16 * (a \div 16) + (v % 16)
      t == Poke(SetReg(s, "a", r), Pair(s, "hl"), 16 * (a % 16) + (v \div 16))
  IN WithFlags(t, ReadFlags(r, s.f))
Special(s, y) ==
  CASE y = 0 -> [s EXCEPT !.i = s.reg["a"]]
    [] y = 1 -> [s EXCEPT !.r = s.reg["a"]]
    [] y = 2 -> FromControl(s, s.i)
    [] y = 3 -> FromControl(s, s.r)
    [] y = 4 -> DigitsRight(s)
    [] y = 5 -> DigitsLeft(s)
    [] OTHER -> s

(***************************************************************************)
(* The block instructions: one round each; the repeating ones, y > 5, step *)
(* back to run again.  Odd y goes down in memory.                          *)
(***************************************************************************)
Way(y) == IF y % 2 = 0 THEN 1 ELSE -1
Again(s, y, more) == IF y > 5 /\ more THEN Past(s, -2) ELSE s

\* Faulty: the repeating copy stops one byte early.
CopyBlockShort(s, y) ==
  LET v    == Peek(s, Pair(s, "hl"))
      t    == Moved(Moved(Moved(Poke(s, Pair(s, "de"), v), "bc", -1),
                          "hl", Way(y)), "de", Way(y))
      more == Pair(t, "bc") # 0
  IN Again(WithFlags(t, CopyFlags(s.reg["a"] + v, more, s.f)), y, Pair(t, "bc") > 1)

CopyBlock(s, y) ==
  LET v    == Peek(s, Pair(s, "hl"))
      t    == Moved(Moved(Moved(Poke(s, Pair(s, "de"), v), "bc", -1),
                          "hl", Way(y)), "de", Way(y))
      more == Pair(t, "bc") # 0
  IN Again(WithFlags(t, CopyFlags(s.reg["a"] + v, more, s.f)), y, more)

SearchBlock(s, y) ==
  LET v == Peek(s, Pair(s, "hl"))
      t == Moved(Moved(s, "bc", -1), "hl", Way(y))
      f == SearchFlags(s.reg["a"], v, Pair(t, "bc") # 0, s.f)
  IN Again(WithFlags(t, f), y, "P" \in f /\ "Z" \notin f)

ReadBlock(s, y, answer) ==
  LET b == Low(s.reg["b"] - 1)
      t == Moved(SetReg(Poke(s, Pair(s, "hl"), answer), "b", b), "hl", Way(y))
  IN Again(WithFlags(t, PortFlags(b, answer, answer + Low(s.reg["c"] + Way(y)))), y, b # 0)

WriteBlock(s, y) ==
  LET v == Peek(s, Pair(s, "hl"))
      b == Low(s.reg["b"] - 1)
      t == Moved(SetReg(Output(s, s.reg["c"], v), "b", b), "hl", Way(y))
  IN Again(WithFlags(t, PortFlags(b, v, v + t.reg["l"])), y, b # 0)

Blocks(s, op, answer) ==
  CASE Z(op) = 0 -> CopyBlock(s, Y(op))
    [] Z(op) = 1 -> SearchBlock(s, Y(op))
    [] Z(op) = 2 -> ReadBlock(s, Y(op), answer)
    [] Z(op) = 3 -> WriteBlock(s, Y(op))

Column(s, op, answer) ==
  CASE Z(op) = 0 -> ReadPort(s, op, answer)
    [] Z(op) = 1 -> WritePort(s, op)
    [] Z(op) = 2 /\ Y(op) % 2 = 0 -> WideSubtract(s, op)
    [] Z(op) = 2 /\ Y(op) % 2 = 1 -> WideAdd(s, op)
    [] Z(op) = 3 /\ Y(op) % 2 = 0 -> WideStore(s, op)
    [] Z(op) = 3 /\ Y(op) % 2 = 1 -> WideLoad(s, op)
    [] Z(op) = 4 -> OnAcc(s, Neg(s.reg["a"]))
    [] Z(op) = 5 -> ReturnFromInterrupt(s)
    [] Z(op) = 6 -> Mode(s, Y(op))
    [] Z(op) = 7 -> Special(s, Y(op))

Extended(s, op, answer) ==
  CASE X(op) = 1 -> Column(s, op, answer)
    [] X(op) = 2 /\ Y(op) > 3 /\ Z(op) < 4 -> Blocks(s, op, answer)
    [] OTHER -> s

(***************************************************************************)
(* One instruction, with its prefixes.  Of a row of DD and FD the last one *)
(* counts, and each is a fetch.                                            *)
(***************************************************************************)
Prefixes == {221, 253}

\* A row of prefixes that goes once around the memory never ends, and neither
\* does the step that reads it.
RowEnds(s) == ~ \A a \in Word : Peek(s, a) \in Prefixes

\* Faulty: the prefix outlives its instruction.
StillPrefixed(s) == s

Unprefixed(s) == [s EXCEPT !.index = "hl"]

Opened(s, op, answer) ==
  CASE op = 203 /\ Indexed(s) -> IndexedBits(s)
    [] op = 203 /\ ~Indexed(s) -> Bits(Fetched(s), Opcode(s))
    [] op = 237 -> Extended(Fetched(s), Opcode(s), answer)
    [] OTHER -> Execute(s, op, answer)

UnderPrefix(s, op, answer) ==
  LET more   == CHOOSE n \in Word : /\ Peek(s, Low16(s.pc + n)) \notin Prefixes
                                    /\ \A m \in 0..(n - 1) : Peek(s, Low16(s.pc + m)) \in Prefixes
      last   == IF more = 0 THEN op ELSE Peek(s, Low16(s.pc + more - 1))
      passed == [Past(s, more) EXCEPT !.r = 128 * Top(@) + ((@ + more) % 128),
                                      !.index = IF last = 221 THEN "ix" ELSE "iy"]
  IN Unprefixed(Opened(Fetched(passed), Opcode(passed), answer))

Instruction(s, op, answer) ==
  IF op \in Prefixes THEN UnderPrefix(s, op, answer) ELSE Opened(s, op, answer)

(***************************************************************************)
(* handle_interrupt, and what CPU_step does before it: PV is reset when    *)
(* the two bytes before pc read LD A,I or LD A,R.                          *)
(***************************************************************************)
Vectored(s, bus) ==
  JumpTo(Pushed(s, s.pc), Peek16(s, 256 * s.i + bus))

Interrupted(s, bus, answer) ==
  LET t == [s EXCEPT !.iff1 = FALSE, !.iff2 = FALSE, !.halt = FALSE]
  IN CASE ~s.iff1 -> s
       [] s.iff1 /\ s.imode = 0 -> Instruction(t, bus, answer)
       [] s.iff1 /\ s.imode = 1 -> Rst(t, 255)
       [] s.iff1 /\ s.imode = 2 -> Vectored(t, bus)

AfterControlLoad(s) ==
  /\ Peek(s, Low16(s.pc - 2)) = 237
  /\ Peek(s, Low16(s.pc - 1)) \in {87, 95}
Acknowledged(s) == IF AfterControlLoad(s) THEN [s EXCEPT !.f = @ \ {"P"}] ELSE s

\* The devices have had their turn: one of them asks for an interrupt or not.
Devices(s, answer) ==
  \/ cpu' = s
  \/ /\ ~s.ei_block
     /\ \E bus \in BusBytes : /\ bus \in Prefixes => RowEnds(s)
                              /\ cpu' = Interrupted(Acknowledged(s), bus, answer)

Awake == [cpu EXCEPT !.ei_block = FALSE]

Run(codes) ==
  /\ ~cpu.halt /\ Opcode(cpu) \in codes
  /\ Opcode(cpu) \in Prefixes => RowEnds(cpu)
  /\ \E answer \in PortBytes :
        Devices(Instruction(Fetched(Awake), Opcode(cpu), answer), answer)
  /\ UNCHANGED start

RunPlain    == Run(Byte \ {203, 221, 237, 253})
RunBits     == Run({203})
RunExtended == Run({237})
RunIndexed  == Run(Prefixes)
\* Three refreshes are counted for each step of a halted processor.
RunHalted ==
  /\ cpu.halt
  /\ Devices([Awake EXCEPT !.r = 128 * Top(@) + ((@ + 3) % 128)], 0)
  /\ UNCHANGED start

Init == cpu \in Machines /\ start = cpu
Next == RunPlain \/ RunBits \/ RunExtended \/ RunIndexed \/ RunHalted
Spec == Init /\ [][Next]_vars

(***************************************************************************)
(* Properties.                                                             *)
(***************************************************************************)
\* Between two instructions no prefix is left, and every register and every
\* byte of memory stays within its width (CPU_step).
TypeOK == IsProcessor(cpu) /\ cpu.index = "hl"

\* The step ran its instruction and took no interrupt: that would have shut
\* out others, and only EI lets them in again.
Undisturbed == ~cpu.halt /\ (cpu.iff1 => cpu'.iff1 /\ ~cpu'.ei_block)

AccumulatorStep ==
  LET op == Opcode(cpu)
      a  == cpu.reg["a"]
      v  == Operand(cpu, Z(op))
      c  == CarryBit(cpu.f)
      a2 == cpu'.reg["a"]
  IN X(op) = 2 /\ Undisturbed =>
       /\ Y(op) = 0 => AddMeaning(a, v, 0, a2, cpu'.f)
       /\ Y(op) = 1 => AddMeaning(a, v, c, a2, cpu'.f)
       /\ Y(op) = 2 => SubMeaning(a, v, 0, a2, cpu'.f)
       /\ Y(op) = 3 => SubMeaning(a, v, c, a2, cpu'.f)
       /\ Y(op) = 7 => a2 = a /\ SubMeaning(a, v, 0, Low(a - v), cpu'.f)

CountStep ==
  LET op == Opcode(cpu)
      v  == Operand(cpu, Y(op))
      v2 == cpu'.reg[Name(cpu, Y(op))]
      C2 == (cpu'.f \ {"C"}) \cup On("C", IF Z(op) = 4 THEN v = 255 ELSE v = 0)
  IN X(op) = 0 /\ Y(op) # 6 /\ Undisturbed =>
       /\ Z(op) = 4 => AddMeaning(v, 1, 0, v2, C2)
       /\ Z(op) = 5 => SubMeaning(v, 1, 0, v2, C2)
       /\ Z(op) \in {4, 5} => (cpu'.f \cap {"C"}) = (cpu.f \cap {"C"})

WideStep ==
  LET op == Peek(cpu, Low16(cpu.pc + 1))
      a  == Pair(cpu, "hl")
      v  == Pair(cpu, WidePair(op))
      c  == CarryBit(cpu.f)
  IN Opcode(cpu) = 237 /\ X(op) = 1 /\ Undisturbed =>
       /\ Z(op) = 2 /\ Y(op) % 2 = 0 => Sub16Meaning(a, v, c, Pair(cpu', "hl"), cpu'.f)
       /\ Z(op) = 2 /\ Y(op) % 2 = 1 => Add16Meaning(a, v, c, Pair(cpu', "hl"), cpu'.f)
       /\ Z(op) = 4 => SubMeaning(0, cpu.reg["a"], 0, cpu'.reg["a"], cpu'.f)

\* The masks and shifts of the flag macros tell, for every addition,
\* subtraction, comparison and count of 8 and 16 bits, whether the unsigned
\* range, the signed range and the low digit were left.
ArithmeticMeans == [][AccumulatorStep /\ CountStep /\ WideStep]_vars
=============================================================================
