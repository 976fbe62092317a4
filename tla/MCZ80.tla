-------------------------------- MODULE MCZ80 --------------------------------
(* Short programs at 0100h, the interrupt handler at 0038h, and what must hold *)
(* when a program has come to its end.                                         *)
EXTENDS Z80, TLC

Origin == 256
Handler == 56
Placed(at, bytes) == [a \in at..(at + Len(bytes) - 1) |-> bytes[a - at + 1]]

\* A processor that has not run yet; kind says what the program is for.
Blank(kind, code) ==
  [kind |-> kind, end |-> Origin + Len(code),
   reg |-> [n \in Registers |-> 0], alt |-> [n \in Shadowed \cup {"a", "f"} |-> 0],
   f |-> {}, pc |-> Origin, sp |-> 1024, i |-> 0, r |-> 0, imode |-> 1,
   iff1 |-> FALSE, iff2 |-> FALSE, ei_block |-> FALSE, halt |-> FALSE,
   index |-> "hl", sent |-> <<>>, mem |-> Placed(Origin, code)]
With(s, a, b, c) == [s EXCEPT !.reg["a"] = a, !.reg["b"] = b, !.f = c]

\* Bytes on both sides of every boundary of the arithmetic.
Sample == {0, 1, 8, 15, 16, 127, 128, 153, 240, 255}
Carries == {{}, {"C"}}
Sums == {With(Blank("sum", <<op>>), a, b, f) :
           op \in {128 + 8 * y : y \in 0..7} \cup {4, 5}, a \in Sample, b \in Sample, f \in Carries}
Words == {0, 1, 4095, 4096, 32767, 32768, 65535}
WideSums == {[SetPair(SetPair(Blank("sum", <<237, op>>), "hl", x), "bc", y) EXCEPT !.f = f] :
           op \in {66, 74}, x \in Words, y \in Words, f \in Carries}
Negations == {With(Blank("sum", <<237, 68>>), a, 0, {}) : a \in Sample}

\* Two decimal numbers are added or subtracted and the result adjusted.
DecimalBytes == {0, 1, 9, 16, 21, 71, 80, 89, 144, 153}
Decimals == {With(Blank("decimal", <<op, 39>>), a, b, f) :
           op \in {128, 136, 144, 152}, a \in DecimalBytes, b \in DecimalBytes, f \in Carries}

\* What makes a program decimal: ADD, ADC, SUB or SBC of two decimal bytes, and DAA.
IsDecimalProgram(s) ==
  /\ ~s.halt /\ ~s.iff1 /\ s.pc = Origin /\ s.end = Origin + 2
  /\ Opcode(s) \in {128, 136, 144, 152} /\ Peek(s, Origin + 1) = 39
  /\ IsDecimal(s.reg["a"]) /\ IsDecimal(s.reg["b"])

ASSUME DecimalAssumption == \A s \in Machines : s.kind = "decimal" => IsDecimalProgram(s)

\* Every opcode of every table once.
Lived(s) == SetPair(SetPair(SetPair(SetPair(SetPair(With(s, 77, 3, {"C", "H"}),
              "hl", 513), "de", 530), "ix", 520), "iy", 540), "sp", 1000)
Tables == {<<>>, <<203>>, <<237>>, <<221>>, <<253>>, <<221, 253>>}
Opcodes == {Lived(Blank("any", t \o <<op, 2, 3>>)) : t \in Tables, op \in Byte}
         \cup {Lived(Blank("any", <<221, 203, 254, op>>)) : op \in Byte}
         \cup {[Lived(Blank("any", <<0>>)) EXCEPT !.iff1 = TRUE, !.imode = m, !.i = 2] : m \in {0, 2}}

\* A handler that changes registers it has saved, and ends with EI, RET.
Serving(s) ==
  [s EXCEPT !.iff1 = TRUE, !.iff2 = TRUE,
            !.mem = Placed(Handler, <<245, 60, 183, 241, 251, 201>>) @@ @]
Text == <<5, 6, 7, 6>>
BlockMachine(op, hl, de, bc, a) ==
  LET s == Serving(Blank("block", <<237, op>>))
      t == [s EXCEPT !.mem = Placed(512, Text) @@ @, !.reg["a"] = a]
  IN SetPair(SetPair(SetPair(t, "hl", hl), "de", de), "bc", bc)
BlockRuns == {BlockMachine(176, 512, de, 3, 0) : de \in {513, 514, 600}}
        \cup {BlockMachine(184, 515, de, 3, 0) : de \in {514, 400}}
        \cup {BlockMachine(177, 512, 0, 4, a) : a \in {6, 7, 9}}
        \cup {BlockMachine(179, 512, 0, 3 * 256 + 16, 0)}

\* A handler that keeps the pairs it finds.
HasHandler(s) == \A k \in 1..6 : Peek(s, Handler + k - 1) = <<245, 60, 183, 241, 251, 201>>[k]

\* What makes a program a block one: LDIR, LDDR, CPIR or OTIR, and the handler;
\* what is copied, searched or sent lies between the code and the stack; LDIR
\* writes above what it reads and LDDR below it, where an overlap repeats.
IsBlockProgram(s) ==
  LET op == Peek(s, Origin + 1)
      hl == Pair(s, "hl")
      de == Pair(s, "de")
      bc == Pair(s, "bc")
      b  == s.reg["b"]
      room == (Origin + 2)..(s.sp - 5)
  IN /\ s.pc = Origin /\ s.end = Origin + 2 /\ s.imode = 1 /\ ~s.halt /\ s.sent = <<>>
     /\ Peek(s, Origin) = 237 /\ HasHandler(s) /\ hl \in room
     /\ \/ op = 176 /\ bc > 0 /\ hl < de /\ de + bc - 1 \in room
        \/ op = 184 /\ bc > 0 /\ de < hl /\ de - bc + 1 \in room
        \/ op = 177 /\ bc > 0 /\ hl + bc - 1 \in room
        \/ op = 179 /\ b > 0 /\ hl + b - 1 \in room

ASSUME BlockAssumption == \A s \in Machines : s.kind = "block" => IsBlockProgram(s)

\* A program that does nothing, forever, with a handler that returns by EI, RET.
Idlers == {[Serving(Blank("idle", code)) EXCEPT !.end = 0] :
              code \in {<<118, 24, 253>>, <<251, 118, 24, 252>>, <<24, 254>>}}

\* What makes a program idle: a row of NOP, HALT, DI and EI, a jump back to its
\* beginning, and a stack above it.
Loop(s, n) ==
  /\ \A k \in 0..(n - 1) : Peek(s, Origin + k) \in {0, 118, 243, 251}
  /\ Peek(s, Origin + n) = 24 /\ Signed(Peek(s, Origin + n + 1)) = -(n + 2)
IsIdleProgram(s) ==
  /\ s.pc = Origin /\ s.imode = 1 /\ 516 <= s.sp
  /\ \E n \in 0..100 : Loop(s, n)
  /\ HasHandler(s)

ASSUME IdleAssumption == \A s \in Machines : s.kind = "idle" => IsIdleProgram(s)

MCMachines == Sums \cup WideSums \cup Negations \cup Decimals \cup Opcodes
                \cup BlockRuns \cup Idlers

\* A program is followed up to its end, or for one instruction.
Followed == IF start.kind = "any" THEN cpu = start ELSE cpu.pc # start.end
MCNext == Followed /\ Next
MCSpec == Init /\ [][MCNext]_vars

AtEnd(kind) == start.kind = kind /\ cpu.pc = start.end

(***************************************************************************)
(* Properties of the programs.                                             *)
(***************************************************************************)
\* DAA after an addition or a subtraction of two decimal bytes gives the sum or
\* the difference in decimal, and the carry out of two digits.
DecimalRight ==
  AtEnd("decimal") =>
    LET x == Decimal(start.reg["a"])
        y == Decimal(start.reg["b"])
        c == IF Y(Opcode(start)) \in {1, 3} THEN CarryBit(start.f) ELSE 0
        exact == IF Y(Opcode(start)) < 2 THEN x + y + c ELSE x - y - c
    IN /\ IsDecimal(cpu.reg["a"])
       /\ Decimal(cpu.reg["a"]) = exact % 100
       /\ "C" \in cpu.f <=> exact \notin 0..99

\* A block instruction that is interrupted, and whose handler runs between two
\* of its rounds, does at its end what it promises: LDIR and LDDR have copied
\* byte after byte, so that an overlapping copy repeats its beginning; CPIR
\* stands behind the first byte that is equal; OTIR has sent the bytes in order.
BlockDone ==
  AtEnd("block") =>
    LET op == Peek(start, Origin + 1)
        hl == Pair(start, "hl")
        de == Pair(start, "de")
        bc == Pair(start, "bc")
        up == op # 184
        gap == IF up THEN de - hl ELSE hl - de
        at(base, k) == IF up THEN base + k ELSE base - k
        copied == \A k \in 0..(bc - 1) : Peek(cpu, at(de, k)) = Peek(start, at(hl, k % gap))
        equal == {k \in 0..(bc - 1) : Peek(start, hl + k) = start.reg["a"]}
        steps == IF equal = {} THEN bc ELSE 1 + CHOOSE k \in equal : \A m \in equal : k <= m
    IN /\ op \in {176, 184} => copied /\ Pair(cpu, "bc") = 0
       /\ op = 177 => /\ Pair(cpu, "hl") = hl + steps /\ Pair(cpu, "bc") = bc - steps
                      /\ "Z" \in cpu.f <=> equal # {}
       /\ op = 179 => cpu.sent = [k \in 1..start.reg["b"] |->
                                    <<start.reg["c"], Peek(start, hl + k - 1)>>]
       /\ cpu.reg["a"] = start.reg["a"] /\ cpu.sp = start.sp

\* A handler that ends with EI and RET is never interrupted between the two, so
\* interrupts that never cease do not pile up on the stack: it holds one return
\* address and the pair the handler saves.
OneFrame == start.kind = "idle" => cpu.sp >= start.sp - 4
=============================================================================
