------------------------- MODULE FlashCommandProofs -------------------------
(***************************************************************************)
(* Proofs about the flash command machine, for every chip size, flash      *)
(* version, set of tracked bytes and data.                                 *)
(***************************************************************************)
EXTENDS FlashCommand, TLAPS

\* The step and the command written so far always fit together.
LEMMA InitComplete == Init => CommandComplete
  BY DEF Init, CommandComplete, Protocol

LEMMA EndComplete ==
  ASSUME step' = "READ", command' = <<>>
  PROVE  CommandComplete'
  BY DEF CommandComplete, Protocol

LEMMA ContinueComplete ==
  ASSUME CommandComplete, NEW a \in Addr, NEW d, WriteContinues(a, d)
  PROVE  CommandComplete'
  <1>1. PICK r \in CommandTable : /\ r.from = step /\ r.low = a.low
                                  /\ r.data = d /\ step' = r.to
    BY DEF WriteContinues, Continues
  <1>2. command' = <<command, a.low, d>> /\ a.low \in Lows
    BY DEF WriteContinues, Addr
  <1> QED BY <1>1, <1>2 DEF CommandComplete, Protocol, CommandTable, Row, Unlock,
                           Lows, First, EraseCommand, EraseFirst, FastCommand

LEMMA ProgramComplete ==
  ASSUME CommandComplete, NEW a, NEW d, WriteProgram(a, d)
  PROVE  CommandComplete'
  <1>1. CASE step = "PROGRAM"
    BY <1>1, EndComplete DEF WriteProgram
  <1>2. CASE step = "FASTMODE_PROG"
    <2>1. step' = "FASTMODE" /\ command' = command[1]
      BY <1>2 DEF WriteProgram
    <2>2. command[1] = FastCommand
      BY <1>2 DEF CommandComplete, Protocol
    <2> QED BY <2>1, <2>2 DEF CommandComplete, Protocol
  <1> QED BY <1>1, <1>2 DEF WriteProgram, Programming

LEMMA BackComplete ==
  ASSUME CommandComplete, NEW a, NEW d, WriteBackToFast(a, d)
  PROVE  CommandComplete'
  <1>1. step = "FASTMODE_EXIT" /\ step' = "FASTMODE" /\ command' = command[1]
    BY DEF WriteBackToFast
  <1>2. command[1] = FastCommand
    BY <1>1 DEF CommandComplete, Protocol
  <1> QED BY <1>1, <1>2 DEF CommandComplete, Protocol

LEMMA WriteComplete ==
  ASSUME CommandComplete, NEW a \in Addr, NEW d, NEW ro, MemWrite(a, d, ro)
  PROVE  CommandComplete'
  <1>1. CASE WriteExit(a, d) \/ WriteErase(a, d) \/ WriteAborts(a, d)
    BY <1>1, EndComplete DEF WriteExit, WriteErase, WriteAborts
  <1>2. CASE WriteContinues(a, d)
    BY <1>2, ContinueComplete
  <1>3. CASE WriteProgram(a, d)
    BY <1>3, ProgramComplete
  <1>4. CASE WriteBackToFast(a, d)
    BY <1>4, BackComplete
  <1> QED BY <1>1, <1>2, <1>3, <1>4 DEF MemWrite

LEMMA NextComplete == CommandComplete /\ [Next]_vars => CommandComplete'
  <1> SUFFICES ASSUME CommandComplete, [Next]_vars
               PROVE  CommandComplete'
    OBVIOUS
  <1>1. ASSUME NEW a \in Targets, NEW d \in Data, NEW ro \in BOOLEAN,
               MemWrite(a, d, ro)
        PROVE  CommandComplete'
    BY <1>1, ChipAssumption, WriteComplete
  <1>2. ASSUME NEW id \in BOOLEAN, MemRead(id)
        PROVE  CommandComplete'
    <2>1. \/ UNCHANGED <<step, command>>
          \/ step' = "READ" /\ command' = <<>>
      BY <1>2 DEF MemRead
    <2> QED BY <2>1, EndComplete DEF CommandComplete
  <1>3. CASE FetchFromFlash
    BY <1>3, EndComplete DEF FetchFromFlash
  <1>4. ASSUME UNCHANGED <<step, command>>
        PROVE  CommandComplete'
    BY <1>4 DEF CommandComplete
  <1>5. CASE \/ \E unlock \in BOOLEAN : OutPort14(unlock)
             \/ \E byte \in 0..4 : OutPort21(byte)
             \/ Restart
             \/ UNCHANGED vars
    BY <1>4, <1>5 DEF OutPort14, OutPort21, Restart, vars
  <1> QED BY <1>1, <1>2, <1>3, <1>5 DEF Next

\* In every state of every run the step is backed by the whole sequence of
\* writes that the chip asks for.
THEOREM CommandIsComplete == Spec => []CommandComplete
  BY InitComplete, NextComplete, PTL DEF Spec

(* What changes flash *)

LEMMA FlashChange ==
  ASSUME [Next]_vars, flash' # flash
  PROVE  \E a \in Addr, d \in Data :
           /\ ~locked
           /\ (Programming /\ ProgramByte(a, d)) \/ WriteErase(a, d)
  <1>1. \E a \in Targets, d \in Data, ro \in BOOLEAN : MemWrite(a, d, ro)
    BY DEF Next, MemRead, FetchFromFlash, OutPort14, OutPort21, Restart, vars
  <1>2. PICK a \in Targets, d \in Data, ro \in BOOLEAN : MemWrite(a, d, ro)
    BY <1>1
  <1>3. ~locked
    BY <1>2 DEF MemWrite, WriteValid
  <1>4. WriteProgram(a, d) \/ WriteErase(a, d)
    BY <1>2 DEF MemWrite, WriteExit, WriteContinues, WriteBackToFast, WriteAborts
  <1>5. a \in Addr
    BY ChipAssumption
  <1> QED BY <1>3, <1>4, <1>5 DEF WriteProgram

\* Flash changes only while unlocked and at the end of a complete command.
THEOREM ChangesByCommand == Spec => FlashChangesByCommand
  <1>1. CommandComplete /\ [Next]_vars =>
          [flash' # flash =>
             /\ ~locked
             /\ \E s \in {"PROGRAM", "FASTMODE_PROG", "ERASE_55"} :
                  <<s, command>> \in Protocol]_vars
    <2> SUFFICES ASSUME CommandComplete, [Next]_vars, flash' # flash
                 PROVE  /\ ~locked
                        /\ \E s \in {"PROGRAM", "FASTMODE_PROG", "ERASE_55"} :
                             <<s, command>> \in Protocol
      OBVIOUS
    <2>1. ~locked /\ step \in {"PROGRAM", "FASTMODE_PROG", "ERASE_55"}
      BY FlashChange DEF Programming, WriteErase
    <2> QED BY <2>1 DEF CommandComplete
  <1> QED BY <1>1, CommandIsComplete, PTL DEF Spec, FlashChangesByCommand

FlashTyped == flash \in [Cells -> SUBSET Bits]

LEMMA FlashType == Spec => []FlashTyped
  <1>1. Init => FlashTyped
    BY DEF Init, FlashTyped
  <1>2. FlashTyped /\ [Next]_vars => FlashTyped'
    <2> USE DEF FlashTyped
    <2> SUFFICES ASSUME FlashTyped, [Next]_vars, flash' # flash
                 PROVE  FlashTyped'
      OBVIOUS
    <2>1. PICK a \in Addr, d \in Data : ProgramByte(a, d) \/ WriteErase(a, d)
      BY FlashChange
    <2>2. CASE ProgramByte(a, d)
      BY <2>2 DEF ProgramByte
    <2>3. CASE WriteErase(a, d)
      BY <2>3 DEF WriteErase, Erase
    <2> QED BY <2>1, <2>2, <2>3
  <1> QED BY <1>1, <1>2, PTL DEF Spec

\* Programming never sets a bit, and an erase sets whole bytes.
THEOREM BitsRise == Spec => BitsRiseByErase
  <1> DEFINE Step == \A c \in Cells :
                       flash'[c] \subseteq flash[c] \/
                         (flash'[c] = Bits /\ <<"ERASE_55", command>> \in Protocol)
  <1>1. CommandComplete /\ FlashTyped /\ [Next]_vars => [Step]_vars
    <2> SUFFICES ASSUME CommandComplete, FlashTyped, [Next]_vars, flash' # flash
                 PROVE  Step
      OBVIOUS
    <2>1. PICK a \in Addr, d \in Data : ProgramByte(a, d) \/ WriteErase(a, d)
      BY FlashChange
    <2>2. CASE ProgramByte(a, d)
      BY <2>2 DEF ProgramByte, FlashTyped
    <2>3. CASE WriteErase(a, d)
      <3>1. <<"ERASE_55", command>> \in Protocol
        BY <2>3 DEF WriteErase, CommandComplete
      <3> QED BY <2>3, <3>1 DEF WriteErase, Erase
    <2> QED BY <2>1, <2>2, <2>3
  <1> QED BY <1>1, CommandIsComplete, FlashType, PTL DEF Spec, BitsRiseByErase

(* The types, and what else the step leaves true *)

LEMMA ProgramTypes ==
  ASSUME TypeOK, NEW a \in Addr, NEW d \in Data, ProgramByte(a, d)
  PROVE  /\ flash' \in [Cells -> SUBSET Bits] /\ flashError' \in BOOLEAN
         /\ lastByte' \in SUBSET Bits /\ programmed' \subseteq Cells
  <1>1. Ones[d] \in SUBSET Bits
    BY DataAssumption
  <1>2. flash' \in [Cells -> SUBSET Bits]
    BY <1>1 DEF ProgramByte, TypeOK
  <1> QED BY <1>1, <1>2 DEF ProgramByte

LEMMA WriteTypes ==
  ASSUME TypeOK, NEW a \in Addr, NEW d \in Data, NEW ro, MemWrite(a, d, ro)
  PROVE  TypeOK'
  <1>0. locked' \in BOOLEAN /\ modelBits' \in 0..3
    BY DEF MemWrite, TypeOK
  <1>1. ASSUME WriteContinues(a, d)
        PROVE  TypeOK'
    <2>1. step' \in Steps
      BY <1>1 DEF WriteContinues, Continues, CommandTable, Row, Steps
    <2> QED BY <1>0, <1>1, <2>1 DEF WriteContinues, TypeOK
  <1>2. ASSUME WriteProgram(a, d)
        PROVE  TypeOK'
    <2>1. step' \in Steps
      BY <1>2 DEF WriteProgram, Steps
    <2> QED BY <1>0, <1>2, <2>1, ProgramTypes DEF WriteProgram, TypeOK
  <1>3. ASSUME WriteErase(a, d)
        PROVE  TypeOK'
    <2>1. flash' \in [Cells -> SUBSET Bits]
      BY <1>3 DEF WriteErase, Erase, TypeOK
    <2> QED BY <1>0, <1>3, <2>1 DEF WriteErase, TypeOK, Steps
  <1>4. ASSUME WriteExit(a, d) \/ WriteBackToFast(a, d) \/ WriteAborts(a, d)
        PROVE  TypeOK'
    BY <1>0, <1>4 DEF WriteExit, WriteBackToFast, WriteAborts, TypeOK, Steps
  <1> QED BY <1>1, <1>2, <1>3, <1>4 DEF MemWrite

\* Whatever is written, read, fetched, locked and restarted, the chip stays in one
\* of its steps, and a byte of flash stays a byte.
THEOREM TypesKept == Spec => []TypeOK
  <1>1. Init => TypeOK
    <2> SUFFICES ASSUME Init
                 PROVE  TypeOK
      OBVIOUS
    <2>1. flash \in [Cells -> SUBSET Bits]
      BY DEF Init
    <2>2. programmed \subseteq Cells /\ lastByte \in SUBSET Bits
      BY DEF Init
    <2>3. flashError \in BOOLEAN /\ locked \in BOOLEAN
      BY DEF Init
    <2>4. step \in Steps /\ modelBits \in 0..3
      BY DEF Init, Steps
    <2> QED BY <2>1, <2>2, <2>3, <2>4 DEF TypeOK
  <1>2. TypeOK /\ [Next]_vars => TypeOK'
    <2> SUFFICES ASSUME TypeOK, [Next]_vars
                 PROVE  TypeOK'
      OBVIOUS
    <2>1. ASSUME NEW a \in Targets, NEW d \in Data, NEW ro \in BOOLEAN,
                 MemWrite(a, d, ro)
          PROVE  TypeOK'
      BY <2>1, ChipAssumption, WriteTypes
    <2>2. ASSUME NEW id \in BOOLEAN, MemRead(id)
          PROVE  TypeOK'
      BY <2>2 DEF MemRead, TypeOK, Steps
    <2>3. CASE FetchFromFlash
      BY <2>3 DEF FetchFromFlash, TypeOK, Steps
    <2>4. ASSUME NEW unlock \in BOOLEAN, OutPort14(unlock)
          PROVE  TypeOK'
      BY <2>4 DEF OutPort14, TypeOK
    <2>5. ASSUME NEW byte \in 0..4, OutPort21(byte)
          PROVE  TypeOK'
      <3>1. modelBits' \in 0..3
        BY <2>5 DEF OutPort21
      <3> QED BY <2>5, <3>1 DEF OutPort21, TypeOK
    <2>6. CASE Restart
      BY <2>6 DEF Restart, TypeOK
    <2>7. CASE UNCHANGED vars
      BY <2>7 DEF vars, TypeOK
    <2> QED BY <2>1, <2>2, <2>3, <2>4, <2>5, <2>6, <2>7 DEF Next
  <1> QED BY <1>1, <1>2, PTL DEF Spec

\* A program that is told of an error has really asked for a bit that could not be set.
THEOREM ErrorsAreReal == Spec => []ErrorIsReal
  <1>1. Init => ErrorIsReal
    BY DEF Init, ErrorIsReal
  <1>2. TypeOK /\ ErrorIsReal /\ [Next]_vars => ErrorIsReal'
    <2> SUFFICES ASSUME TypeOK, ErrorIsReal, [Next]_vars, flashError'
                 PROVE  \A c \in programmed' : flash'[c] # lastByte'
      BY DEF ErrorIsReal
    <2>1. ASSUME UNCHANGED <<flash, flashError, lastByte, programmed>>
          PROVE  \A c \in programmed' : flash'[c] # lastByte'
      BY <2>1 DEF ErrorIsReal
    <2>2. ASSUME NEW a \in Targets, NEW d \in Data, ProgramByte(a, d)
          PROVE  \A c \in programmed' : flash'[c] # lastByte'
      <3>1. CASE a \in Cells
        <4>1. programmed' = {a} /\ lastByte' = Ones[d] /\ flash' = [flash EXCEPT ![a] = @ \cap Ones[d]]
          BY <2>2, <3>1 DEF ProgramByte
        <4>2. flash[a] \cap Ones[d] # Ones[d]
          BY <2>2, <3>1 DEF ProgramByte
        <4>3. flash'[a] = flash[a] \cap Ones[d]
          BY <3>1, <4>1 DEF TypeOK
        <4> QED BY <4>1, <4>2, <4>3
      <3>2. CASE a \notin Cells
        BY <2>2, <3>2 DEF ProgramByte
      <3> QED BY <3>1, <3>2
    <2>3. ASSUME NEW a \in Targets, NEW d \in Data, NEW ro \in BOOLEAN,
                 MemWrite(a, d, ro)
          PROVE  \A c \in programmed' : flash'[c] # lastByte'
      BY <2>1, <2>2, <2>3 DEF MemWrite, WriteExit, WriteContinues, WriteProgram,
                              WriteErase, WriteBackToFast, WriteAborts
    <2>4. ASSUME \/ \E id \in BOOLEAN : MemRead(id)
                 \/ FetchFromFlash
                 \/ \E unlock \in BOOLEAN : OutPort14(unlock)
                 \/ \E byte \in 0..4 : OutPort21(byte)
                 \/ Restart
                 \/ UNCHANGED vars
          PROVE  \A c \in programmed' : flash'[c] # lastByte'
      BY <2>1, <2>4 DEF MemRead, FetchFromFlash, OutPort14, OutPort21, Restart, vars
    <2> QED BY <2>3, <2>4 DEF Next
  <1> QED BY <1>1, <1>2, TypesKept, PTL DEF Spec

(* Which bytes a write reaches *)

\* While its model bits forbid it, a guarded page is out of reach of every program
\* command, wherever it is aimed.
THEOREM GuardedKept == Spec => GuardedPagesKept
  <1> DEFINE Kept ==
        \A c \in Cells :
          /\ \/ Page(c.half) \in Guarded /\ modelBits = 0
             \/ Page(c.half) \in GuardedLarge /\ modelBits = 1
          => flash'[c] = flash[c] \/ <<"ERASE_55", command>> \in Protocol
  <1>1. CommandComplete /\ FlashTyped /\ [Next]_vars => [Kept]_vars
    <2> SUFFICES ASSUME CommandComplete, FlashTyped, [Next]_vars,
                        NEW c \in Cells, flash'[c] # flash[c],
                        \/ Page(c.half) \in Guarded /\ modelBits = 0
                        \/ Page(c.half) \in GuardedLarge /\ modelBits = 1
                 PROVE  <<"ERASE_55", command>> \in Protocol
      OBVIOUS
    <2>1. PICK a \in Targets, d \in Data, ro \in BOOLEAN : MemWrite(a, d, ro)
      BY DEF Next, MemRead, FetchFromFlash, OutPort14, OutPort21, Restart, vars
    <2>2. WriteValid(Page(a.half)) /\ (ProgramByte(a, d) \/ WriteErase(a, d))
      BY <2>1 DEF MemWrite, WriteExit, WriteContinues, WriteProgram, WriteBackToFast,
                  WriteAborts
    <2>3. ASSUME ProgramByte(a, d)
          PROVE  FALSE
      <3>1. a = c
        BY <2>3 DEF ProgramByte, FlashTyped
      <3> QED BY <2>2, <3>1 DEF WriteValid
    <2>4. step = "ERASE_55"
      BY <2>2, <2>3 DEF WriteErase
    <2> QED BY <2>4 DEF CommandComplete
  <1> QED BY <1>1, CommandIsComplete, FlashType, PTL DEF Spec, GuardedPagesKept

LEMMA SectorMeant ==
  ASSUME NEW h \in 0..(Halves - 1), h % 8 = 0 \/ h >= Halves - 8,
         NEW k \in 0..(Halves - 1)
  PROVE  k \in SectorErased(h) <=> k \in SectorOf(h)
  <1>1. Halves \in Nat /\ Halves >= 8 /\ Halves % 8 = 0
    BY ChipAssumption DEF Halves
  <1> HIDE DEF Halves
  <1>2. CASE h < Halves - 8
    <2>1. h % 8 = 0
      BY <1>1, <1>2
    <2>2. PICK q \in Nat : h = 8 * q
      <3>1. h = 8 * (h \div 8) /\ h \div 8 \in Nat
        BY <2>1
      <3> QED BY <3>1
    <2>3. PICK n \in Nat : Halves = 8 * n
      <3>1. Halves = 8 * (Halves \div 8) /\ Halves \div 8 \in Nat
        BY <1>1
      <3> QED BY <3>1
    <2>4. h \div 8 = q /\ q + 2 <= n
      BY <1>2, <2>2, <2>3
    <2>5. k \in h..(h + 7) <=> k \div 8 = q
      BY <2>2
    <2>6. k \in h..(h + 7) => k \in 0..(Halves - 9)
      BY <2>2, <2>3, <2>4
    <2>7. k \in h..(h + 7) <=> k \in 0..(Halves - 9) /\ k \div 8 = h \div 8
      BY <2>4, <2>5, <2>6
    <2> QED BY <1>2, <2>7 DEF SectorErased, SectorOf
  <1>3. CASE h >= Halves - 8 /\ h < Halves - 4
    BY <1>1, <1>3 DEF SectorErased, SectorOf
  <1>4. CASE h >= Halves - 4 /\ h < Halves - 2
    BY <1>1, <1>4 DEF SectorErased, SectorOf
  <1>5. CASE h >= Halves - 2
    BY <1>1, <1>5 DEF SectorErased, SectorOf
  <1> QED BY <1>1, <1>2, <1>3, <1>4, <1>5

\* An erase that starts where a sector does clears that sector and nothing else, for
\* every chip of whole 64 KB.
THEOREM EraseHits == Spec => EraseHitsItsSector
  <1> DEFINE Hit ==
        \A a \in Targets :
          /\ a.half % 8 = 0 \/ a.half >= Halves - 8
          /\ step = "ERASE_55" /\ MemWrite(a, "30", FALSE)
          => \A c \in Cells :
               flash'[c] = IF c.half \in SectorOf(a.half) THEN Bits ELSE flash[c]
  <1>1. [Next]_vars => [Hit]_vars
    <2> SUFFICES ASSUME NEW a \in Targets, NEW c \in Cells, step = "ERASE_55",
                        MemWrite(a, "30", FALSE),
                        a.half % 8 = 0 \/ a.half >= Halves - 8
                 PROVE  flash'[c] = IF c.half \in SectorOf(a.half) THEN Bits ELSE flash[c]
      OBVIOUS
    <2>1. WriteErase(a, "30")
      BY DEF MemWrite, WriteExit, WriteContinues, WriteProgram, WriteBackToFast,
             WriteAborts, Continues, CommandTable, Row, Programming
    <2>2. flash'[c] = IF c.half \in SectorErased(a.half) THEN Bits ELSE flash[c]
      BY <2>1 DEF WriteErase, Erase
    <2>3. a.half \in 0..(Halves - 1) /\ c.half \in 0..(Halves - 1)
      BY ChipAssumption DEF Addr
    <2> QED BY <2>2, <2>3, SectorMeant
  <1> QED BY <1>1, PTL DEF Spec, EraseHitsItsSector
=============================================================================
