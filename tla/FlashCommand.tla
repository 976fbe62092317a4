---------------------------- MODULE FlashCommand ----------------------------
(***************************************************************************)
(* The flash chip of core/core.c: the command state machine that turns     *)
(* writes of the program into programming and erasing (flash_write), what  *)
(* reads return meanwhile (flash_read), what an opcode fetch from flash    *)
(* does to a command (CPU_opcode_fetch), and the part of the chip that     *)
(* SaveMEM and LoadMEM carry over a restart.                               *)
(*                                                                         *)
(* The 16 KB pages are counted in halves of 8 KB, as the code's spage      *)
(* does.  An address is its half page and the class of its low 12 bits:    *)
(* the two the commands are recognised by, or any other.  A byte of flash  *)
(* or of data is the set of its bits that are 1.  Cells are the bytes that *)
(* are tracked.  The lock and the paging are BankSwitch's; here the lock   *)
(* opens and closes at any moment.                                         *)
(***************************************************************************)
EXTENDS Integers

CONSTANTS FlashPages,    \* memc.flash_pages
          FlashVersion,  \* memc.flash_version
          Guarded,       \* pages 2F and 3F, writable if a model bit is set
          GuardedLarge,  \* pages 6F and 7F, writable unless the bits are 1
          Cells,         \* the tracked bytes: [half, low]
          Targets,       \* the addresses the program writes to
          Data,          \* the names of the bytes that are written
          Ones           \* their bits: a function from Data

Lows == {"AAA", "555", "other"}
Halves == 2 * FlashPages
Addr == [half : 0..(Halves - 1), low : Lows]
Bits == 0..7

ASSUME ChipAssumption ==
  /\ FlashPages \in Nat /\ FlashPages >= 4 /\ FlashPages % 4 = 0
  /\ FlashVersion \in Nat
  /\ Cells \subseteq Addr /\ Targets \subseteq Addr
ASSUME DataAssumption == Ones \in [Data -> SUBSET Bits]

Steps == {"READ", "AA", "55", "PROGRAM", "ERASE", "ERASE_AA", "ERASE_55",
          "FASTMODE", "FASTMODE_PROG", "FASTMODE_EXIT", "AUTOSELECT"}

VARIABLES
  flash,       \* memc.flash, the tracked bytes
  step,        \* memc.step
  flashError,  \* memc.flash_error
  lastByte,    \* memc.flash_write_byte, as a set of bits
  locked,      \* memc.flash_locked
  modelBits,   \* cpu->model_bits
  command,     \* history: the writes of the command so far, <<before, low, data>>
  programmed   \* history: the cell programmed last, if it is tracked

vars == <<flash, step, flashError, lastByte, locked, modelBits, command,
          programmed>>

Init == /\ flash = [c \in Cells |-> Bits]
        /\ step = "READ"
        /\ flashError = FALSE
        /\ lastByte = {}
        /\ locked = TRUE
        /\ modelBits = 0
        /\ command = <<>>
        /\ programmed = {}

-----------------------------------------------------------------------------
(* core.c: check_flash_write_valid, flash_write *)

Page(half) == half \div 2

\* Faulty: the second guard is forgotten.
WriteValidSmall(page) == /\ ~locked
                         /\ page \in Guarded => modelBits # 0

\* Faulty: the lock is not looked at.
WriteValidUnlocked(page) == /\ page \in Guarded => modelBits # 0
                            /\ page \in GuardedLarge => modelBits # 1

WriteValid(page) == /\ ~locked
                    /\ page \in Guarded => modelBits # 0
                    /\ page \in GuardedLarge => modelBits # 1

\* Faulty: four half pages instead of four pages.
SectorErasedShort(h) ==
  IF h < Halves - 8 THEN h..(h + 3)
  ELSE IF h < Halves - 4 THEN (Halves - 8)..(Halves - 5)
  ELSE IF h < Halves - 3 THEN {Halves - 4}
  ELSE IF h < Halves - 2 THEN {Halves - 3}
  ELSE {Halves - 2, Halves - 1}

\* The half pages a sector erase at half page h sets to FF.
SectorErased(h) ==
  IF h < Halves - 8 THEN h..(h + 7)
  ELSE IF h < Halves - 4 THEN (Halves - 8)..(Halves - 5)
  ELSE IF h < Halves - 3 THEN {Halves - 4}
  ELSE IF h < Halves - 2 THEN {Halves - 3}
  ELSE {Halves - 2, Halves - 1}

Erase(set) ==
  flash' = [c \in Cells |-> IF c.half \in set THEN Bits ELSE flash[c]]

\* Faulty: the byte is stored as it is.
ProgramByteStores(a, d) ==
  /\ lastByte' = Ones[d]
  /\ \/ /\ a \in Cells
        /\ flash' = [flash EXCEPT ![a] = Ones[d]]
        /\ flashError' = FALSE
        /\ programmed' = {a}
     \/ /\ a \notin Cells
        /\ flash' = flash
        /\ flashError' \in BOOLEAN
        /\ programmed' = {}

\* Faulty: the error is computed from the byte before it is programmed.
ProgramByteEarly(a, d) ==
  /\ lastByte' = Ones[d]
  /\ \/ /\ a \in Cells
        /\ flash' = [flash EXCEPT ![a] = @ \cap Ones[d]]
        /\ flashError' = (flash[a] # Ones[d])
        /\ programmed' = {a}
     \/ /\ a \notin Cells
        /\ flash' = flash
        /\ flashError' \in BOOLEAN
        /\ programmed' = {}

\* flash_write_byte: programming can only clear bits; an untracked byte may or
\* may not take the value.
ProgramByte(a, d) ==
  /\ lastByte' = Ones[d]
  /\ \/ /\ a \in Cells
        /\ flash' = [flash EXCEPT ![a] = @ \cap Ones[d]]
        /\ flashError' = (flash[a] \cap Ones[d] # Ones[d])
        /\ programmed' = {a}
     \/ /\ a \notin Cells
        /\ flash' = flash
        /\ flashError' \in BOOLEAN
        /\ programmed' = {}

\* The writes that continue a command: in step from, data at an address of
\* class low leads to step to.
Row(from, low, data, to) == [from |-> from, low |-> low, data |-> data, to |-> to]
\* Faulty: the erase command goes without the second AA.
CommandTableShort ==
  { Row("READ", "AAA", "AA", "AA"),        Row("AA", "555", "55", "55"),
    Row("55", "AAA", "A0", "PROGRAM"),     Row("55", "AAA", "80", "ERASE"),
    Row("55", "AAA", "90", "AUTOSELECT"),
    Row("ERASE", "555", "55", "ERASE_55") }

CommandTable ==
  { Row("READ", "AAA", "AA", "AA"),        Row("AA", "555", "55", "55"),
    Row("55", "AAA", "A0", "PROGRAM"),     Row("55", "AAA", "80", "ERASE"),
    Row("55", "AAA", "90", "AUTOSELECT"),
    Row("ERASE", "AAA", "AA", "ERASE_AA"),
    Row("ERASE_AA", "555", "55", "ERASE_55") }
  \cup { Row("55", "AAA", "20", "FASTMODE") : v \in {FlashVersion} \ {1} }
  \cup { Row("FASTMODE", low, "90", "FASTMODE_EXIT") : low \in Lows }
  \cup { Row("FASTMODE", low, "A0", "FASTMODE_PROG") : low \in Lows }

Continues(a, d) ==
  { r \in CommandTable : r.from = step /\ r.low = a.low /\ r.data = d }

Programming == step \in {"PROGRAM", "FASTMODE_PROG"}

\* F0 ends any command that does not take it for the byte to program.
WriteExit(a, d) ==
  /\ d = "F0" /\ ~Programming
  /\ step' = "READ" /\ command' = <<>>
  /\ UNCHANGED <<flash, flashError, lastByte, programmed>>

WriteContinues(a, d) ==
  /\ d # "F0"
  /\ \E r \in Continues(a, d) : step' = r.to
  /\ command' = <<command, a.low, d>>
  /\ flashError' = FALSE
  /\ UNCHANGED <<flash, lastByte, programmed>>

WriteProgram(a, d) ==
  /\ Programming
  /\ ProgramByte(a, d)
  /\ step' = IF step = "PROGRAM" THEN "READ" ELSE "FASTMODE"
  /\ command' = IF step = "PROGRAM" THEN <<>> ELSE command[1]

WriteErase(a, d) ==
  /\ step = "ERASE_55"
  /\ \/ d = "10" /\ a.low = "AAA" /\ Erase(0..(Halves - 1))
     \/ d = "30" /\ Erase(SectorErased(a.half))
  /\ step' = "READ" /\ command' = <<>>
  /\ flashError' = FALSE
  /\ UNCHANGED <<lastByte, programmed>>

\* Anything but F0 after 90 in fast mode stays in fast mode.
WriteBackToFast(a, d) ==
  /\ step = "FASTMODE_EXIT" /\ d # "F0"
  /\ step' = "FASTMODE" /\ command' = command[1]
  /\ flashError' = FALSE
  /\ UNCHANGED <<flash, lastByte, programmed>>

\* Every other write aborts the command (endflash_break).
WriteAborts(a, d) ==
  /\ d # "F0" /\ ~Programming /\ step # "FASTMODE_EXIT"
  /\ Continues(a, d) = {}
  /\ ~(step = "ERASE_55" /\ (d = "30" \/ (d = "10" /\ a.low = "AAA")))
  /\ step' = "READ" /\ command' = <<>>
  /\ flashError' = FALSE
  /\ UNCHANGED <<flash, lastByte, programmed>>

\* CPU_mem_write to a flash bank.  readOnly is the flag of its bank_state_t:
\* change_page sets it for the boot page, and CPU_reset and the boot mapping
\* leave it FALSE for the same page.  Nothing on this path looks at it.
MemWrite(a, d, readOnly) ==
  /\ readOnly => Page(a.half) = FlashPages - 1
  /\ WriteValid(Page(a.half))
  /\ \/ WriteExit(a, d) \/ WriteContinues(a, d) \/ WriteProgram(a, d)
     \/ WriteErase(a, d) \/ WriteBackToFast(a, d) \/ WriteAborts(a, d)
  /\ UNCHANGED <<locked, modelBits>>

-----------------------------------------------------------------------------
(* core.c: reads and fetches; ports; save and restore *)

\* flash_read: a failed program is reported once and leaves the command alone;
\* identifier reads keep AUTOSELECT; any other read during a command ends it.
MemRead(identifier) ==
  /\ flashError' = FALSE
  /\ IF flashError \/ step \in {"READ", "FASTMODE"}
          \/ (step = "AUTOSELECT" /\ identifier)
       THEN UNCHANGED <<step, command>>
       ELSE step' = "READ" /\ command' = <<>>
  /\ UNCHANGED <<flash, lastByte, locked, modelBits, programmed>>

\* CPU_opcode_fetch from a flash page.  Code in RAM leaves a command alone.
FetchFromFlash ==
  /\ step # "READ"
  /\ step' = "READ" /\ command' = <<>>
  /\ UNCHANGED <<flash, flashError, lastByte, locked, modelBits, programmed>>

\* Port 14, from a privileged page.
OutPort14(unlock) ==
  /\ locked' = ~unlock
  /\ UNCHANGED <<flash, step, flashError, lastByte, modelBits, command,
                 programmed>>

\* Faulty: the upper bits of the byte are kept.
OutPort21Unmasked(byte) ==
  /\ ~locked
  /\ modelBits' = byte
  /\ UNCHANGED <<flash, step, flashError, lastByte, locked, command, programmed>>

\* Port 21 is a protected port: device_output skips it while flash is locked.
OutPort21(byte) ==
  /\ ~locked
  /\ modelBits' = byte % 4
  /\ UNCHANGED <<flash, step, flashError, lastByte, locked, command, programmed>>

\* SaveMEM and LoadMEM: the step is in the file, the error and the byte are not.
Restart ==
  /\ flashError' = FALSE
  /\ lastByte' = {}
  /\ UNCHANGED <<flash, step, locked, modelBits, command, programmed>>

Next ==
  \/ \E a \in Targets, d \in Data, ro \in BOOLEAN : MemWrite(a, d, ro)
  \/ \E id \in BOOLEAN : MemRead(id)
  \/ FetchFromFlash
  \/ \E unlock \in BOOLEAN : OutPort14(unlock)
  \/ \E byte \in 0..4 : OutPort21(byte)
  \/ Restart

Spec == Init /\ [][Next]_vars

-----------------------------------------------------------------------------
(* correctness *)

TypeOK == /\ flash \in [Cells -> SUBSET Bits]
          /\ step \in Steps
          /\ flashError \in BOOLEAN
          /\ lastByte \in SUBSET Bits
          /\ locked \in BOOLEAN
          /\ modelBits \in 0..3
          /\ programmed \subseteq Cells

\* The commands: the writes that must have come, in this order and with no fetch
\* from flash, read or wrong write between them, for the machine to be in a step.
First == <<<<>>, "AAA", "AA">>
Unlock == <<First, "555", "55">>
EraseCommand == <<Unlock, "AAA", "80">>
EraseFirst == <<EraseCommand, "AAA", "AA">>
FastCommand == <<Unlock, "AAA", "20">>

Protocol ==
  { <<"READ", <<>>>>, <<"AA", First>>, <<"55", Unlock>>,
    <<"PROGRAM", <<Unlock, "AAA", "A0">>>>,
    <<"AUTOSELECT", <<Unlock, "AAA", "90">>>>,
    <<"ERASE", EraseCommand>>, <<"ERASE_AA", EraseFirst>>,
    <<"ERASE_55", <<EraseFirst, "555", "55">>>>,
    <<"FASTMODE", FastCommand>> }
  \cup { <<"FASTMODE_PROG", <<FastCommand, low, "A0">>>> : low \in Lows }
  \cup { <<"FASTMODE_EXIT", <<FastCommand, low, "90">>>> : low \in Lows }

\* The step is never ahead of the command that was really written.
CommandComplete == <<step, command>> \in Protocol

\* flash_error is up only while the byte programmed last is not the byte that
\* was asked for, so the program is not told of a failure that did not happen.
ErrorIsReal ==
  flashError => \A c \in programmed : flash[c] # lastByte

\* A byte of flash changes only while unlocked and at the end of a complete
\* program, fast program or erase command.
FlashChangesByCommand ==
  [][flash' # flash =>
       /\ ~locked
       /\ \E s \in {"PROGRAM", "FASTMODE_PROG", "ERASE_55"} :
            <<s, command>> \in Protocol]_vars

\* A bit goes from 0 to 1 only by an erase, and then its whole byte does.
BitsRiseByErase ==
  [][\A c \in Cells : flash'[c] \subseteq flash[c] \/
       (flash'[c] = Bits /\ <<"ERASE_55", command>> \in Protocol)]_vars

\* The erase sector a half page belongs to: 64 KB, except at the top of the
\* chip, where the last four pages are 32, 8, 8 and 16 KB.
SectorOf(h) ==
  IF h < Halves - 8 THEN {k \in 0..(Halves - 9) : k \div 8 = h \div 8}
  ELSE IF h < Halves - 4 THEN (Halves - 8)..(Halves - 5)
  ELSE IF h < Halves - 2 THEN {h}
  ELSE {Halves - 2, Halves - 1}

\* A sector erase at the start of a sector erases that sector and no other byte.
EraseHitsItsSector ==
  [][\A a \in Targets :
       /\ a.half % 8 = 0 \/ a.half >= Halves - 8
       /\ step = "ERASE_55" /\ MemWrite(a, "30", FALSE)
       => \A c \in Cells :
            flash'[c] = IF c.half \in SectorOf(a.half) THEN Bits ELSE flash[c]]_vars

\* Pages guarded by model bits keep their contents while the bits forbid it,
\* unless a sector erase that starts below them or a chip erase covers them.
GuardedPagesKept ==
  [][\A c \in Cells :
       /\ \/ Page(c.half) \in Guarded /\ modelBits = 0
          \/ Page(c.half) \in GuardedLarge /\ modelBits = 1
       => flash'[c] = flash[c] \/ <<"ERASE_55", command>> \in Protocol]_vars

\* core.h says of bank_state_t.read_only: "You can not write to this page(not
\* even if the flash is unlocked)".
ReadOnlyNeverWritten ==
  [][\A a \in Targets, d \in Data :
       MemWrite(a, d, TRUE) =>
         \A c \in Cells : Page(c.half) = Page(a.half) => flash'[c] = flash[c]]_vars
=============================================================================
