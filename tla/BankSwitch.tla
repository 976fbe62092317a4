----------------------------- MODULE BankSwitch -----------------------------
(***************************************************************************)
(* The memory mapper of the flash calculators: the bank tables of          *)
(* core/core.c and the paging ports of hardware/83psehw.c (83+SE, 84+,     *)
(* 84+SE, 84+C SE) and hardware/83phw.c (73, 83+).                         *)
(*                                                                         *)
(* The emulator keeps two tables of four banks and a pointer to the one in *)
(* use.  bootmap_banks is a copy that must be refreshed whenever           *)
(* normal_banks changes; the SE ports keep latches from which a page is    *)
(* computed again when half of it is written.  The interesting question is *)
(* whether tables, pointer, latches and flags stay consistent over port    *)
(* writes, resets and a restart of the session from its saved state.       *)
(*                                                                         *)
(* A byte written to a paging port is a record: ram is its RAM/flash bit,  *)
(* low its page bits.  The address of a bank (bank_state_t.addr) is a      *)
(* function of ram and page and is left out, as is no_exec, always FALSE.  *)
(***************************************************************************)
EXTENDS Integers

CONSTANTS FlashPages,     \* memc.flash_pages
          RamPages,       \* memc.ram_pages
          LowPages,       \* pages the page bits of ports 6 and 7 can name
          FlashVersion,   \* memc.flash_version
          SE,             \* TRUE: 83psehw.c (latched ports), FALSE: 83phw.c
          Is84,           \* cpu->pio.model >= TI_84P
          PortBytes,      \* the bytes the program writes to ports 5, 6 and 7
          Extensions      \* the values it writes to ports 0E and 0F

ASSUME FlashPagesAssumption ==
         FlashPages \in Nat \ {0} /\ FlashPages % 2 = 0
ASSUME RamPagesAssumption == RamPages \in Nat \ {0, 1} /\ RamPages % 2 = 0
ASSUME LowPagesAssumption == LowPages \in Nat \ {0}
\* 32 pages and 5 bits; 64, 128 or 256 pages and 7 bits.
ASSUME PagingAssumption == FlashPages % LowPages = 0 \/ LowPages % FlashPages = 0
ASSUME ModelAssumption ==
         FlashVersion \in Nat /\ SE \in BOOLEAN /\ Is84 \in BOOLEAN
ASSUME PortBytesAssumption ==
         /\ PortBytes \subseteq [ram : BOOLEAN, low : 0..(LowPages - 1)]
         /\ Extensions \subseteq 0..3

Banks == 0..3
BootPage == FlashPages - 1

\* The entries that name a page the calculator has.
Bank == [ram : {FALSE}, page : 0..(FlashPages - 1), readOnly : BOOLEAN]
          \cup [ram : {TRUE}, page : 0..(RamPages - 1), readOnly : {FALSE}]

VARIABLES
  normal,           \* normal_banks
  bootmap,          \* bootmap_banks
  bootMapped,       \* boot_mapped
  banksPtr,         \* which table memc.banks points to
  port06, port07,   \* the latches of the SE ports
  port0E, port0F,   \* ... and of their extension ports
  hasChangedPage0,
  flashLocked,      \* flash_locked
  pcBank,           \* mc_bank(cpu->pc)
  fetched,          \* an instruction is fetched and not executed yet
  ranOS,            \* history: code ran from the bank of port 6 since reset
  fresh             \* history: banks set from their latch since reset or load

mem == <<normal, bootmap, bootMapped, banksPtr>>
latches == <<port06, port07, port0E, port0F>>
vars == <<normal, bootmap, bootMapped, banksPtr, port06, port07, port0E,
          port0F, hasChangedPage0, flashLocked, pcBank, fetched, ranOS, fresh>>

\* memc.banks: the table in use.
active == IF banksPtr = "boot" THEN bootmap ELSE normal

-----------------------------------------------------------------------------
(* core.c: the bank tables *)

Flash(p, ro) == [ram |-> FALSE, page |-> p, readOnly |-> ro]
Ram(p) == [ram |-> TRUE, page |-> p, readOnly |-> FALSE]

\* change_page stores one entry of normal_banks ...
Entry(ram, page) == IF ram THEN Ram(page) ELSE Flash(page, page = BootPage)

Evened(p) == p - (p % 2)                               \* page & 0xFE
OrVersion(p) == IF FlashVersion = 0 THEN Evened(p) + 1 ELSE p

\* update_bootmap_pages: the shifted copy the boot mapping shows.
EvenHalf(k) == [ram |-> k.ram, page |-> Evened(k.page), readOnly |-> FALSE]
OddHalf(k) == [ram |-> k.ram, page |-> OrVersion(k.page), readOnly |-> FALSE]
Shifted(k) == [ram |-> k.ram, page |-> k.page, readOnly |-> FALSE]

BootTable(n) == [b \in Banks |-> IF b = 0 THEN n[0]
                                 ELSE IF b = 1 THEN EvenHalf(n[1])
                                 ELSE IF b = 2 THEN OddHalf(n[1])
                                 ELSE Shifted(n[2])]

\* Faulty: the copy is forgotten.
ChangePageNoRefresh(b, ram, page) ==
  /\ normal' = [normal EXCEPT ![b] = Entry(ram, page)]
  /\ UNCHANGED <<bootmap, bootMapped, banksPtr>>

\* ... and refreshes the copy.
ChangePage(b, ram, page) ==
  /\ normal' = [normal EXCEPT ![b] = Entry(ram, page)]
  /\ bootmap' = BootTable(normal')
  /\ UNCHANGED <<bootMapped, banksPtr>>

\* The tables memory_init_83p, _83pse, _84p and _84pcse build.
InitialTable ==
  [b \in Banks |-> IF b = 0 THEN Flash(IF SE THEN BootPage ELSE 0, FALSE)
                   ELSE IF b = 3 THEN Ram(0)
                   ELSE Flash(IF SE THEN 0 ELSE BootPage, FALSE)]

\* The table CPU_reset builds for every model of these two families.
ResetTable == [b \in Banks |-> IF b = 0 THEN Flash(BootPage, FALSE)
                               ELSE IF b = 3 THEN Ram(0)
                               ELSE Flash(0, FALSE)]

\* is_priveleged_page, for an entry of the table in use.
Privileged(k) == /\ ~k.ram
                 /\ \/ k.page >= FlashPages - 4 /\ k.page # FlashPages - 2
                    \/ Is84 /\ k.page = FlashPages - 17

-----------------------------------------------------------------------------
(* the paging ports *)

\* Faulty: a RAM page number is not masked.
DecodedPageUnmasked(latch, ext) ==
  IF latch.ram THEN latch.low ELSE (latch.low + LowPages * ext) % FlashPages

\* update_bank_1 and update_bank_2; with ext = 0 also ports 6 and 7 of the 83+.
DecodedPage(latch, ext) ==
  IF latch.ram THEN latch.low % RamPages
               ELSE (latch.low + LowPages * ext) % FlashPages
Decoded(latch, ext) == Entry(latch.ram, DecodedPage(latch, ext))

NoByte == [ram |-> FALSE, low |-> 0]

Init ==
  /\ normal = InitialTable
  /\ bootmap = BootTable(InitialTable)
  /\ bootMapped = FALSE
  /\ banksPtr = "normal"
  /\ port06 = NoByte /\ port07 = NoByte
  /\ port0E = 0 /\ port0F = 0
  /\ hasChangedPage0 = FALSE
  /\ flashLocked = TRUE
  /\ pcBank = 0
  /\ fetched = FALSE
  /\ ranOS = FALSE
  /\ fresh = {}

\* CPU_opcode_fetch for an instruction whose first byte lies in bank b and
\* whose last byte leaves the program counter in bank next.
Fetch(b, next) ==
  LET leaves == /\ ~hasChangedPage0
                /\ ~active[b].ram
                /\ (b = 1 \/ (bootMapped /\ b = 2))
  IN /\ next \in {b, (b + 1) % 4}
     /\ IF leaves THEN ChangePage(0, FALSE, 0) ELSE UNCHANGED mem
     /\ hasChangedPage0' = (hasChangedPage0 \/ leaves)
     /\ pcBank' = next
     /\ fetched' = TRUE
     /\ ranOS' = (ranOS \/ (b = 1 /\ ~active[b].ram))
     /\ UNCHANGED <<latches, flashLocked, fresh>>

\* The OUT instruction that was fetched reaches its port through device_output.
Out == fetched /\ fetched' = FALSE

OutPort6(v) ==
  /\ Out
  /\ ChangePage(1, v.ram, DecodedPage(v, IF SE THEN port0E ELSE 0))
  /\ port06' = IF SE THEN v ELSE port06
  /\ fresh' = fresh \cup {1}
  /\ UNCHANGED <<port07, port0E, port0F, hasChangedPage0, flashLocked, pcBank, ranOS>>

OutPort7(v) ==
  /\ Out
  /\ ChangePage(2, v.ram, DecodedPage(v, IF SE THEN port0F ELSE 0))
  /\ port07' = IF SE THEN v ELSE port07
  /\ fresh' = fresh \cup {2}
  /\ UNCHANGED <<port06, port0E, port0F, hasChangedPage0, flashLocked, pcBank, ranOS>>

\* Faulty: the extension is stored and bank 1 is not computed again.
OutPort0ELate(e) ==
  /\ SE /\ Out
  /\ port0E' = e
  /\ UNCHANGED mem
  /\ fresh' = fresh \cup {1}
  /\ UNCHANGED <<port06, port07, port0F, hasChangedPage0, flashLocked, pcBank, ranOS>>

OutPort0E(e) ==
  /\ SE /\ Out
  /\ port0E' = e
  /\ ChangePage(1, port06.ram, DecodedPage(port06, e))
  /\ fresh' = fresh \cup {1}
  /\ UNCHANGED <<port06, port07, port0F, hasChangedPage0, flashLocked, pcBank, ranOS>>

OutPort0F(e) ==
  /\ SE /\ Out
  /\ port0F' = e
  /\ ChangePage(2, port07.ram, DecodedPage(port07, e))
  /\ fresh' = fresh \cup {2}
  /\ UNCHANGED <<port06, port07, port0E, hasChangedPage0, flashLocked, pcBank, ranOS>>

OutPort5(low) ==
  /\ SE /\ Out
  /\ ChangePage(3, TRUE, low % RamPages)
  /\ UNCHANGED <<latches, hasChangedPage0, flashLocked, pcBank, ranOS, fresh>>

\* Faulty: the copy is shown as it was left.
OutPort4Stale(on) ==
  /\ Out
  /\ bootMapped' = on
  /\ banksPtr' = IF on THEN "boot" ELSE "normal"
  /\ UNCHANGED <<normal, bootmap, latches, hasChangedPage0, flashLocked, pcBank, ranOS, fresh>>

\* Bit 0 of port 4 switches the boot mapping.
OutPort4(on) ==
  /\ Out
  /\ bootMapped' = on
  /\ banksPtr' = IF on THEN "boot" ELSE "normal"
  /\ bootmap' = IF on THEN BootTable(normal) ELSE bootmap
  /\ UNCHANGED <<normal, latches, hasChangedPage0, flashLocked, pcBank, ranOS, fresh>>

\* is_priveleged_page looks at the program counter after the fetch.
OutPort14(unlock) ==
  /\ Out
  /\ flashLocked' = IF Privileged(active[pcBank]) THEN ~unlock ELSE flashLocked
  /\ UNCHANGED <<mem, latches, hasChangedPage0, pcBank, ranOS,
                 fresh>>

\* What a program reads back from ports 6 and 7, from the table in use.
InPort(b) == [ram |-> active[b].ram, low |-> active[b].page % LowPages]

\* Faulty: the flag survives although bank 0 shows the boot page again.
ResetKeepsFlag ==
  /\ normal' = ResetTable
  /\ bootMapped' = FALSE
  /\ banksPtr' = "normal"
  /\ pcBank' = 0
  /\ fetched' = FALSE
  /\ ranOS' = FALSE
  /\ fresh' = {}
  /\ UNCHANGED <<bootmap, latches, hasChangedPage0, flashLocked>>

\* CPU_reset (the reset button, a loaded ROM, Power On).
Reset ==
  /\ normal' = ResetTable
  /\ bootMapped' = FALSE
  /\ banksPtr' = "normal"
  /\ hasChangedPage0' = FALSE
  /\ pcBank' = 0
  /\ fetched' = FALSE
  /\ ranOS' = FALSE
  /\ fresh' = {}
  /\ UNCHANGED <<bootmap, latches, flashLocked>>

\* SaveMEM, then LoadMEM into the memory a new process has initialised: the
\* latches and hasChangedPage0 are not in the file, and bootmap_banks is
\* computed only when the boot mapping was on.
Restart ==
  /\ bootmap' = BootTable(IF bootMapped THEN normal ELSE InitialTable)
  /\ banksPtr' = IF bootMapped THEN "boot" ELSE "normal"
  /\ port06' = NoByte /\ port07' = NoByte
  /\ port0E' = 0 /\ port0F' = 0
  /\ hasChangedPage0' = FALSE
  /\ fetched' = FALSE
  /\ fresh' = {}
  /\ UNCHANGED <<normal, bootMapped, flashLocked, pcBank, ranOS>>

Next ==
  \/ \E b \in Banks, next \in Banks : Fetch(b, next)
  \/ \E v \in PortBytes : OutPort6(v) \/ OutPort7(v)
  \/ \E e \in Extensions : OutPort0E(e) \/ OutPort0F(e)
  \/ \E v \in PortBytes : OutPort5(v.low)
  \/ \E x \in BOOLEAN : OutPort4(x) \/ OutPort14(x)
  \/ Reset
  \/ Restart

Spec == Init /\ [][Next]_vars

-----------------------------------------------------------------------------
(* correctness *)

Latch == [ram : BOOLEAN, low : 0..(LowPages - 1)]

\* Every entry of both tables names a page the calculator has (a page number
\* past the end would make bank_state_t.addr point outside flash or ram), and
\* every other variable has its type.
TablesOK ==
  /\ normal \in [Banks -> Bank]
  /\ bootmap \in [Banks -> Bank]
  /\ bootMapped \in BOOLEAN
  /\ banksPtr \in {"normal", "boot"}

TypeOK ==
  /\ TablesOK
  /\ port06 \in Latch /\ port07 \in Latch
  /\ port0E \in 0..3 /\ port0F \in 0..3
  /\ hasChangedPage0 \in BOOLEAN
  /\ flashLocked \in BOOLEAN
  /\ pcBank \in Banks
  /\ fetched \in BOOLEAN
  /\ ranOS \in BOOLEAN
  /\ fresh \subseteq {1, 2}

\* The pointer and the flag agree, and while the boot mapping is shown the copy
\* is the one the normal table implies, whichever port was written last.
BootMapCurrent ==
  /\ (banksPtr = "boot") = bootMapped
  /\ bootMapped => bootmap = BootTable(normal)

\* Once code has run from the flash page of port 6, bank 0 no longer shows the
\* boot page, also after the flag hasChangedPage0 was lost in a restart.
BootPageGone == ranOS \/ hasChangedPage0 => normal[0] = Flash(0, FALSE)

\* The inductive invariant the proofs use.
IInv == TypeOK /\ BootMapCurrent /\ BootPageGone

\* A bank set through its latch since the last reset or load shows the page
\* both its latches name, in whichever order the two were written, and the
\* program reads it back.
LatchesDescribeBanks ==
  SE => /\ 1 \in fresh => normal[1] = Decoded(port06, port0E)
        /\ 2 \in fresh => normal[2] = Decoded(port07, port0F)
        /\ 1 \in fresh /\ ~bootMapped /\ ~port06.ram =>
             InPort(1).low = port06.low % (IF FlashPages < LowPages
                                             THEN FlashPages ELSE LowPages)

\* The emulator's tables implement the abstract mapper: at every step one
\* selection or the boot switch changes, and the table in use is the view.
PageIds == [ram : {FALSE}, page : 0..(FlashPages - 1)]
             \cup [ram : {TRUE}, page : 0..(RamPages - 1)]
PageId(k) == [ram |-> k.ram, page |-> k.page]
Selected == [b \in Banks |-> PageId(normal[b])]
Seen == [b \in Banks |-> PageId(active[b])]

Map == INSTANCE PageMap WITH
         Pages <- PageIds,
         BootPage <- [ram |-> FALSE, page |-> BootPage],
         FirstPage <- [ram |-> FALSE, page |-> 0],
         OddSecond <- (FlashVersion = 0),
         selected <- Selected,
         bootView <- bootMapped,
         view <- Seen
ImplementsPageMap == Map!MapSpec
=============================================================================
