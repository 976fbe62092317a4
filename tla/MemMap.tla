------------------------------- MODULE MemMap -------------------------------
(***************************************************************************)
(* Where an address of the processor leads to (core.c): the banks, the     *)
(* chunks that ports 27 and 28 take from RAM pages 0 and 1, the RAM pages  *)
(* an 84+ has lost, and the limits of ports 21 to 26 on execution.         *)
(*                                                                         *)
(* m stands for memory_context_t: banks (of the table in use, from 0 to    *)
(* 3), boot_mapped, ram_version, port27 and port28 (the counts of chunks), *)
(* the four limits, prot_mode, protected_page (of the 83+) and bytes, the  *)
(* contents by place.  The code finds the place three times, in mem_read,  *)
(* mem_write and is_allowed_exec; so does this module.                     *)
(***************************************************************************)
EXTENDS Integers

PAGE_SIZE == 16384
mc_bank(addr) == addr \div PAGE_SIZE
mc_base(addr) == addr % PAGE_SIZE

Ram(page, base) == [ram |-> TRUE, page |-> page, base |-> base]
InBank(m, addr) ==
  [ram |-> m.banks[mc_bank(addr)].ram, page |-> m.banks[mc_bank(addr)].page, base |-> mc_base(addr)]

(***************************************************************************)
(* mem_read and mem_write.                                                 *)
(***************************************************************************)
ReadPlace(m, addr) ==
  LET bank == m.banks[mc_bank(addr)]
  IN CASE m.port27 > 0 /\ ~m.boot_mapped /\ mc_bank(addr) = 3
            /\ addr >= 65536 - 64 * m.port27 /\ addr >= 64356 -> Ram(0, mc_base(addr))
       [] m.port28 > 0 /\ ~m.boot_mapped /\ mc_bank(addr) = 2
            /\ mc_base(addr) < 64 * m.port28 -> Ram(1, mc_base(addr))
       [] OTHER -> IF m.ram_version = 2 /\ bank.ram /\ bank.page > 2
                     THEN Ram(2, mc_base(addr)) ELSE InBank(m, addr)

mem_read(m, addr) == m.bytes[ReadPlace(m, addr)]

WritePlace(m, addr) ==
  LET bank == m.banks[mc_bank(addr)]
  IN CASE m.port27 > 0 /\ ~m.boot_mapped /\ mc_bank(addr) = 3
            /\ addr >= 65536 - 64 * m.port27 /\ addr >= 64356 -> Ram(0, mc_base(addr))
       [] m.port28 > 0 /\ ~m.boot_mapped /\ mc_bank(addr) = 2
            /\ mc_base(addr) < 64 * m.port28 -> Ram(1, mc_base(addr))
       [] OTHER -> IF m.ram_version = 2 /\ bank.ram /\ bank.page > 2
                     THEN Ram(2, mc_base(addr)) ELSE InBank(m, addr)

mem_write(m, addr, data) ==
  [m EXCEPT !.bytes = [p \in DOMAIN m.bytes |-> IF p = WritePlace(m, addr) THEN data ELSE m.bytes[p]]]

(***************************************************************************)
(* is_allowed_exec.                                                        *)
(***************************************************************************)
BitSet(byte, i) == (byte \div 2^i) % 2 = 1

\* The 83+: bits of port 16 by groups of pages.
AllowedOn83P(m, pc) ==
  LET bank == m.banks[mc_bank(pc)]
  IN IF bank.ram
       THEN /\ bank.page = 0 => ~BitSet(m.protected_page[3], 0)
            /\ bank.page = 1 => ~BitSet(m.protected_page[3], 5)
       ELSE \/ bank.page < 8 \/ bank.page >= 28
            \/ ~BitSet(m.protected_page[(bank.page - 8) \div 8], (bank.page - 8) % 8)

\* page & (2 >> (mode + 1))
OfMode(m, page) == m.prot_mode = 0 /\ page % 2 = 1

\* global_addr: the place as an offset in RAM.
CheckedAddr(m, pc) ==
  CASE m.port27 > 0 /\ ~m.boot_mapped /\ mc_bank(pc) = 3
         /\ pc >= 65536 - 64 * m.port27 /\ pc >= 64356 -> mc_base(pc)
    [] m.port28 > 0 /\ ~m.boot_mapped /\ mc_bank(pc) = 2
         /\ mc_base(pc) < 64 * m.port28 -> PAGE_SIZE + mc_base(pc)
    [] OTHER -> m.banks[mc_bank(pc)].page * PAGE_SIZE + mc_base(pc)

AllowedOnSE(m, pc) ==
  LET bank == m.banks[mc_bank(pc)]
  IN IF ~bank.ram THEN bank.page <= m.flash_lower \/ bank.page > m.flash_upper
     ELSE \/ OfMode(m, bank.page)
          \/ CheckedAddr(m, pc) >= m.ram_lower /\ CheckedAddr(m, pc) <= m.ram_upper

is_allowed_exec(m, pc, is83P) == IF is83P THEN AllowedOn83P(m, pc) ELSE AllowedOnSE(m, pc)

(***************************************************************************)
(* The ports, which take a byte, and their limits of sixteen bits.         *)
(***************************************************************************)
High(limit) == 256 * (limit \div 256)
port21(m, bus) == [m EXCEPT !.prot_mode = (bus \div 16) % 4]
port22(m, bus) == [m EXCEPT !.flash_lower = High(@) + bus]
port23(m, bus) == [m EXCEPT !.flash_upper = High(@) + bus]

\* Shifts bind before the mask: both are bus & 256.
port24(m, bus) ==
  LET bit == 256 * ((bus \div 256) % 2)
  IN [m EXCEPT !.flash_upper = (@ % 256) + bit, !.flash_lower = (@ % 256) + bit]

port25(m, bus) == [m EXCEPT !.ram_lower = (bus * 1024) % 65536]
port26(m, bus) == [m EXCEPT !.ram_upper = (bus * 1024 + 1023) % 65536]
InPort25(m) == (m.ram_lower \div 1024) % 256
InPort26(m) == ((m.ram_upper - 1023) \div 1024) % 256
port27(m, bus) == [m EXCEPT !.port27 = bus]
port28(m, bus) == [m EXCEPT !.port28 = bus]

(***************************************************************************)
(* The contexts there can be, and what lies in RAM between two limits.     *)
(***************************************************************************)
Below(n) == {i \in Nat : i < n}
Byte == Below(256)
Addr == Below(65536)
Limit == Below(65536)
Offsets == Below(PAGE_SIZE)
Bank == [ram : BOOLEAN, page : Nat]
Place == [ram : BOOLEAN, page : Nat, base : Offsets]
Context ==
  [banks : [0..3 -> Bank], boot_mapped : BOOLEAN, ram_version : Nat, port27 : Byte, port28 : Byte,
   flash_lower : Limit, flash_upper : Limit, ram_lower : Limit, ram_upper : Limit,
   prot_mode : 0..3, protected_page : [0..3 -> Int], bytes : [Place -> Byte]]

Offset(place) == place.page * PAGE_SIZE + place.base
Executable(m, place) == Offset(place) >= m.ram_lower /\ Offset(place) <= m.ram_upper
=============================================================================
