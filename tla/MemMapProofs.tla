---------------------------- MODULE MemMapProofs ----------------------------
(***************************************************************************)
(* What the three searches for the place of an address, in mem_read,       *)
(* mem_write and is_allowed_exec, have in common, and what the limits on   *)
(* execution can express, for every context and address.                   *)
(***************************************************************************)
EXTENDS MemMap, TLAPS

\* An address has a bank of the four and an offset in a page.
LEMMA AddrParts ==
  ASSUME NEW a \in Addr
  PROVE  mc_bank(a) \in 0..3 /\ mc_base(a) \in Offsets
<1>1. a \in Nat /\ a < 65536
  BY DEF Addr, Below
<1>2. a \div 16384 \in 0..3
  BY <1>1
<1>3. a % 16384 \in Nat /\ a % 16384 < 16384
  BY <1>1
<1> QED
  BY <1>2, <1>3 DEF mc_bank, mc_base, Offsets, Below, PAGE_SIZE

\* The bank of an address.
LEMMA BankOf ==
  ASSUME NEW m \in Context, NEW a \in Addr
  PROVE  m.banks[mc_bank(a)] \in Bank
<1>1. m.banks \in [0..3 -> Bank]
  BY DEF Context
<1> QED
  BY <1>1, AddrParts

\* An address leads to a place.
LEMMA ReadPlaceType ==
  ASSUME NEW m \in Context, NEW a \in Addr
  PROVE  ReadPlace(m, a) \in Place
<1>1. InBank(m, a) \in Place
  BY BankOf, AddrParts DEF InBank, Place, Bank
<1>2. Ram(0, mc_base(a)) \in Place /\ Ram(1, mc_base(a)) \in Place /\ Ram(2, mc_base(a)) \in Place
  BY AddrParts DEF Ram, Place
<1> QED
  BY <1>1, <1>2 DEF ReadPlace

\* mem_read and mem_write find the same place.
LEMMA SamePlace ==
  ASSUME NEW m, NEW a
  PROVE  WritePlace(m, a) = ReadPlace(m, a)
  BY DEF WritePlace, ReadPlace

\* A byte written is read back at its address, and at every other address that leads
\* to the same place, and nowhere else: chunks, lost pages and two banks with one page
\* notwithstanding.
THEOREM ReadsWhatWasWritten ==
  ASSUME NEW m \in Context, NEW a \in Addr, NEW b \in Addr, NEW data \in Byte
  PROVE  mem_read(mem_write(m, a, data), b) =
           IF ReadPlace(m, b) = ReadPlace(m, a) THEN data ELSE mem_read(m, b)
<1> DEFINE w == mem_write(m, a, data)
<1>1. DOMAIN m.bytes = Place
  BY DEF Context
<1>2. w.bytes = [p \in Place |-> IF p = ReadPlace(m, a) THEN data ELSE m.bytes[p]]
  BY <1>1, SamePlace DEF mem_write, Context
<1>3. /\ w.banks = m.banks /\ w.boot_mapped = m.boot_mapped /\ w.ram_version = m.ram_version
      /\ w.port27 = m.port27 /\ w.port28 = m.port28
  BY DEF mem_write, Context
<1>4. ReadPlace(w, b) = ReadPlace(m, b)
  BY <1>3 DEF ReadPlace, InBank
<1>5. ReadPlace(m, b) \in Place
  BY ReadPlaceType
<1> QED
  BY <1>2, <1>4, <1>5 DEF mem_read

\* Outside the mode of odd pages, code in RAM may run exactly where the byte that is
\* fetched lies between the limits, except on the pages an 84+ has lost.
THEOREM ChecksWhatItReads ==
  ASSUME NEW m \in Context, NEW pc \in Addr,
         m.banks[mc_bank(pc)].ram,
         ~OfMode(m, m.banks[mc_bank(pc)].page),
         m.ram_version # 2 \/ m.banks[mc_bank(pc)].page <= 2
  PROVE  AllowedOnSE(m, pc) <=> Executable(m, ReadPlace(m, pc))
<1>1. m.banks[mc_bank(pc)] \in Bank /\ mc_base(pc) \in Nat
  BY AddrParts, BankOf DEF Offsets, Below
<1>2. ~(m.ram_version = 2 /\ m.banks[mc_bank(pc)].ram /\ m.banks[mc_bank(pc)].page > 2)
  BY <1>1 DEF Bank
<1>3. CheckedAddr(m, pc) = Offset(ReadPlace(m, pc))
  BY <1>1, <1>2 DEF CheckedAddr, Offset, ReadPlace, Ram, InBank, PAGE_SIZE, Bank
<1> QED
  BY <1>3 DEF AllowedOnSE, Executable

\* The limits have sixteen bits: no RAM page from 4 on can be opened by ports 25 and
\* 26, only by a remapped chunk or the mode of odd pages.
THEOREM UpperRamClosed ==
  ASSUME NEW m \in Context, NEW pc \in Addr,
         m.banks[mc_bank(pc)].ram, m.banks[mc_bank(pc)].page >= 4,
         ~OfMode(m, m.banks[mc_bank(pc)].page),
         m.boot_mapped \/ (m.port27 = 0 /\ m.port28 = 0)
  PROVE  ~AllowedOnSE(m, pc)
<1>1. m.banks[mc_bank(pc)].page \in Nat /\ mc_base(pc) \in Nat /\ m.ram_upper \in Nat /\ m.ram_upper < 65536
  BY AddrParts, BankOf DEF Context, Bank, Offsets, Limit, Below
<1>2. CheckedAddr(m, pc) = m.banks[mc_bank(pc)].page * PAGE_SIZE + mc_base(pc)
  BY DEF CheckedAddr
<1>3. CheckedAddr(m, pc) > m.ram_upper
  BY <1>1, <1>2 DEF PAGE_SIZE
<1>4. CheckedAddr(m, pc) \in Int
  BY <1>1, <1>2 DEF PAGE_SIZE
<1> QED
  BY <1>1, <1>3, <1>4 DEF AllowedOnSE

\* A byte made a limit of sixteen bits and a byte again.
LEMMA SixBits ==
  ASSUME NEW bus \in Byte
  PROVE  /\ (((bus * 1024) % 65536) \div 1024) % 256 = bus % 64
         /\ ((((bus * 1024 + 1023) % 65536) - 1023) \div 1024) % 256 = bus % 64
<1>1. bus \in Nat /\ bus < 256
  BY DEF Byte, Below
<1>2. (bus * 1024) % 65536 = (bus % 64) * 1024
  BY <1>1
<1>3. (bus * 1024 + 1023) % 65536 = (bus % 64) * 1024 + 1023
  BY <1>1
<1>4. PICK r \in 0..63 : r = bus % 64
  BY <1>1
<1>5. ((r * 1024) \div 1024) % 256 = r /\ ((r * 1024 + 1023 - 1023) \div 1024) % 256 = r
  BY <1>4
<1> QED
  BY <1>2, <1>3, <1>4, <1>5

\* Ports 25 and 26 read back six bits of the byte written.
THEOREM LimitsKeepSixBits ==
  ASSUME NEW m \in Context, NEW bus \in Byte
  PROVE  /\ InPort25(port25(m, bus)) = bus % 64
         /\ InPort26(port26(m, bus)) = bus % 64
<1> DEFINE lower == (bus * 1024) % 65536
           upper == (bus * 1024 + 1023) % 65536
<1> HIDE DEF lower, upper
<1>1. port25(m, bus).ram_lower = lower /\ port26(m, bus).ram_upper = upper
  BY DEF port25, port26, Context, lower, upper
<1>2. /\ InPort25(port25(m, bus)) = (lower \div 1024) % 256
      /\ InPort26(port26(m, bus)) = ((upper - 1023) \div 1024) % 256
  BY <1>1 DEF InPort25, InPort26
<1>3. (lower \div 1024) % 256 = bus % 64 /\ ((upper - 1023) \div 1024) % 256 = bus % 64
  BY SixBits DEF lower, upper
<1> QED
  BY <1>2, <1>3

\* The ninth bits of the flash limits, which port 24 is for, are never set.
THEOREM FlashLimitsStayLow ==
  ASSUME NEW m \in Context, NEW bus \in Byte
  PROVE  /\ port24(m, bus).flash_upper < 256 /\ port24(m, bus).flash_lower < 256
         /\ m.flash_lower < 256 => port22(m, bus).flash_lower = bus
         /\ m.flash_upper < 256 => port23(m, bus).flash_upper = bus
<1>0. m.flash_upper \in Nat /\ m.flash_lower \in Nat
  BY DEF Context, Limit, Below
<1>1. (bus \div 256) % 2 = 0
  BY DEF Byte, Below
<1>2. port24(m, bus).flash_upper = m.flash_upper % 256 /\ port24(m, bus).flash_lower = m.flash_lower % 256
  BY <1>0, <1>1 DEF port24, Context
<1>3. m.flash_upper % 256 < 256 /\ m.flash_lower % 256 < 256
  BY <1>0
<1>4. /\ port22(m, bus).flash_lower = High(m.flash_lower) + bus
      /\ port23(m, bus).flash_upper = High(m.flash_upper) + bus
  BY DEF port22, port23, Context
<1>5. /\ m.flash_lower < 256 => High(m.flash_lower) = 0
      /\ m.flash_upper < 256 => High(m.flash_upper) = 0
  BY <1>0 DEF High
<1> QED
  BY <1>2, <1>3, <1>4, <1>5 DEF Byte, Below
=============================================================================
