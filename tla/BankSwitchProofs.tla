-------------------------- MODULE BankSwitchProofs --------------------------
(***************************************************************************)
(* Proofs about the mapper, for every number of flash and RAM pages, every *)
(* width of the paging ports and both families of calculators.             *)
(***************************************************************************)
EXTENDS BankSwitch, TLAPS

(* Facts about page numbers *)

LEMMA ModBound == \A x, n \in Nat : n > 0 => x % n \in 0..(n - 1)
  OBVIOUS

LEMMA PageCounts == /\ FlashPages \in Nat /\ FlashPages > 1 /\ FlashPages % 2 = 0
                    /\ RamPages \in Nat /\ RamPages > 1 /\ RamPages % 2 = 0
                    /\ LowPages \in Nat /\ LowPages > 0
  BY FlashPagesAssumption, RamPagesAssumption, LowPagesAssumption

LEMMA EvenedExists ==
  ASSUME NEW n \in Nat, n > 0, n % 2 = 0, NEW p \in 0..(n - 1)
  PROVE  /\ Evened(p) \in 0..(n - 1)
         /\ OrVersion(p) \in 0..(n - 1)
  BY DEF Evened, OrVersion

\* Whatever is written to a latch and its extension, the page is there.
LEMMA DecodedExists ==
  ASSUME NEW v \in Latch, NEW e \in 0..3
  PROVE  Entry(v.ram, DecodedPage(v, e)) \in Bank
  <1>1. CASE v.ram
    <2>1. v.low \in Nat
      BY PageCounts DEF Latch
    <2>2. v.low % RamPages \in 0..(RamPages - 1)
      BY <2>1, ModBound, PageCounts
    <2> QED BY <1>1, <2>2 DEF Entry, Ram, DecodedPage, Bank
  <1>2. CASE ~v.ram
    <2>1. v.low + LowPages * e \in Nat
      <3>1. v.low \in Nat /\ e \in Nat
        BY PageCounts DEF Latch
      <3>2. LowPages * e \in Nat
        BY <3>1, PageCounts
      <3> QED BY <3>1, <3>2
    <2>2. (v.low + LowPages * e) % FlashPages \in 0..(FlashPages - 1)
      BY <2>1, ModBound, PageCounts
    <2> QED BY <1>2, <2>2 DEF Entry, Flash, DecodedPage, Bank
  <1> QED BY <1>1, <1>2

LEMMA HalvesType ==
  ASSUME NEW k \in Bank
  PROVE  EvenHalf(k) \in Bank /\ OddHalf(k) \in Bank /\ Shifted(k) \in Bank
  <1>1. CASE k \in [ram : {FALSE}, page : 0..(FlashPages - 1),
                    readOnly : BOOLEAN]
    <2>1. /\ Evened(k.page) \in 0..(FlashPages - 1)
          /\ OrVersion(k.page) \in 0..(FlashPages - 1)
      BY <1>1, EvenedExists, PageCounts
    <2> QED BY <1>1, <2>1 DEF Bank, EvenHalf, OddHalf, Shifted
  <1>2. CASE k \in [ram : {TRUE}, page : 0..(RamPages - 1),
                    readOnly : {FALSE}]
    <2>1. /\ Evened(k.page) \in 0..(RamPages - 1)
          /\ OrVersion(k.page) \in 0..(RamPages - 1)
      BY <1>2, EvenedExists, PageCounts
    <2> QED BY <1>2, <2>1 DEF Bank, EvenHalf, OddHalf, Shifted
  <1> QED BY <1>1, <1>2 DEF Bank

LEMMA BootTableType ==
  ASSUME NEW n \in [Banks -> Bank]
  PROVE  BootTable(n) \in [Banks -> Bank]
  BY HalvesType DEF BootTable, Banks

LEMMA TablesType == /\ InitialTable \in [Banks -> Bank]
                    /\ ResetTable \in [Banks -> Bank]
  BY PageCounts, ModelAssumption
  DEF InitialTable, ResetTable, Bank, Banks, Flash, Ram, BootPage

LEMMA FirstPageEntry == Entry(FALSE, 0) = Flash(0, FALSE)
  <1>1. (0 = BootPage) = FALSE
    BY PageCounts DEF BootPage
  <1> QED BY <1>1 DEF Entry, Flash

LEMMA FirstEntryType == Entry(FALSE, 0) \in Bank
  <1>1. 0 \in 0..(FlashPages - 1)
    BY PageCounts
  <1>2. Flash(0, FALSE) \in Bank
    BY <1>1 DEF Flash, Bank
  <1> QED BY <1>2, FirstPageEntry

LEMMA TableInUse == TablesOK => active \in [Banks -> Bank]
  BY DEF TablesOK, active

(* One lemma for every caller of change_page *)

LEMMA ChangePageKeeps ==
  ASSUME TablesOK, BootMapCurrent,
         NEW b \in Banks, NEW ram \in BOOLEAN, NEW page,
         Entry(ram, page) \in Bank,
         ChangePage(b, ram, page)
  PROVE  /\ TablesOK'
         /\ BootMapCurrent'
         /\ normal' = [normal EXCEPT ![b] = Entry(ram, page)]
  <1>1. normal' \in [Banks -> Bank]
    BY DEF ChangePage, TablesOK
  <1>2. bootmap' \in [Banks -> Bank]
    BY <1>1, BootTableType DEF ChangePage
  <1>3. bootMapped' = bootMapped /\ banksPtr' = banksPtr
    BY DEF ChangePage
  <1>4. bootmap' = BootTable(normal')
    BY DEF ChangePage
  <1>5. BootMapCurrent'
    BY <1>3, <1>4 DEF BootMapCurrent
  <1> QED BY <1>1, <1>2, <1>3, <1>5 DEF TablesOK, ChangePage

LEMMA InitIInv == Init => IInv
  <1> SUFFICES ASSUME Init PROVE IInv
    OBVIOUS
  <1>1. NoByte \in Latch
    BY PageCounts DEF NoByte, Latch
  <1>2. TablesOK
    BY TablesType, BootTableType DEF Init, TablesOK
  <1>3. TypeOK
    <2>1. 0 \in 0..3 /\ 0 \in Banks
      BY DEF Banks
    <2> QED BY <1>1, <1>2, <2>1, Zenon DEF Init, TypeOK
  <1>4. BootMapCurrent /\ BootPageGone
    BY DEF Init, BootMapCurrent, BootPageGone
  <1> QED BY <1>3, <1>4 DEF IInv

LEMMA FetchKeeps ==
  ASSUME IInv, NEW b \in Banks, NEW next \in Banks, Fetch(b, next)
  PROVE  IInv'
  <1> DEFINE leaves == /\ ~hasChangedPage0
                       /\ ~active[b].ram
                       /\ (b = 1 \/ (bootMapped /\ b = 2))
  <1>0. /\ TablesOK /\ BootMapCurrent /\ BootPageGone /\ TypeOK
        /\ 0 \in Banks
    BY DEF IInv, TypeOK, Banks
  <1>1. /\ IF leaves THEN ChangePage(0, FALSE, 0) ELSE UNCHANGED mem
        /\ hasChangedPage0' = (hasChangedPage0 \/ leaves)
        /\ ranOS' = (ranOS \/ (b = 1 /\ ~active[b].ram))
    BY DEF Fetch
  <1>2. Entry(FALSE, 0) \in Bank
    BY FirstEntryType
  <1>3. TablesOK' /\ BootMapCurrent'
    <2>1. CASE leaves
      BY <1>0, <1>1, <1>2, <2>1, ChangePageKeeps
    <2>2. CASE ~leaves
      BY <1>0, <1>1, <2>2 DEF mem, TablesOK, BootMapCurrent
    <2> QED BY <2>1, <2>2
  <1>4. BootPageGone'
    <2>1. CASE leaves
      <3>1. normal' = [normal EXCEPT ![0] = Entry(FALSE, 0)]
        BY <1>0, <1>1, <1>2, <2>1, ChangePageKeeps
      <3>2. normal'[0] = Flash(0, FALSE)
        BY <1>0, <3>1, FirstPageEntry DEF TablesOK
      <3> QED BY <3>2 DEF BootPageGone
    <2>2. CASE ~leaves
      <3>1. normal' = normal
        BY <1>1, <2>2 DEF mem
      <3>2. (ranOS' \/ hasChangedPage0') => (ranOS \/ hasChangedPage0)
        BY <1>1, <2>2
      <3> QED BY <1>0, <3>1, <3>2 DEF BootPageGone
    <2> QED BY <2>1, <2>2
  <1>5. /\ latches' = latches /\ flashLocked' = flashLocked /\ fresh' = fresh
        /\ pcBank' \in Banks /\ fetched' \in BOOLEAN
        /\ hasChangedPage0' \in BOOLEAN /\ ranOS' \in BOOLEAN
    BY <1>0, <1>1 DEF Fetch, TypeOK
  <1>6. TypeOK'
    BY <1>0, <1>3, <1>5 DEF TypeOK, latches
  <1> QED BY <1>3, <1>4, <1>6 DEF IInv

(* The port writes that select a page *)

\* Every such write changes bank 1, 2 or 3 and nothing else of the tables.
LEMMA SelectKeeps ==
  ASSUME IInv, NEW b \in 1..3, NEW ram \in BOOLEAN, NEW page,
         Entry(ram, page) \in Bank,
         ChangePage(b, ram, page),
         UNCHANGED <<hasChangedPage0, ranOS>>
  PROVE  TablesOK' /\ BootMapCurrent' /\ BootPageGone' /\ normal'[0] = normal[0]
  <1>0. TablesOK /\ BootMapCurrent /\ BootPageGone /\ b \in Banks /\ b # 0
    BY DEF IInv, TypeOK, Banks
  <1>1. /\ TablesOK' /\ BootMapCurrent'
        /\ normal' = [normal EXCEPT ![b] = Entry(ram, page)]
    BY <1>0, ChangePageKeeps
  <1>2. normal'[0] = normal[0]
    BY <1>0, <1>1 DEF TablesOK, Banks
  <1> QED BY <1>0, <1>1, <1>2 DEF BootPageGone

LEMMA PortByteType ==
  ASSUME NEW v \in PortBytes PROVE v \in Latch
  BY PortBytesAssumption DEF Latch

\* Ports 6 and 7 on either family, and the RAM page of port 5.
LEMMA PortPageExists ==
  ASSUME TypeOK, NEW v \in PortBytes
  PROVE  /\ Entry(v.ram, DecodedPage(v, IF SE THEN port0E ELSE 0)) \in Bank
         /\ Entry(v.ram, DecodedPage(v, IF SE THEN port0F ELSE 0)) \in Bank
         /\ Entry(TRUE, v.low % RamPages) \in Bank
  <1>1. /\ (IF SE THEN port0E ELSE 0) \in 0..3
        /\ (IF SE THEN port0F ELSE 0) \in 0..3
    BY DEF TypeOK
  <1>2. v.low \in Nat
    BY PortByteType, PageCounts DEF Latch
  <1>3. v.low % RamPages \in 0..(RamPages - 1)
    BY <1>2, ModBound, PageCounts
  <1>4. Entry(TRUE, v.low % RamPages) \in Bank
    BY <1>3 DEF Entry, Ram, Bank
  <1> QED BY <1>1, <1>4, PortByteType, DecodedExists

LEMMA OutPortsKeep ==
  ASSUME IInv, NEW v \in PortBytes,
         OutPort6(v) \/ OutPort7(v) \/ OutPort5(v.low)
  PROVE  IInv' /\ normal'[0] = normal[0]
  <1>0. TypeOK /\ v \in Latch
    BY PortByteType DEF IInv
  <1> DEFINE Rest == /\ UNCHANGED <<hasChangedPage0, ranOS, flashLocked, pcBank>>
                     /\ fetched' = FALSE
  <1>1. CASE OutPort6(v)
    <2>1. Rest /\ port06' \in {v, port06} /\ fresh' = fresh \cup {1}
          /\ UNCHANGED <<port07, port0E, port0F>>
      BY <1>1 DEF OutPort6, Out
    <2>2. TablesOK' /\ BootMapCurrent' /\ BootPageGone' /\ normal'[0] = normal[0]
      <3> DEFINE page == DecodedPage(v, IF SE THEN port0E ELSE 0)
      <3>1. ChangePage(1, v.ram, page)
        BY <1>1 DEF OutPort6
      <3>2. Entry(v.ram, page) \in Bank /\ v.ram \in BOOLEAN
        BY <1>0, PortPageExists DEF Latch
      <3> HIDE DEF page
      <3> QED BY <2>1, <3>1, <3>2, SelectKeeps
    <2>3. TypeOK'
      BY <1>0, <2>1, <2>2 DEF TypeOK
    <2> QED BY <2>2, <2>3 DEF IInv
  <1>2. CASE OutPort7(v)
    <2>1. Rest /\ port07' \in {v, port07} /\ fresh' = fresh \cup {2}
          /\ UNCHANGED <<port06, port0E, port0F>>
      BY <1>2 DEF OutPort7, Out
    <2>2. TablesOK' /\ BootMapCurrent' /\ BootPageGone' /\ normal'[0] = normal[0]
      <3> DEFINE page == DecodedPage(v, IF SE THEN port0F ELSE 0)
      <3>1. ChangePage(2, v.ram, page)
        BY <1>2 DEF OutPort7
      <3>2. Entry(v.ram, page) \in Bank /\ v.ram \in BOOLEAN
        BY <1>0, PortPageExists DEF Latch
      <3> HIDE DEF page
      <3> QED BY <2>1, <3>1, <3>2, SelectKeeps
    <2>3. TypeOK'
      BY <1>0, <2>1, <2>2 DEF TypeOK
    <2> QED BY <2>2, <2>3 DEF IInv
  <1>3. CASE OutPort5(v.low)
    <2>1. Rest /\ UNCHANGED <<latches, fresh>>
      BY <1>3 DEF OutPort5, Out
    <2>2. TablesOK' /\ BootMapCurrent' /\ BootPageGone' /\ normal'[0] = normal[0]
      <3> DEFINE page == v.low % RamPages
                 ram == TRUE
      <3>1. ChangePage(3, ram, page)
        BY <1>3 DEF OutPort5
      <3>2. Entry(ram, page) \in Bank /\ ram \in BOOLEAN
        BY <1>0, PortPageExists
      <3> HIDE DEF page, ram
      <3> QED BY <2>1, <3>1, <3>2, SelectKeeps
    <2>3. TypeOK'
      BY <1>0, <2>1, <2>2 DEF TypeOK, latches
    <2> QED BY <2>2, <2>3 DEF IInv
  <1> QED BY <1>1, <1>2, <1>3

LEMMA ExtensionsKeep ==
  ASSUME IInv, NEW e \in Extensions, OutPort0E(e) \/ OutPort0F(e)
  PROVE  IInv' /\ normal'[0] = normal[0]
  <1>0. TypeOK /\ e \in 0..3
    BY PortBytesAssumption DEF IInv
  <1> DEFINE Rest == /\ UNCHANGED <<hasChangedPage0, ranOS, flashLocked, pcBank>>
                     /\ fetched' = FALSE
  <1>1. CASE OutPort0E(e)
    <2>1. Rest /\ port0E' = e /\ fresh' = fresh \cup {1}
          /\ UNCHANGED <<port06, port07, port0F>>
      BY <1>1 DEF OutPort0E, Out
    <2>2. Entry(port06.ram, DecodedPage(port06, e)) \in Bank /\ port06.ram \in BOOLEAN
      BY <1>0, DecodedExists DEF TypeOK, Latch
    <2>3. TablesOK' /\ BootMapCurrent' /\ BootPageGone' /\ normal'[0] = normal[0]
      <3>1. ChangePage(1, port06.ram, DecodedPage(port06, e))
        BY <1>1 DEF OutPort0E
      <3> QED BY <2>1, <2>2, <3>1, SelectKeeps
    <2>4. TypeOK'
      BY <1>0, <2>1, <2>3 DEF TypeOK
    <2> QED BY <2>3, <2>4 DEF IInv
  <1>2. CASE OutPort0F(e)
    <2>1. Rest /\ port0F' = e /\ fresh' = fresh \cup {2}
          /\ UNCHANGED <<port06, port07, port0E>>
      BY <1>2 DEF OutPort0F, Out
    <2>2. Entry(port07.ram, DecodedPage(port07, e)) \in Bank /\ port07.ram \in BOOLEAN
      BY <1>0, DecodedExists DEF TypeOK, Latch
    <2>3. TablesOK' /\ BootMapCurrent' /\ BootPageGone' /\ normal'[0] = normal[0]
      <3>1. ChangePage(2, port07.ram, DecodedPage(port07, e))
        BY <1>2 DEF OutPort0F
      <3> QED BY <2>1, <2>2, <3>1, SelectKeeps
    <2>4. TypeOK'
      BY <1>0, <2>1, <2>3 DEF TypeOK
    <2> QED BY <2>3, <2>4 DEF IInv
  <1> QED BY <1>1, <1>2

(* The steps that select no page *)

LEMMA SwitchKeeps ==
  ASSUME IInv, NEW x \in BOOLEAN, OutPort4(x) \/ OutPort14(x)
  PROVE  IInv' /\ normal' = normal
  <1>0. TablesOK /\ BootMapCurrent /\ BootPageGone /\ TypeOK
    BY DEF IInv, TypeOK
  <1>1. CASE OutPort4(x)
    <2>1. /\ normal' = normal /\ bootMapped' = x
          /\ banksPtr' = (IF x THEN "boot" ELSE "normal")
          /\ bootmap' = (IF x THEN BootTable(normal) ELSE bootmap)
          /\ UNCHANGED <<latches, hasChangedPage0, flashLocked, pcBank, ranOS, fresh>>
          /\ fetched' = FALSE
      BY <1>1 DEF OutPort4, Out
    <2>2. TablesOK'
      BY <1>0, <2>1, BootTableType DEF TablesOK
    <2>3. BootMapCurrent'
      BY <2>1 DEF BootMapCurrent
    <2>4. TypeOK'
      BY <1>0, <2>1, <2>2 DEF TypeOK, latches
    <2> QED BY <1>0, <2>1, <2>3, <2>4 DEF IInv, BootPageGone
  <1>2. CASE OutPort14(x)
    <2>1. /\ flashLocked' \in BOOLEAN /\ fetched' = FALSE
          /\ UNCHANGED <<mem, latches, hasChangedPage0, pcBank, ranOS, fresh>>
      BY <1>0, <1>2 DEF OutPort14, Out, TypeOK
    <2>2. TablesOK' /\ BootMapCurrent'
      BY <1>0, <2>1 DEF mem, TablesOK, BootMapCurrent
    <2>3. TypeOK'
      BY <1>0, <2>1, <2>2 DEF TypeOK, latches
    <2> QED BY <1>0, <2>1, <2>2, <2>3 DEF IInv, BootPageGone, mem
  <1> QED BY <1>1, <1>2

LEMMA ResetKeeps == IInv /\ Reset => IInv'
  <1> SUFFICES ASSUME IInv, Reset PROVE IInv'
    OBVIOUS
  <1>1. TablesOK'
    BY TablesType DEF IInv, TypeOK, TablesOK, Reset
  <1>2. BootMapCurrent' /\ BootPageGone'
    BY DEF Reset, BootMapCurrent, BootPageGone
  <1>3. TypeOK'
    <2>1. UNCHANGED <<port06, port07, port0E, port0F, flashLocked>>
      BY DEF Reset, latches
    <2>2. 0 \in Banks
      BY DEF Banks
    <2> QED BY <1>1, <2>1, <2>2, Zenon DEF IInv, TypeOK, Reset
  <1> QED BY <1>2, <1>3 DEF IInv

LEMMA RestartKeeps == IInv /\ Restart => IInv'
  <1> SUFFICES ASSUME IInv, Restart PROVE IInv'
    OBVIOUS
  <1>1. NoByte \in Latch
    BY PageCounts DEF NoByte, Latch
  <1>2. TablesOK'
    BY TablesType, BootTableType DEF IInv, TypeOK, TablesOK, Restart
  <1>3. BootMapCurrent' /\ BootPageGone'
    BY DEF IInv, Restart, BootMapCurrent, BootPageGone
  <1>4. TypeOK'
    <2>1. 0 \in 0..3
      OBVIOUS
    <2> QED BY <1>1, <1>2, <2>1, Zenon DEF IInv, TypeOK, Restart
  <1> QED BY <1>3, <1>4 DEF IInv

LEMMA StutterKeeps == IInv /\ UNCHANGED vars => IInv'
  BY DEF IInv, TypeOK, TablesOK, BootMapCurrent, BootPageGone, vars

LEMMA NextKeeps == IInv /\ [Next]_vars => IInv'
  BY FetchKeeps, OutPortsKeep, ExtensionsKeep, SwitchKeeps, ResetKeeps,
     RestartKeeps, StutterKeeps DEF Next

(* The latches *)

LEMMA Division == \A x \in Nat, n \in Nat \ {0} :
                     /\ x = n * (x \div n) + (x % n)
                     /\ x \div n \in Nat /\ x % n \in 0..(n - 1)
  OBVIOUS

LEMMA Multiple == \A n \in Nat \ {0}, k \in Int : k >= 1 => n * k >= n
  OBVIOUS

\* Quotient and remainder are unique.
LEMMA Remainder ==
  ASSUME NEW n \in Nat \ {0}, NEW q \in Int, NEW r \in 0..(n - 1),
         NEW m \in Nat, m = n * q + r
  PROVE  m % n = r
  <1> DEFINE p == m \div n
             s == m % n
  <1>1. p \in Nat /\ s \in 0..(n - 1) /\ m = n * p + s
    BY Division
  <1> HIDE DEF p, s
  <1>2. n * (p - q) = r - s /\ n * (q - p) = s - r
    BY <1>1
  <1>3. p = q
    BY <1>1, <1>2, Multiple
  <1>4. s = r
    BY <1>1, <1>3
  <1> QED BY <1>4 DEF s

\* What is left of a page number when it has been put together from latch and
\* extension, wrapped to the pages there are, and cut to the bits of the port.
LEMMA PageReadBack ==
  ASSUME NEW low \in 0..(LowPages - 1), NEW e \in 0..3
  PROVE  ((low + LowPages * e) % FlashPages) % LowPages
           = low % (IF FlashPages < LowPages THEN FlashPages ELSE LowPages)
  <1>0. FlashPages \in Nat \ {0} /\ LowPages \in Nat \ {0} /\ low \in Nat
    BY PageCounts
  <1> DEFINE x == low + LowPages * e
  <1>1. x \in Nat
    <2>1. LowPages * e \in Nat
      BY <1>0
    <2> QED BY <1>0, <2>1
  <1> HIDE DEF x
  <1>2. CASE FlashPages % LowPages = 0
    <2> DEFINE k == FlashPages \div LowPages
               p == x \div FlashPages
               s == x % FlashPages
    <2>1. k \in Nat /\ FlashPages = LowPages * k
      BY <1>0, <1>2, Division
    <2>2. p \in Nat /\ s \in Nat /\ x = FlashPages * p + s
      BY <1>0, <1>1, Division
    <2> HIDE DEF k, p, s
    <2> DEFINE q == e - k * p
    <2>3. s = LowPages * q + low
      <3>1. s = low + LowPages * e - (LowPages * k) * p
        BY <1>0, <2>1, <2>2 DEF x
      <3>2. (LowPages * k) * p = LowPages * (k * p)
        BY <1>0, <2>1, <2>2
      <3>3. k * p \in Nat
        BY <2>1, <2>2
      <3> QED BY <1>0, <3>1, <3>2, <3>3
    <2>4. q \in Int
      BY <2>1, <2>2
    <2> HIDE DEF q
    <2>5. s % LowPages = low
      BY <1>0, <2>2, <2>3, <2>4, Remainder
    <2>6. ~(FlashPages < LowPages) /\ low % LowPages = low
      <3>1. k >= 1
        BY <1>0, <2>1
      <3>2. low = LowPages * 0 + low
        BY <1>0
      <3> QED BY <1>0, <2>1, <3>1, <3>2, Multiple, Remainder
    <2> QED BY <2>5, <2>6 DEF s, x
  <1>3. CASE LowPages % FlashPages = 0
    <2> DEFINE k == LowPages \div FlashPages
               a == low \div FlashPages
               r == low % FlashPages
    <2>1. k \in Nat /\ LowPages = FlashPages * k
      BY <1>0, <1>3, Division
    <2>2. a \in Nat /\ r \in 0..(FlashPages - 1) /\ low = FlashPages * a + r
      BY <1>0, Division
    <2> HIDE DEF k, a, r
    <2> DEFINE q == a + k * e
    <2>3. x = FlashPages * q + r
      <3>1. (FlashPages * k) * e = FlashPages * (k * e)
        BY <1>0, <2>1
      <3>2. k * e \in Nat
        BY <2>1
      <3> QED BY <1>0, <2>1, <2>2, <3>1, <3>2 DEF x
    <2>4. q \in Int
      BY <2>1, <2>2
    <2> HIDE DEF q
    <2>5. x % FlashPages = r
      BY <1>0, <1>1, <2>2, <2>3, <2>4, Remainder
    <2>6. FlashPages <= LowPages
      <3>1. k >= 1
        BY <1>0, <2>1
      <3> QED BY <1>0, <2>1, <3>1, Multiple
    <2>7. r % LowPages = r
      <3>1. r \in 0..(LowPages - 1) /\ r = LowPages * 0 + r
        BY <1>0, <2>2, <2>6
      <3> QED BY <1>0, <3>1, Remainder
    <2>8. (IF FlashPages < LowPages THEN FlashPages ELSE LowPages) = FlashPages
      BY <1>0, <2>6
    <2> QED BY <2>5, <2>7, <2>8 DEF r, x
  <1> QED BY <1>2, <1>3, PagingAssumption

\* The part of LatchesDescribeBanks that is inductive.
Latched == SE => /\ 1 \in fresh => normal[1] = Decoded(port06, port0E)
                 /\ 2 \in fresh => normal[2] = Decoded(port07, port0F)

LEMMA LatchedKept == IInv /\ Latched /\ [Next]_vars => Latched'
  <1> SUFFICES ASSUME IInv, Latched, [Next]_vars, SE PROVE Latched'
    BY DEF Latched
  <1>0. normal \in [Banks -> Bank] /\ 0 \in Banks /\ 1 \in Banks /\ 2 \in Banks /\ 3 \in Banks
    BY DEF IInv, TypeOK, TablesOK, Banks
  <1>1. ASSUME NEW b \in Banks, NEW next \in Banks, Fetch(b, next) PROVE Latched'
    <2>1. normal' = normal \/ normal' = [normal EXCEPT ![0] = Entry(FALSE, 0)]
      BY <1>1 DEF Fetch, ChangePage, mem
    <2>2. normal'[1] = normal[1] /\ normal'[2] = normal[2]
      <3>1. CASE normal' = normal
        BY <3>1
      <3>2. CASE normal' = [normal EXCEPT ![0] = Entry(FALSE, 0)]
        BY <1>0, <3>2 DEF Banks
      <3> QED BY <2>1, <3>1, <3>2
    <2>3. UNCHANGED <<port06, port07, port0E, port0F, fresh>>
      BY <1>1 DEF Fetch, latches
    <2> QED BY <2>2, <2>3 DEF Latched, Decoded, DecodedPage
  <1>2. ASSUME NEW v \in PortBytes, OutPort6(v) PROVE Latched'
    <2>1. /\ normal' = [normal EXCEPT ![1] = Decoded(v, port0E)]
          /\ port06' = v /\ fresh' = fresh \cup {1}
          /\ UNCHANGED <<port07, port0E, port0F>>
      BY <1>2 DEF OutPort6, ChangePage, Decoded
    <2> QED BY <1>0, <2>1 DEF Latched
  <1>3. ASSUME NEW v \in PortBytes, OutPort7(v) PROVE Latched'
    <2>1. /\ normal' = [normal EXCEPT ![2] = Decoded(v, port0F)]
          /\ port07' = v /\ fresh' = fresh \cup {2}
          /\ UNCHANGED <<port06, port0E, port0F>>
      BY <1>3 DEF OutPort7, ChangePage, Decoded
    <2> QED BY <1>0, <2>1 DEF Latched
  <1>4. ASSUME NEW e \in Extensions, OutPort0E(e) PROVE Latched'
    <2>1. /\ normal' = [normal EXCEPT ![1] = Decoded(port06, e)]
          /\ port0E' = e /\ fresh' = fresh \cup {1}
          /\ UNCHANGED <<port06, port07, port0F>>
      BY <1>4 DEF OutPort0E, ChangePage, Decoded
    <2> QED BY <1>0, <2>1 DEF Latched
  <1>5. ASSUME NEW e \in Extensions, OutPort0F(e) PROVE Latched'
    <2>1. /\ normal' = [normal EXCEPT ![2] = Decoded(port07, e)]
          /\ port0F' = e /\ fresh' = fresh \cup {2}
          /\ UNCHANGED <<port06, port07, port0E>>
      BY <1>5 DEF OutPort0F, ChangePage, Decoded
    <2> QED BY <1>0, <2>1 DEF Latched
  <1>6. ASSUME NEW v \in PortBytes, OutPort5(v.low) PROVE Latched'
    <2>1. /\ normal' = [normal EXCEPT ![3] = Entry(TRUE, v.low % RamPages)]
          /\ UNCHANGED <<port06, port07, port0E, port0F, fresh>>
      BY <1>6 DEF OutPort5, ChangePage, latches
    <2> QED BY <1>0, <2>1 DEF Latched
  <1>7. ASSUME NEW x \in BOOLEAN, OutPort4(x) \/ OutPort14(x) PROVE Latched'
    BY <1>7 DEF OutPort4, OutPort14, mem, latches, Latched
  <1>8. ASSUME Reset \/ Restart PROVE Latched'
    BY <1>8 DEF Reset, Restart, Latched
  <1>9. ASSUME UNCHANGED vars PROVE Latched'
    BY <1>9 DEF vars, Latched
  <1> QED BY <1>1, <1>2, <1>3, <1>4, <1>5, <1>6, <1>7, <1>8, <1>9 DEF Next

LEMMA LatchedMeans == IInv /\ Latched => LatchesDescribeBanks
  <1> SUFFICES ASSUME IInv, Latched, SE, 1 \in fresh, ~bootMapped, ~port06.ram
               PROVE  InPort(1).low = port06.low % (IF FlashPages < LowPages
                                                      THEN FlashPages ELSE LowPages)
    BY DEF Latched, LatchesDescribeBanks
  <1>1. active[1] = Decoded(port06, port0E)
    BY DEF IInv, BootMapCurrent, active, Latched
  <1>2. active[1].page = (port06.low + LowPages * port0E) % FlashPages
    BY <1>1 DEF Decoded, DecodedPage, Entry, Flash
  <1>3. port06.low \in 0..(LowPages - 1) /\ port0E \in 0..3
    BY DEF IInv, TypeOK, Latch
  <1>4. InPort(1).low = active[1].page % LowPages
    BY DEF InPort
  <1> QED BY <1>2, <1>3, <1>4, PageReadBack

(* The results *)

THEOREM Invariance == Spec => []IInv
  BY InitIInv, NextKeeps, PTL DEF Spec

\* Every entry of both bank tables names an existing page, whatever the program
\* writes to the paging ports, and every variable has its type.
THEOREM PagesExist == Spec => []TypeOK
  <1>1. IInv => TypeOK
    BY DEF IInv
  <1> QED BY <1>1, Invariance, PTL

\* The boot mapping's copy is never stale while it is in use.
THEOREM CopyIsCurrent == Spec => []BootMapCurrent
  <1>1. IInv => BootMapCurrent
    BY DEF IInv
  <1> QED BY <1>1, Invariance, PTL

\* Code that runs from the page of port 6 never finds the boot page in bank 0.
THEOREM BootPageLeft == Spec => []BootPageGone
  <1>1. IInv => BootPageGone
    BY DEF IInv
  <1> QED BY <1>1, Invariance, PTL

\* A bank set through latch and extension shows the page that both name, in
\* whichever order they were written, and reads back as that page.
THEOREM LatchesDescribe == Spec => []LatchesDescribeBanks
  <1>1. Init => Latched
    BY DEF Init, Latched
  <1> QED BY <1>1, LatchedKept, LatchedMeans, Invariance, PTL DEF Spec

(* Refinement: the tables implement the abstract mapper *)

LEMMA PageIdType == \A k \in Bank : PageId(k) \in PageIds
  BY DEF Bank, PageId, PageIds

LEMMA SelectedType == TablesOK => Selected \in [0..3 -> PageIds]
  BY PageIdType DEF TablesOK, Selected, Banks

LEMMA ViewOfTable ==
  ASSUME NEW n \in [Banks -> Bank], NEW boot \in BOOLEAN,
         NEW a, a = IF boot THEN BootTable(n) ELSE n
  PROVE  [b \in Banks |-> PageId(a[b])]
           = Map!View([b \in Banks |-> PageId(n[b])], boot)
  <1>1. CASE boot
    <2>1. /\ PageId(EvenHalf(n[1])) = Map!Even(PageId(n[1]))
          /\ PageId(OddHalf(n[1])) = Map!SecondOf(PageId(n[1]))
          /\ PageId(Shifted(n[2])) = PageId(n[2])
      BY DEF PageId, EvenHalf, OddHalf, Shifted, Evened, OrVersion, Map!Even,
             Map!SecondOf
    <2> QED BY <1>1, <2>1 DEF Map!View, BootTable, Banks
  <1>2. CASE ~boot
    BY <1>2 DEF Map!View
  <1> QED BY <1>1, <1>2

LEMMA TableShown == TablesOK /\ BootMapCurrent =>
                      active = IF bootMapped THEN BootTable(normal) ELSE normal
  BY DEF BootMapCurrent, TablesOK, active

LEMMA TableShownNext ==
  TablesOK' /\ BootMapCurrent' =>
    active' = IF bootMapped' THEN BootTable(normal') ELSE normal'
  BY DEF BootMapCurrent, TablesOK, active

LEMMA ViewIsSeen == TablesOK /\ BootMapCurrent =>
                      Seen = Map!View(Selected, bootMapped)
  BY ViewOfTable, TableShown DEF TablesOK, Seen, Selected

LEMMA ViewIsSeenNext == TablesOK' /\ BootMapCurrent' =>
                          Seen' = Map!View(Selected', bootMapped')
  BY ViewOfTable, TableShownNext DEF TablesOK, Seen, Selected

LEMMA SelectRefines ==
  ASSUME IInv, IInv', NEW b \in 1..3, NEW ram \in BOOLEAN, NEW page,
         Entry(ram, page) \in Bank, ChangePage(b, ram, page)
  PROVE  \E p \in PageIds : Map!Select(b, p)
  <1>1. normal' = [normal EXCEPT ![b] = Entry(ram, page)] /\ bootMapped' = bootMapped
    BY DEF ChangePage
  <1>2. PageId(Entry(ram, page)) \in PageIds
    BY PageIdType
  <1>3. Selected' = [Selected EXCEPT ![b] = PageId(Entry(ram, page))]
    BY <1>1 DEF Selected, IInv, TypeOK, TablesOK, Banks
  <1> QED BY <1>1, <1>2, <1>3 DEF Map!Select

\* Writing a paging port selects a page for its bank.
LEMMA PortsRefine ==
  ASSUME IInv, IInv', NEW v \in PortBytes,
         OutPort6(v) \/ OutPort7(v) \/ OutPort5(v.low)
  PROVE  \E b \in 1..3, p \in PageIds : Map!Select(b, p)
  <1>0. TypeOK /\ v.ram \in BOOLEAN
    BY PortByteType DEF IInv, Latch
  <1>1. CASE OutPort6(v)
    <2> DEFINE page == DecodedPage(v, IF SE THEN port0E ELSE 0)
    <2>1. ChangePage(1, v.ram, page) /\ Entry(v.ram, page) \in Bank
      BY <1>0, <1>1, PortPageExists DEF OutPort6
    <2> HIDE DEF page
    <2> QED BY <1>0, <2>1, SelectRefines
  <1>2. CASE OutPort7(v)
    <2> DEFINE page == DecodedPage(v, IF SE THEN port0F ELSE 0)
    <2>1. ChangePage(2, v.ram, page) /\ Entry(v.ram, page) \in Bank
      BY <1>0, <1>2, PortPageExists DEF OutPort7
    <2> HIDE DEF page
    <2> QED BY <1>0, <2>1, SelectRefines
  <1>3. CASE OutPort5(v.low)
    <2> DEFINE page == v.low % RamPages
               ram == TRUE
    <2>1. /\ ChangePage(3, ram, page) /\ Entry(ram, page) \in Bank
          /\ ram \in BOOLEAN
      BY <1>0, <1>3, PortPageExists DEF OutPort5
    <2> HIDE DEF page, ram
    <2> QED BY <2>1, SelectRefines
  <1> QED BY <1>1, <1>2, <1>3

LEMMA ExtensionsRefine ==
  ASSUME IInv, IInv', NEW e \in Extensions, OutPort0E(e) \/ OutPort0F(e)
  PROVE  \E b \in 1..3, p \in PageIds : Map!Select(b, p)
  <1>0. /\ port06 \in Latch /\ port07 \in Latch /\ e \in 0..3
        /\ port06.ram \in BOOLEAN /\ port07.ram \in BOOLEAN
    BY PortBytesAssumption DEF IInv, TypeOK, Latch
  <1>1. CASE OutPort0E(e)
    <2>1. /\ ChangePage(1, port06.ram, DecodedPage(port06, e))
          /\ Entry(port06.ram, DecodedPage(port06, e)) \in Bank
      BY <1>0, <1>1, DecodedExists DEF OutPort0E
    <2> QED BY <1>0, <2>1, SelectRefines
  <1>2. CASE OutPort0F(e)
    <2>1. /\ ChangePage(2, port07.ram, DecodedPage(port07, e))
          /\ Entry(port07.ram, DecodedPage(port07, e)) \in Bank
      BY <1>0, <1>2, DecodedExists DEF OutPort0F
    <2> QED BY <1>0, <2>1, SelectRefines
  <1> QED BY <1>1, <1>2

LEMMA FetchRefines ==
  ASSUME IInv, NEW b \in Banks, NEW next \in Banks, Fetch(b, next)
  PROVE  Map!LeaveBoot \/ UNCHANGED <<Selected, bootMapped>>
  <1>0. normal \in [Banks -> Bank] /\ 0 \in Banks
    BY DEF IInv, TypeOK, TablesOK, Banks
  <1>1. ChangePage(0, FALSE, 0) \/ UNCHANGED mem
    BY DEF Fetch
  <1>2. CASE ChangePage(0, FALSE, 0)
    <2>1. /\ normal' = [normal EXCEPT ![0] = Flash(0, FALSE)]
          /\ bootMapped' = bootMapped
      BY <1>2, FirstPageEntry DEF ChangePage
    <2>2. Selected' = [Selected EXCEPT ![0] = [ram |-> FALSE, page |-> 0]]
      BY <1>0, <2>1 DEF Selected, PageId, Flash, Banks
    <2> QED BY <2>1, <2>2 DEF Map!LeaveBoot
  <1>3. CASE UNCHANGED mem
    BY <1>3 DEF mem, Selected
  <1> QED BY <1>1, <1>2, <1>3

LEMMA ResetRefines ==
  ASSUME IInv', Reset
  PROVE  Map!PowerOn
  <1>1. Selected' \in [0..3 -> PageIds]
    BY PageIdType DEF IInv, TypeOK, TablesOK, Selected, Banks
  <1>2. Selected'[0] = [ram |-> FALSE, page |-> BootPage]
    BY DEF Reset, ResetTable, Selected, PageId, Flash, Banks
  <1> QED BY <1>1, <1>2 DEF Reset, Map!PowerOn

LEMMA StepRefines ==
  ASSUME IInv, IInv', [Next]_vars
  PROVE  [Map!MapNext]_(Map!mapVars)
  <1>0. /\ TablesOK /\ BootMapCurrent /\ TablesOK' /\ BootMapCurrent'
    BY DEF IInv, TypeOK
  <1>1. Seen' = Map!View(Selected', bootMapped')
    BY <1>0, ViewIsSeenNext
  <1>2. CASE \/ \E b \in 1..3, p \in PageIds : Map!Select(b, p)
             \/ Map!LeaveBoot
             \/ \E on \in BOOLEAN : Map!SetBootView(on)
             \/ Map!PowerOn
    BY <1>1, <1>2 DEF Map!MapNext
  <1>3. CASE UNCHANGED <<Selected, bootMapped>>
    <2>1. Seen' = Seen
      BY <1>0, <1>1, <1>3, ViewIsSeen
    <2> QED BY <1>3, <2>1 DEF Map!mapVars
  <1>4. CASE \E b \in Banks, next \in Banks : Fetch(b, next)
    BY <1>2, <1>3, <1>4, FetchRefines
  <1>5. CASE \E v \in PortBytes : OutPort6(v) \/ OutPort7(v) \/ OutPort5(v.low)
    BY <1>2, <1>5, PortsRefine
  <1>6. CASE \E e \in Extensions : OutPort0E(e) \/ OutPort0F(e)
    BY <1>2, <1>6, ExtensionsRefine
  <1>7. CASE \E x \in BOOLEAN : OutPort4(x)
    <2>1. \E x \in BOOLEAN : Map!SetBootView(x)
      BY <1>7 DEF OutPort4, Selected, Map!SetBootView
    <2> QED BY <1>2, <2>1
  <1>8. CASE \E x \in BOOLEAN : OutPort14(x)
    BY <1>3, <1>8 DEF OutPort14, mem, Selected
  <1>9. CASE Reset
    BY <1>2, <1>9, ResetRefines
  <1>10. CASE Restart \/ UNCHANGED vars
    BY <1>3, <1>10 DEF Restart, vars, Selected
  <1> QED BY <1>4, <1>5, <1>6, <1>7, <1>8, <1>9, <1>10 DEF Next

LEMMA InitRefines == Init => Map!MapInit
  <1> SUFFICES ASSUME Init PROVE Map!MapInit
    OBVIOUS
  <1>1. TablesOK /\ BootMapCurrent
    BY InitIInv DEF IInv, TypeOK
  <1> QED BY <1>1, SelectedType, ViewIsSeen DEF Init, Map!MapInit

\* The bank tables, the latches and the pointer implement the abstract mapper:
\* the processor always sees the pages that were selected.
THEOREM Refinement == Spec => ImplementsPageMap
  <1>1. Spec => []IInv
    BY Invariance
  <1>2. IInv /\ IInv' /\ [Next]_vars => [Map!MapNext]_(Map!mapVars)
    BY StepRefines
  <1> QED BY <1>1, <1>2, InitRefines, PTL DEF Spec, ImplementsPageMap, Map!MapSpec
=============================================================================
