---------------------------- MODULE DevicesProofs ----------------------------
(***************************************************************************)
(* What TLAPS proves of the devices: of the timers and the ON key for all  *)
(* frequencies, periods, durations of an instruction and clocks, of the    *)
(* queue of the grey scale for all heights and numbers of shades, of the   *)
(* words of the display for all its sizes, of the bytes on the wires of    *)
(* the link for all packets, answers and programs, and of the save files   *)
(* for all sizes of memory and of the list of interrupts.                  *)
(***************************************************************************)
EXTENDS MCDevices, TLAPS, SequenceTheorems, WellFoundedInduction

(***************************************************************************)
(* Multiples.                                                              *)
(***************************************************************************)
IsMultiple(a, n) == \E k \in Int : a = n * k

LEMMA IntDivision == \A x \in Int, n \in Nat \ {0} :
                        /\ x = n * (x \div n) + (x % n)
                        /\ x \div n \in Int /\ x % n \in 0..(n - 1)
OBVIOUS

LEMMA NoSmallMultiple == \A n \in Nat \ {0}, k \in Int : k >= 1 => n * k >= n
OBVIOUS

LEMMA MultipleLeavesNothing ==
  ASSUME NEW a \in Int, NEW n \in Nat \ {0}
  PROVE  a % n = 0 <=> IsMultiple(a, n)
<1> DEFINE q == a \div n
           r == a % n
<1>1. q \in Int /\ r \in 0..(n - 1) /\ a = n * q + r
  BY IntDivision
<1> HIDE DEF q, r
<1>2. ASSUME r = 0 PROVE IsMultiple(a, n)
  BY <1>1, <1>2 DEF IsMultiple
<1>3. ASSUME NEW k \in Int, a = n * k PROVE r = 0
  <2>1. n * (k - q) = r
    BY <1>1, <1>3
  <2>2. k - q \in Int /\ q - k \in Int /\ n * (q - k) = -r
    BY <1>1, <1>3
  <2>3. ~(k - q >= 1) /\ ~(q - k >= 1)
    BY <1>1, <2>1, <2>2, NoSmallMultiple
  <2>4. k = q
    BY <1>1, <2>2, <2>3
  <2> QED BY <1>1, <1>3, <2>4
<1> QED BY <1>2, <1>3 DEF r, IsMultiple

LEMMA SumOfMultiples ==
  ASSUME NEW a \in Int, NEW b \in Int, NEW n \in Nat, IsMultiple(a, n), IsMultiple(b, n)
  PROVE  IsMultiple(a + b, n) /\ IsMultiple(a - b, n)
<1>1. PICK k \in Int : a = n * k
  BY DEF IsMultiple
<1>2. PICK j \in Int : b = n * j
  BY DEF IsMultiple
<1>3. k + j \in Int /\ a + b = n * (k + j)
  BY <1>1, <1>2
<1>4. k - j \in Int /\ a - b = n * (k - j)
  BY <1>1, <1>2
<1> QED BY <1>3, <1>4 DEF IsMultiple

LEMMA MultipleOfDouble ==
  ASSUME NEW a \in Int, NEW n \in Nat, IsMultiple(a, 4 * n)
  PROVE  IsMultiple(a, 2 * n)
<1>1. PICK k \in Int : a = (4 * n) * k
  BY DEF IsMultiple
<1>2. 2 * k \in Int /\ a = (2 * n) * (2 * k)
  BY <1>1
<1> QED BY <1>2 DEF IsMultiple

(***************************************************************************)
(* The two standard timers.                                                *)
(***************************************************************************)
LEMMA Periods ==
  ASSUME NEW r \in Rates
  PROVE  /\ Quarter[r] \in Nat \ {0} /\ Common \in Nat \ {0} /\ 4 * Quarter[r] <= Common
         /\ IsMultiple(Common, 2 * Quarter[r])
<1>1. Quarter[r] \in Nat \ {0} /\ Common \in Nat \ {0} /\ Common % (4 * Quarter[r]) = 0
  BY QuarterAssumption DEF I!QuarterOK
<1>2. IsMultiple(Common, 4 * Quarter[r])
  BY <1>1, MultipleLeavesNothing
<1>3. PICK k \in Int : Common = (4 * Quarter[r]) * k
  BY <1>2 DEF IsMultiple
<1>4. k >= 1
  <2>1. CASE k <= 0
    <3>1. 4 * Quarter[r] \in Nat /\ -k \in Nat
      BY <1>1, <2>1
    <3>2. (4 * Quarter[r]) * (-k) \in Nat
      BY <3>1
    <3>3. (4 * Quarter[r]) * (-k) = -Common
      BY <1>1, <1>3
    <3> QED BY <1>1, <3>2, <3>3
  <2> QED BY <2>1
<1>5. 4 * Quarter[r] <= Common
  BY <1>1, <1>3, <1>4, NoSmallMultiple
<1> QED BY <1>1, <1>2, <1>5, MultipleOfDouble

(* A timer that is caught up loses whole periods, and no more than one is left. *)
LEMMA CaughtByPeriods ==
  ASSUME NEW s \in Int, NEW max \in Nat \ {0}
  PROVE  /\ I!Caught(s, max) \in Int /\ I!Caught(s, max) <= max
         /\ IsMultiple(s - I!Caught(s, max), max)
<1> DEFINE q == (s - 1) \div max
           r == (s - 1) % max
<1>1. q \in Int /\ r \in 0..(max - 1) /\ s - 1 = max * q + r
  BY IntDivision
<1>2. I!Caught(s, max) = IF s > max THEN 1 + r ELSE s
  BY DEF I!Caught
<1> HIDE DEF q, r
<1>3. CASE s > max
  <2>1. s - (1 + r) = max * q
    BY <1>1
  <2> QED BY <1>1, <1>2, <1>3, <2>1 DEF IsMultiple
<1>4. CASE ~(s > max)
  <2>1. s - s = max * 0
    OBVIOUS
  <2> QED BY <1>2, <1>4, <2>1 DEF IsMultiple
<1> QED BY <1>3, <1>4

LEMMA CutByCommon ==
  ASSUME NEW s \in Int
  PROVE  I!Cut(s) \in Int /\ (I!Cut(s) = s \/ I!Cut(s) = s - Common)
BY QuarterAssumption DEF I!Cut, I!QuarterOK

(* The fields of the machine, and its second timer a quarter behind the first. *)
Machine == {"iff1", "ei_block", "halt", "interrupt", "mask", "rate", "since1", "since2", "on_pressed",
            "on_backup", "on_latch", "lcd", "xtal", "skip_count", "skip_factor",
            "enabled", "asking", "line"}
InPhase(s1, s2, q) == IsMultiple(s1 - s2 - q, 2 * q)
InTime(c) == /\ DOMAIN c = Machine /\ c.rate \in Rates /\ c.since1 \in Int /\ c.since2 \in Int
            /\ InPhase(c.since1, c.since2, Quarter[c.rate])

(* Either timer may move by whole periods of the second, or both by the same. *)
LEMMA PhaseMoves ==
  ASSUME NEW s1 \in Int, NEW s2 \in Int, NEW q \in Nat, NEW t1 \in Int, NEW t2 \in Int,
         InPhase(s1, s2, q), IsMultiple(s1 - t1, 2 * q), IsMultiple(s2 - t2, 2 * q)
  PROVE  InPhase(t1, t2, q)
<1>1. IsMultiple((s1 - s2 - q) - (s1 - t1), 2 * q)
  BY SumOfMultiples DEF InPhase
<1>2. IsMultiple((s1 - s2 - q) - (s1 - t1) + (s2 - t2), 2 * q)
  BY <1>1, SumOfMultiples
<1>3. (s1 - s2 - q) - (s1 - t1) + (s2 - t2) = t1 - t2 - q
  OBVIOUS
<1> QED BY <1>2, <1>3 DEF InPhase

LEMMA NoMove ==
  ASSUME NEW s \in Int, NEW n \in Nat
  PROVE  IsMultiple(s - s, n)
<1>1. s - s = n * 0
  OBVIOUS
<1> QED BY <1>1 DEF IsMultiple

LEMMA CaughtKeepsPhase ==
  ASSUME NEW c, InTime(c)
  PROVE  /\ InTime(I!Acknowledged1(c)) /\ I!Acknowledged1(c).since1 <= 4 * Quarter[c.rate]
         /\ I!Acknowledged1(c) = [c EXCEPT !.since1 = I!Acknowledged1(c).since1]
         /\ InTime(I!Acknowledged2(c)) /\ I!Acknowledged2(c).since2 <= 2 * Quarter[c.rate]
         /\ I!Acknowledged2(c) = [c EXCEPT !.since2 = I!Acknowledged2(c).since2]
<1> DEFINE q == Quarter[c.rate]
           t1 == I!Caught(c.since1, 4 * q)
           t2 == I!Caught(c.since2, 2 * q)
<1>1. q \in Nat \ {0} /\ c.since1 \in Int /\ c.since2 \in Int /\ InPhase(c.since1, c.since2, q)
  BY Periods DEF InTime
<1>2. I!Acknowledged1(c) = [c EXCEPT !.since1 = t1] /\ I!Acknowledged2(c) = [c EXCEPT !.since2 = t2]
  BY DEF I!Acknowledged1, I!Acknowledged2, I!Max1, I!Max2
<1> HIDE DEF q
<1>3. t1 \in Int /\ t1 <= 4 * q /\ IsMultiple(c.since1 - t1, 4 * q)
  <2>1. 4 * q \in Nat \ {0}
    BY <1>1
  <2> QED BY <1>1, <2>1, CaughtByPeriods
<1>4. t2 \in Int /\ t2 <= 2 * q /\ IsMultiple(c.since2 - t2, 2 * q)
  <2>1. 2 * q \in Nat \ {0}
    BY <1>1
  <2> QED BY <1>1, <2>1, CaughtByPeriods
<1> HIDE DEF t1, t2
<1>5. IsMultiple(c.since1 - t1, 2 * q)
  BY <1>1, <1>3, MultipleOfDouble
<1>6. InPhase(t1, c.since2, q) /\ InPhase(c.since1, t2, q)
  <2>1. 2 * q \in Nat
    BY <1>1
  <2>2. IsMultiple(c.since1 - c.since1, 2 * q) /\ IsMultiple(c.since2 - c.since2, 2 * q)
    BY <1>1, <2>1, NoMove
  <2>3. InPhase(t1, c.since2, q)
    BY <1>1, <1>3, <1>5, <2>2, PhaseMoves
  <2>4. InPhase(c.since1, t2, q)
    BY <1>1, <1>4, <2>2, PhaseMoves
  <2> QED BY <2>3, <2>4
<1> QED BY <1>1, <1>2, <1>3, <1>4, <1>6 DEF InTime, Machine, q

(* The standard timers as every poll leaves them: the masked ones caught up. *)
LEMMA TickingKeeps ==
  ASSUME NEW c, InTime(c), NEW x, x = I!Ticking(c)
  PROVE  /\ InTime(x) /\ \A f \in Machine \ {"since1", "since2"} : x[f] = c[f]
         /\ "t1" \notin c.mask => x.since1 <= 4 * Quarter[c.rate]
         /\ "t2" \notin c.mask => x.since2 <= 2 * Quarter[c.rate]
         /\ "t1" \in c.mask => x.since1 = c.since1
         /\ "t2" \in c.mask => x.since2 = c.since2
<1> DEFINE d == IF "t1" \in c.mask THEN c ELSE I!Acknowledged1(c)
<1>1. /\ InTime(d) /\ \A f \in Machine \ {"since1"} : d[f] = c[f]
      /\ "t1" \notin c.mask => d.since1 <= 4 * Quarter[c.rate]
      /\ "t1" \in c.mask => d.since1 = c.since1
  <2>1. CASE "t1" \in c.mask
    BY <2>1
  <2>2. CASE "t1" \notin c.mask
    <3>1. d = I!Acknowledged1(c) /\ InTime(d) /\ d = [c EXCEPT !.since1 = d.since1]
          /\ d.since1 <= 4 * Quarter[c.rate]
      BY <2>2, CaughtKeepsPhase
    <3>2. \A f \in Machine \ {"since1"} : [c EXCEPT !.since1 = d.since1][f] = c[f]
      BY DEF InTime
    <3> QED BY <2>2, <3>1, <3>2
  <2> QED BY <2>1, <2>2
<1>2. x = IF "t2" \in d.mask THEN d ELSE I!Acknowledged2(d)
  BY DEF I!Ticking
<1>3. d.mask = c.mask
  BY <1>1 DEF Machine
<1> HIDE DEF d
<1>4. CASE "t2" \in c.mask
  BY <1>1, <1>2, <1>3, <1>4 DEF Machine
<1>5. CASE "t2" \notin c.mask
  <2>1. /\ x = I!Acknowledged2(d) /\ InTime(x) /\ x = [d EXCEPT !.since2 = x.since2]
        /\ x.since2 <= 2 * Quarter[d.rate]
    BY <1>1, <1>2, <1>3, <1>5, CaughtKeepsPhase
  <2>2. \A f \in Machine \ {"since2"} : x[f] = d[f]
    <3>1. \A f \in Machine \ {"since2"} : [d EXCEPT !.since2 = x.since2][f] = d[f]
      BY <1>1 DEF InTime
    <3> QED BY <2>1, <3>1
  <2> QED BY <1>1, <1>5, <2>1, <2>2 DEF Machine
<1> QED BY <1>4, <1>5

(* What Poll3 sets besides. *)
OfPoll3 == {"since1", "since2", "on_latch", "on_backup", "lcd", "interrupt"}

LEMMA Poll3Keeps ==
  ASSUME NEW c, InTime(c), NEW x, x = I!Poll3(c), NEW t, t = I!Ticking(c)
  PROVE  /\ InTime(x) /\ \A f \in Machine \ OfPoll3 : x[f] = c[f]
         /\ "t1" \notin c.mask => x.since1 <= 4 * Quarter[c.rate]
         /\ "t2" \notin c.mask => x.since2 <= 2 * Quarter[c.rate]
         /\ x.since1 = t.since1 /\ x.since2 = t.since2
         /\ x.on_latch = (c.on_latch \/ I!OnEdge(c))
         /\ x.interrupt = (c.interrupt \/ I!Asks1(t) \/ I!Asks2(t) \/ x.on_latch)
<1>1. /\ InTime(t) /\ \A f \in Machine \ {"since1", "since2"} : t[f] = c[f]
      /\ "t1" \notin c.mask => t.since1 <= 4 * Quarter[c.rate]
      /\ "t2" \notin c.mask => t.since2 <= 2 * Quarter[c.rate]
  BY TickingKeeps
<1> DEFINE d == [t EXCEPT !.on_latch = @ \/ I!OnEdge(c), !.on_backup = c.on_pressed,
                          !.lcd = @ /\ ~("lcd" \notin c.mask /\ c.halt)]
<1>2. DOMAIN t = Machine
  BY <1>1 DEF InTime
<1>3. /\ DOMAIN d = Machine /\ d.on_latch = (c.on_latch \/ I!OnEdge(c)) /\ d.interrupt = c.interrupt
      /\ d.mask = t.mask /\ d.since1 = t.since1 /\ d.since2 = t.since2 /\ d.rate = t.rate
      /\ \A f \in Machine \ OfPoll3 : d[f] = c[f]
  BY <1>1, <1>2 DEF Machine, OfPoll3
<1>4. x = [d EXCEPT !.interrupt = @ \/ I!Asks1(d) \/ I!Asks2(d) \/ d.on_latch]
  BY DEF I!Poll3
<1> HIDE DEF d
<1>5. (I!Asks1(d) = I!Asks1(t)) /\ (I!Asks2(d) = I!Asks2(t))
  BY <1>3 DEF I!Asks1, I!Asks2, I!Max1, I!Max2
<1>6. /\ DOMAIN x = Machine /\ x.since1 = t.since1 /\ x.since2 = t.since2 /\ x.rate = t.rate
      /\ x.on_latch = d.on_latch
      /\ \A f \in Machine \ OfPoll3 : x[f] = c[f]
  BY <1>3, <1>4 DEF Machine, OfPoll3
<1>7. x.interrupt = (c.interrupt \/ I!Asks1(t) \/ I!Asks2(t) \/ x.on_latch)
  BY <1>3, <1>4, <1>5, <1>6 DEF Machine
<1>8. InTime(x)
  BY <1>1, <1>6 DEF InTime
<1> QED BY <1>1, <1>3, <1>6, <1>7, <1>8

LEMMA PollXtalKeeps ==
  ASSUME NEW c, InTime(c), NEW x, x = I!PollXtal(c)
  PROVE  InTime(x) /\ \A f \in Machine \ {"xtal", "interrupt", "skip_count"} : x[f] = c[f]
<1>1. DOMAIN c = Machine
  BY DEF InTime
<1> DEFINE d == [c EXCEPT !.xtal = [t \in Timers |-> I!Ticked(c.xtal[t])]]
           h == [d EXCEPT !.interrupt = @ \/ (~c.halt /\ \E t \in Timers : d.xtal[t].generate)]
<1>2. I!handlextal(c) = h
  BY DEF I!handlextal
<1>3. DOMAIN h = Machine /\ \A f \in Machine \ {"xtal", "interrupt"} : h[f] = c[f]
  BY <1>1 DEF Machine
<1> HIDE DEF h
<1>4. DOMAIN x = Machine /\ \A f \in Machine \ {"xtal", "interrupt", "skip_count"} : x[f] = c[f]
  <2>1. CASE (c.skip_count - 1) % Wrap = 0
    <3>1. x = [h EXCEPT !.skip_count = c.skip_factor]
      BY <1>2, <2>1 DEF I!PollXtal
    <3> QED BY <1>3, <3>1
  <2>2. CASE (c.skip_count - 1) % Wrap # 0
    <3>1. x = [c EXCEPT !.skip_count = (c.skip_count - 1) % Wrap]
      BY <2>2 DEF I!PollXtal
    <3> QED BY <1>1, <3>1
  <2> QED BY <2>1, <2>2
<1>5. x.rate = c.rate /\ x.since1 = c.since1 /\ x.since2 = c.since2
  BY <1>4 DEF Machine
<1> QED BY <1>4, <1>5 DEF InTime

LEMMA LaterKeeps ==
  ASSUME NEW c, InTime(c), NEW d \in Durations, NEW x, x = I!Later(c, d)
  PROVE  /\ InTime(x) /\ \A f \in Machine \ {"since1", "since2", "xtal"} : x[f] = c[f]
         /\ x.since1 = I!Cut(c.since1 + d) /\ x.since2 = I!Cut(c.since2 + d)
<1> DEFINE q == Quarter[c.rate]
           s1 == c.since1 + d
           s2 == c.since2 + d
<1>1. /\ DOMAIN c = Machine /\ c.rate \in Rates /\ d \in Int /\ c.since1 \in Int /\ c.since2 \in Int
      /\ InPhase(c.since1, c.since2, q) /\ q \in Nat /\ Common \in Nat
      /\ IsMultiple(Common, 2 * q)
  BY QuarterAssumption, Periods DEF InTime, I!QuarterOK
<1>2. /\ DOMAIN x = Machine /\ x.since1 = I!Cut(s1) /\ x.since2 = I!Cut(s2)
      /\ \A f \in Machine \ {"since1", "since2", "xtal"} : x[f] = c[f]
  BY <1>1 DEF I!Later, Machine
<1> HIDE DEF q
<1>3. s1 \in Int /\ s2 \in Int /\ s1 - s2 - q = c.since1 - c.since2 - q
  BY <1>1
<1>4. InPhase(s1, s2, q)
  BY <1>1, <1>3 DEF InPhase
<1> HIDE DEF s1, s2
<1>5. ASSUME NEW s \in Int PROVE I!Cut(s) \in Int /\ IsMultiple(s - I!Cut(s), 2 * q)
  <2>1. I!Cut(s) \in Int /\ (I!Cut(s) = s \/ I!Cut(s) = s - Common)
    BY <1>5, CutByCommon
  <2>2. CASE I!Cut(s) = s
    <3>1. 2 * q \in Nat
      BY <1>1
    <3> QED BY <1>5, <2>2, <3>1, NoMove
  <2>3. CASE I!Cut(s) = s - Common
    <3>1. s - I!Cut(s) = Common
      BY <1>1, <1>5, <2>3
    <3> QED BY <1>1, <2>1, <3>1
  <2> QED BY <2>1, <2>2, <2>3
<1>6. InPhase(I!Cut(s1), I!Cut(s2), q)
  BY <1>1, <1>3, <1>4, <1>5, PhaseMoves
<1>7. x.rate = c.rate
  BY <1>2 DEF Machine
<1> QED BY <1>1, <1>2, <1>3, <1>5, <1>6, <1>7 DEF InTime, q, s1, s2

LEMMA OthersInTime ==
  ASSUME NEW c, InTime(c), NEW x, DOMAIN x = Machine,
         x.rate = c.rate, x.since1 = c.since1, x.since2 = c.since2
  PROVE  InTime(x)
BY DEF InTime

LEMMA HandledKeeps ==
  ASSUME NEW c, DOMAIN c = Machine, NEW x, x = I!handle_interrupt(c)
  PROVE  DOMAIN x = Machine /\ \A f \in Machine \ {"iff1", "halt"} : x[f] = c[f]
<1>1. CASE c.interrupt /\ ~c.ei_block /\ c.iff1
  <2>1. x = [c EXCEPT !.iff1 = FALSE, !.halt = FALSE]
    BY <1>1 DEF I!handle_interrupt
  <2> QED BY <2>1
<1>2. CASE ~(c.interrupt /\ ~c.ei_block /\ c.iff1)
  <2>1. x = c
    BY <1>2 DEF I!handle_interrupt
  <2> QED BY <2>1
<1> QED BY <1>1, <1>2

(* The crystal timers leave the standard ones alone. *)
LEMMA XtalInTime ==
  ASSUME NEW c, InTime(c), NEW t, NEW timer, NEW n
  PROVE  /\ InTime(I!handlextal(c)) /\ InTime(I!mod_timer(c))
         /\ InTime([c EXCEPT !.xtal[t] = timer])
<1>1. DOMAIN c = Machine
  BY DEF InTime
<1>2. InTime(I!handlextal(c))
  <2> DEFINE d == [c EXCEPT !.xtal = [u \in Timers |-> I!Ticked(c.xtal[u])]]
             h == [d EXCEPT !.interrupt = @ \/ (~c.halt /\ \E u \in Timers : d.xtal[u].generate)]
  <2>1. I!handlextal(c) = h
    BY DEF I!handlextal
  <2>2. DOMAIN h = Machine /\ h.rate = c.rate /\ h.since1 = c.since1 /\ h.since2 = c.since2
    BY <1>1 DEF Machine
  <2> HIDE DEF h
  <2> QED BY <2>1, <2>2, OthersInTime
<1>3. InTime(I!mod_timer(c))
  <2> DEFINE x == I!mod_timer(c)
  <2>1. DOMAIN x = Machine /\ x.rate = c.rate /\ x.since1 = c.since1 /\ x.since2 = c.since2
    BY <1>1 DEF Machine, I!mod_timer
  <2> HIDE DEF x
  <2>2. InTime(x)
    BY <2>1, OthersInTime
  <2> QED BY <2>2 DEF x
<1>4. InTime([c EXCEPT !.xtal[t] = timer])
  <2> DEFINE x == [c EXCEPT !.xtal[t] = timer]
  <2>1. DOMAIN x = Machine /\ x.rate = c.rate /\ x.since1 = c.since1 /\ x.since2 = c.since2
    BY <1>1 DEF Machine
  <2> HIDE DEF x
  <2>2. InTime(x)
    BY <2>1, OthersInTime
  <2> QED BY <2>2 DEF x
<1> QED BY <1>2, <1>3, <1>4

(***************************************************************************)
(* Who asks for an interrupt.                                              *)
(***************************************************************************)
XtalFields == {"clock", "count", "max", "loop", "interrupt", "underflow", "generate", "active", "behind"}
Running(t) == /\ DOMAIN t = XtalFields /\ t.clock.divisor \in Nat \ {0} /\ t.behind \in Int
              /\ t.active \in BOOLEAN /\ (t.generate => t.underflow)

(* A recursive function of the model is one: each of its values follows from the one before. *)
LEMMA CountedByIsThere ==
  ASSUME NEW t
  PROVE  \A n \in Nat : \E f : f = [k \in 0..n |-> IF k = 0 THEN t ELSE I!Counted(f[k - 1])]
<1> DEFINE There(n) == \E f : f = [k \in 0..n |-> IF k = 0 THEN t ELSE I!Counted(f[k - 1])]
           Missing == {n \in Nat : ~There(n)}
<1>1. There(0)
  <2> DEFINE f == [k \in 0..0 |-> t]
  <2>1. f = [k \in 0..0 |-> IF k = 0 THEN t ELSE I!Counted(f[k - 1])]
    OBVIOUS
  <2> QED BY <2>1
<1>2. ASSUME NEW n \in Nat, There(n) PROVE There(n + 1)
  <2>1. PICK f : f = [k \in 0..n |-> IF k = 0 THEN t ELSE I!Counted(f[k - 1])]
    BY <1>2
  <2> DEFINE g == [k \in 0..(n + 1) |-> IF k <= n THEN f[k] ELSE I!Counted(f[n])]
  <2>2. ASSUME NEW k \in 0..(n + 1) PROVE g[k] = IF k = 0 THEN t ELSE I!Counted(g[k - 1])
    <3>1. CASE k = 0
      <4>1. f[0] = t
        BY <2>1
      <4> QED BY <3>1, <4>1
    <3>2. CASE k # 0 /\ k <= n
      <4>1. f[k] = I!Counted(f[k - 1])
        BY <2>1, <3>2
      <4>2. k - 1 \in 0..(n + 1) /\ k - 1 <= n
        BY <3>2
      <4> QED BY <3>2, <4>1, <4>2
    <3>3. CASE k = n + 1
      <4>1. k - 1 = n /\ n \in 0..(n + 1) /\ ~(n + 1 <= n)
        BY <3>3
      <4> QED BY <3>3, <4>1
    <3> QED BY <3>1, <3>2, <3>3
  <2>3. g = [k \in 0..(n + 1) |-> IF k = 0 THEN t ELSE I!Counted(g[k - 1])]
    BY <2>2
  <2> QED BY <2>3
<1> HIDE DEF There
<1>3. CASE Missing # {}
  <2>1. PICK n \in Missing : \A m \in Missing : <<m, n>> \notin OpToRel(<, Nat)
    BY <1>3, WFMin, NatLessThanWellFounded
  <2>2. n \in Nat /\ n # 0 /\ n - 1 \in Nat /\ ~There(n)
    <3>1. n \in Nat /\ ~There(n)
      BY <2>1
    <3>2. n # 0
      BY <1>1, <3>1, Zenon
    <3> QED BY <3>1, <3>2
  <2>3. <<n - 1, n>> \in OpToRel(<, Nat)
    <3>1. <<n - 1, n>> \in Nat \X Nat /\ n - 1 < n
      BY <2>2
    <3> QED BY <2>2, <3>1, Zenon DEF OpToRel
  <2>4. There(n - 1)
    BY <2>1, <2>2, <2>3
  <2>5. There((n - 1) + 1)
    BY <1>2, <2>2, <2>4
  <2>6. (n - 1) + 1 = n
    BY <2>2
  <2> QED BY <2>2, <2>5, <2>6
<1>4. CASE Missing = {}
  BY <1>4 DEF There
<1> QED BY <1>3, <1>4

(* One tick, and any number of them: no underflow is lost, and none is not shown. *)
LEMMA CountedKeeps ==
  ASSUME NEW t, Running(t), NEW x, x = I!Counted(t)
  PROVE  /\ Running(x) /\ (t.underflow => x.underflow)
         /\ x.clock = t.clock /\ x.behind = t.behind
BY DEF Running, XtalFields, I!Counted

LEMMA CountedByKeeps ==
  ASSUME NEW t, Running(t), NEW n \in Nat, NEW x, x = I!CountedBy(t, n)
  PROVE  /\ Running(x) /\ (t.underflow => x.underflow)
         /\ x.clock = t.clock /\ x.behind = t.behind
<1> DEFINE IsAfter(f) == f = [k \in 0..n |-> IF k = 0 THEN t ELSE I!Counted(f[k - 1])]
           after == CHOOSE f : IsAfter(f)
<1>1. x = after[n]
  BY DEF I!CountedBy
<1>2. IsAfter(after)
  <2>1. \E f : IsAfter(f)
    BY CountedByIsThere
  <2> QED BY <2>1
<1>3. after[0] = t /\ \A k \in 1..n : after[k] = I!Counted(after[k - 1])
  <2>1. \A k \in 0..n : after[k] = IF k = 0 THEN t ELSE I!Counted(after[k - 1])
    BY <1>2
  <2> HIDE DEF after
  <2> QED BY <2>1
<1> HIDE DEF after, IsAfter
<1> DEFINE Kept(k) == /\ Running(after[k]) /\ (t.underflow => after[k].underflow)
                      /\ after[k].clock = t.clock /\ after[k].behind = t.behind
           Wrong == {k \in 0..n : ~Kept(k)}
<1>4. ASSUME NEW k \in 1..n, Kept(k - 1) PROVE Kept(k)
  BY <1>3, <1>4, CountedKeeps
<1>5. Kept(0)
  BY <1>3
<1> HIDE DEF Kept
<1>6. CASE Wrong # {}
  <2>1. Wrong \subseteq Nat
    OBVIOUS
  <2>2. PICK k \in Wrong : \A m \in Wrong : <<m, k>> \notin OpToRel(<, Nat)
    BY <1>6, <2>1, WFMin, NatLessThanWellFounded
  <2>3. k \in 1..n /\ k - 1 \in 0..n /\ ~Kept(k)
    <3>1. k \in 0..n /\ ~Kept(k)
      BY <2>2
    <3>2. k # 0
      BY <1>5, <3>1, Zenon
    <3> QED BY <3>1, <3>2
  <2>4. <<k - 1, k>> \in OpToRel(<, Nat)
    <3>1. <<k - 1, k>> \in Nat \X Nat /\ k - 1 < k
      BY <2>3
    <3>2. k - 1 \in Nat /\ k \in Nat
      BY <2>3
    <3> QED BY <3>1, <3>2, Zenon DEF OpToRel
  <2>5. Kept(k - 1)
    BY <2>2, <2>3, <2>4
  <2> QED BY <1>4, <2>3, <2>5
<1>7. CASE Wrong = {}
  <2>1. Kept(n)
    BY <1>7
  <2> QED BY <1>1, <2>1 DEF Kept
<1> QED BY <1>6, <1>7

LEMMA TickedKeeps ==
  ASSUME NEW t, Running(t), NEW x, x = I!Ticked(t)
  PROVE  Running(x) /\ (t.underflow => x.underflow)
<1> DEFINE n == I!Due(t)
           after == I!CountedBy(t, n)
<1>1. n \in Nat
  <2>1. CASE ~(t.behind > t.clock.divisor)
    BY <2>1 DEF I!Due
  <2>2. CASE t.behind > t.clock.divisor
    <3> DEFINE m == (t.behind - 1) \div t.clock.divisor
    <3>1. t.clock.divisor \in Nat \ {0} /\ t.behind - 1 \in Nat
      BY <2>2 DEF Running
    <3>2. m \in Nat
      BY <3>1
    <3>3. n = 1 \/ n = m
      BY <2>2 DEF I!Due
    <3> HIDE DEF m
    <3> QED BY <3>2, <3>3
  <2> QED BY <2>1, <2>2
<1>2. /\ Running(after) /\ (t.underflow => after.underflow)
      /\ after.clock = t.clock /\ after.behind = t.behind
  BY <1>1, CountedByKeeps
<1>3. CASE t.active = FALSE
  <2>1. x = t
    BY <1>3 DEF I!Ticked
  <2> QED BY <2>1
<1>4. CASE t.active = TRUE
  <2> DEFINE behind == IF after.active THEN t.behind - n * t.clock.divisor ELSE 0
  <2>1. x = [after EXCEPT !.behind = behind]
    BY <1>2, <1>4 DEF I!Ticked
  <2>2. behind \in Int
    BY <1>1 DEF Running
  <2> HIDE DEF after, behind
  <2> QED BY <1>2, <2>1, <2>2 DEF Running, XtalFields
<1> QED BY <1>3, <1>4 DEF Running

XtalInv(c) == DOMAIN c.xtal = Timers /\ \A t \in Timers : Running(c.xtal[t])
Seen(c, a) == c.interrupt => I!Status(c) # {} \/ a # {} \/ c.line = "asks"

(* The machine before the assist is polled, when no flag of it can be why an interrupt *)
(* is asked for, and afterwards.                                                       *)
Sound(c) == InTime(c) /\ XtalInv(c) /\ Seen(c, {})
Shown(c) == InTime(c) /\ XtalInv(c) /\ Seen(c, c.asking)

(* A step that leaves alone who asks, or adds to them, and asks for no new interrupt. *)
LEMMA StatusGrows ==
  ASSUME NEW c, NEW x, NEW a, Seen(c, a), x.interrupt => c.interrupt, c.on_latch => x.on_latch,
         I!Asks1(c) => I!Asks1(x), I!Asks2(c) => I!Asks2(x), x.line = c.line,
         \A t \in Timers : c.xtal[t].underflow => x.xtal[t].underflow
  PROVE  Seen(x, a)
<1>1. I!Status(c) \subseteq I!Status(x)
  BY DEF I!Status
<1> QED BY <1>1 DEF Seen

LEMMA handlextalShows ==
  ASSUME NEW c, Sound(c), NEW x, x = I!handlextal(c)
  PROVE  Sound(x)
<1> DEFINE d == [c EXCEPT !.xtal = [t \in Timers |-> I!Ticked(c.xtal[t])]]
<1>1. DOMAIN c = Machine /\ InTime(c) /\ XtalInv(c)
  BY DEF Sound, InTime
<1>2. /\ DOMAIN d = Machine /\ d.xtal = [t \in Timers |-> I!Ticked(c.xtal[t])]
      /\ \A f \in Machine \ {"xtal"} : d[f] = c[f]
  BY <1>1 DEF Machine
<1>3. x = [d EXCEPT !.interrupt = @ \/ (~c.halt /\ \E t \in Timers : d.xtal[t].generate)]
  BY DEF I!handlextal
<1> HIDE DEF d
<1>4. /\ DOMAIN x = Machine /\ x.xtal = d.xtal
      /\ \A f \in Machine \ {"xtal", "interrupt"} : x[f] = c[f]
      /\ x.interrupt => c.interrupt \/ \E t \in Timers : x.xtal[t].generate
  BY <1>2, <1>3 DEF Machine
<1>5. XtalInv(x) /\ \A t \in Timers : c.xtal[t].underflow => x.xtal[t].underflow
  <2>1. x.xtal = [t \in Timers |-> I!Ticked(c.xtal[t])]
    BY <1>2, <1>4
  <2>2. \A t \in Timers : Running(I!Ticked(c.xtal[t]))
                            /\ (c.xtal[t].underflow => I!Ticked(c.xtal[t]).underflow)
    BY <1>1, TickedKeeps DEF XtalInv
  <2> QED BY <2>1, <2>2 DEF XtalInv
<1>6. InTime(x)
  BY <1>1, XtalInTime
<1>7. Seen(x, {})
  <2>1. CASE \E t \in Timers : x.xtal[t].generate
    <3>1. PICK t \in Timers : x.xtal[t].generate
      BY <2>1
    <3>2. x.xtal[t].underflow
      BY <1>5, <3>1 DEF XtalInv, Running
    <3> QED BY <3>2 DEF Seen, I!Status
  <2>2. CASE ~\E t \in Timers : x.xtal[t].generate
    <3>1. /\ x.on_latch = c.on_latch /\ x.mask = c.mask /\ x.rate = c.rate
          /\ x.since1 = c.since1 /\ x.since2 = c.since2
          /\ x.line = c.line
      BY <1>4 DEF Machine
    <3>2. (I!Asks1(c) => I!Asks1(x)) /\ (I!Asks2(c) => I!Asks2(x))
      BY <3>1 DEF I!Asks1, I!Asks2, I!Max1, I!Max2
    <3>3. x.interrupt => c.interrupt
      BY <1>4, <2>2
    <3> QED BY <1>5, <3>1, <3>2, <3>3, StatusGrows DEF Sound
  <2> QED BY <2>1, <2>2
<1> QED BY <1>5, <1>6, <1>7 DEF Sound

LEMMA PollXtalShows ==
  ASSUME NEW c, Sound(c), NEW x, x = I!PollXtal(c)
  PROVE  Sound(x)
<1> DEFINE h == I!handlextal(c)
           left == (c.skip_count - 1) % Wrap
<1>1. Sound(h)
  BY handlextalShows DEF Sound
<1>2. DOMAIN c = Machine /\ DOMAIN h = Machine
  BY <1>1 DEF Sound, InTime
<1>3. \/ x = [h EXCEPT !.skip_count = c.skip_factor]
      \/ x = [c EXCEPT !.skip_count = left]
  BY DEF I!PollXtal
<1> HIDE DEF h, left
<1>4. ASSUME NEW e, Sound(e), NEW n, x = [e EXCEPT !.skip_count = n]
      PROVE  Sound(x)
  <2>1. DOMAIN e = Machine
    BY <1>4 DEF Sound, InTime
  <2>2. /\ DOMAIN x = Machine /\ x.xtal = e.xtal /\ x.interrupt = e.interrupt
        /\ x.on_latch = e.on_latch /\ x.mask = e.mask /\ x.rate = e.rate
        /\ x.since1 = e.since1 /\ x.since2 = e.since2
        /\ x.line = e.line
    BY <1>4, <2>1 DEF Machine
  <2>3. InTime(x) /\ XtalInv(x)
    BY <1>4, <2>2, OthersInTime DEF Sound, XtalInv
  <2>4. I!Status(x) = I!Status(e)
    BY <2>2 DEF I!Status, I!Asks1, I!Asks2, I!Max1, I!Max2
  <2> QED BY <1>4, <2>2, <2>3, <2>4 DEF Sound, Seen
<1> QED BY <1>1, <1>3, <1>4

(* A poll of the assist asks with a flag that port 9 shows. *)
LEMMA PollAssistIs ==
  ASSUME NEW c, DOMAIN c = Machine, NEW x \in I!PollAssist(c)
  PROVE  /\ DOMAIN x = Machine /\ \A f \in Machine \ {"asking", "interrupt"} : x[f] = c[f]
         /\ x.asking # {} \/ (x.interrupt => c.interrupt)
<1>1. CASE x = c
  BY <1>1
<1>2. ASSUME NEW s, x = [c EXCEPT !.asking = s, !.interrupt = @ \/ s # {}]
      PROVE  /\ DOMAIN x = Machine /\ \A f \in Machine \ {"asking", "interrupt"} : x[f] = c[f]
             /\ x.asking = s /\ (x.interrupt <=> c.interrupt \/ s # {})
  BY <1>2 DEF Machine
<1>3. x = c \/ \E s : x = [c EXCEPT !.asking = s, !.interrupt = @ \/ s # {}]
  BY DEF I!PollAssist
<1> QED BY <1>1, <1>2, <1>3

LEMMA Poll3Shows ==
  ASSUME NEW c, InTime(c), XtalInv(c), NEW a, Seen(c, a), NEW x, x = I!Poll3(c)
  PROVE  InTime(x) /\ XtalInv(x) /\ Seen(x, a)
<1> DEFINE t == I!Ticking(c)
<1>1. /\ InTime(t) /\ \A f \in Machine \ {"since1", "since2"} : t[f] = c[f]
      /\ "t1" \in c.mask => t.since1 = c.since1
      /\ "t2" \in c.mask => t.since2 = c.since2
  BY TickingKeeps
<1>2. /\ InTime(x) /\ \A f \in Machine \ OfPoll3 : x[f] = c[f]
      /\ x.since1 = t.since1 /\ x.since2 = t.since2
      /\ x.on_latch = (c.on_latch \/ I!OnEdge(c))
      /\ x.interrupt = (c.interrupt \/ I!Asks1(t) \/ I!Asks2(t) \/ x.on_latch)
  BY Poll3Keeps
<1> HIDE DEF t
<1>3. /\ x.mask = c.mask /\ t.mask = c.mask /\ x.rate = c.rate /\ t.rate = c.rate /\ x.xtal = c.xtal
      /\ x.line = c.line
  BY <1>1, <1>2 DEF Machine, OfPoll3
<1>4. /\ I!Asks1(t) = I!Asks1(x) /\ I!Asks2(t) = I!Asks2(x)
      /\ (I!Asks1(c) => I!Asks1(x)) /\ (I!Asks2(c) => I!Asks2(x))
  BY <1>1, <1>2, <1>3 DEF I!Asks1, I!Asks2, I!Max1, I!Max2
<1>5. XtalInv(x)
  BY <1>3 DEF XtalInv
<1>6. Seen(x, a)
  <2>1. CASE x.on_latch \/ I!Asks1(x) \/ I!Asks2(x)
    BY <2>1 DEF Seen, I!Status
  <2>2. CASE ~(x.on_latch \/ I!Asks1(x) \/ I!Asks2(x))
    <3>1. x.interrupt => c.interrupt
      BY <1>2, <1>4, <2>2
    <3>2. c.on_latch => x.on_latch
      BY <1>2
    <3> QED BY <1>3, <1>4, <3>1, <3>2, StatusGrows
  <2> QED BY <2>1, <2>2
<1> QED BY <1>2, <1>5, <1>6

(* Time that passes hides no tick: what is cut is less than what has passed. *)
LEMMA LaterShows ==
  ASSUME NEW c, Sound(c), NEW d \in Durations, NEW x, x = I!Later(c, d)
  PROVE  Sound(x)
<1>1. /\ InTime(x) /\ \A f \in Machine \ {"since1", "since2", "xtal"} : x[f] = c[f]
      /\ x.since1 = I!Cut(c.since1 + d) /\ x.since2 = I!Cut(c.since2 + d)
  BY LaterKeeps DEF Sound
<1>2. /\ x.mask = c.mask /\ x.rate = c.rate /\ x.interrupt = c.interrupt /\ x.on_latch = c.on_latch
      /\ x.line = c.line
  BY <1>1 DEF Machine
<1>3. x.xtal = [t \in Timers |-> IF c.xtal[t].active THEN [c.xtal[t] EXCEPT !.behind = @ + d]
                                 ELSE c.xtal[t]]
  BY DEF Sound, InTime, Machine, I!Later
<1>4. d \in Nat
  BY QuarterAssumption DEF I!QuarterOK
<1>5. XtalInv(x) /\ \A t \in Timers : x.xtal[t].underflow = c.xtal[t].underflow
  BY <1>3, <1>4 DEF Sound, XtalInv, Running, XtalFields
<1>6. (I!Asks1(c) => I!Asks1(x)) /\ (I!Asks2(c) => I!Asks2(x))
  <2> DEFINE q == Quarter[c.rate]
  <2>1. q \in Nat \ {0} /\ Common \in Nat /\ 4 * q <= Common /\ c.since1 \in Int /\ c.since2 \in Int
    BY Periods DEF Sound, InTime
  <2> HIDE DEF q
  <2>2. /\ c.since1 > 4 * q => I!Cut(c.since1 + d) > 4 * q
        /\ c.since2 > 2 * q => I!Cut(c.since2 + d) > 2 * q
    BY <1>4, <2>1 DEF I!Cut
  <2> QED BY <1>1, <1>2, <2>2 DEF I!Asks1, I!Asks2, I!Max1, I!Max2, q
<1>7. Seen(x, {})
  BY <1>2, <1>5, <1>6, StatusGrows DEF Sound
<1> QED BY <1>1, <1>5, <1>7 DEF Sound

(***************************************************************************)
(* The steps of the machine.                                               *)
(***************************************************************************)
(* Between two instructions the masked timers are caught up. *)
TimerInv(c) == /\ Shown(c)
               /\ "t1" \notin c.mask => c.since1 <= 4 * Quarter[c.rate]
               /\ "t2" \notin c.mask => c.since2 <= 2 * Quarter[c.rate]

(* Every instruction ends with the polls. *)
LEMMA EndsKeeps ==
  ASSUME NEW c, Sound(c), I!Ends(c)
  PROVE  TimerInv(calc')
<1>1. PICK d \in Durations : \E p \in I!handle_pio(I!Later(c, d)) : calc' = I!handle_interrupt(p)
  BY DEF I!Ends
<1> DEFINE m == I!PollXtal(I!Later(c, d))
<1>2. PICK e \in I!PollAssist(m) : calc' = I!handle_interrupt(I!Poll3(e))
  BY <1>1 DEF I!handle_pio
<1>3. Sound(m)
  BY LaterShows, PollXtalShows
<1> HIDE DEF m
<1>4. InTime(e) /\ XtalInv(e) /\ Seen(e, e.asking)
  <2>1. DOMAIN m = Machine
    BY <1>3 DEF Sound, InTime
  <2>2. /\ DOMAIN e = Machine /\ \A f \in Machine \ {"asking", "interrupt"} : e[f] = m[f]
        /\ e.asking # {} \/ (e.interrupt => m.interrupt)
    BY <2>1, PollAssistIs
  <2>3. /\ e.xtal = m.xtal /\ e.rate = m.rate /\ e.since1 = m.since1 /\ e.since2 = m.since2
        /\ e.mask = m.mask /\ e.on_latch = m.on_latch /\ e.line = m.line
    BY <2>2 DEF Machine
  <2>4. InTime(e) /\ XtalInv(e)
    BY <1>3, <2>2, <2>3, OthersInTime DEF Sound, XtalInv
  <2>5. CASE e.asking # {}
    BY <2>4, <2>5 DEF Seen
  <2>6. CASE e.interrupt => m.interrupt
    <3>1. (I!Asks1(m) => I!Asks1(e)) /\ (I!Asks2(m) => I!Asks2(e))
      BY <2>3 DEF I!Asks1, I!Asks2, I!Max1, I!Max2
    <3>2. Seen(e, {})
      BY <1>3, <2>3, <2>6, <3>1, StatusGrows DEF Sound
    <3> QED BY <2>4, <3>2 DEF Seen
  <2> QED BY <2>2, <2>5, <2>6
<1> DEFINE p == I!Poll3(e)
<1>5. /\ InTime(p) /\ XtalInv(p) /\ Seen(p, p.asking)
      /\ "t1" \notin p.mask => p.since1 <= 4 * Quarter[p.rate]
      /\ "t2" \notin p.mask => p.since2 <= 2 * Quarter[p.rate]
  <2>1. InTime(p) /\ XtalInv(p) /\ Seen(p, e.asking)
    BY <1>4, Poll3Shows
  <2>2. /\ \A f \in Machine \ OfPoll3 : p[f] = e[f]
        /\ "t1" \notin e.mask => p.since1 <= 4 * Quarter[e.rate]
        /\ "t2" \notin e.mask => p.since2 <= 2 * Quarter[e.rate]
    BY <1>4, Poll3Keeps
  <2>3. p.asking = e.asking /\ p.mask = e.mask /\ p.rate = e.rate
    BY <2>2 DEF Machine, OfPoll3
  <2> QED BY <2>1, <2>2, <2>3
<1> HIDE DEF p
<1>6. DOMAIN calc' = Machine /\ \A f \in Machine \ {"iff1", "halt"} : calc'[f] = p[f]
  <2>1. calc' = I!handle_interrupt(p)
    BY <1>2 DEF p
  <2> QED BY <1>5, <2>1, HandledKeeps DEF InTime
<1>7. /\ calc'.xtal = p.xtal /\ calc'.interrupt = p.interrupt /\ calc'.on_latch = p.on_latch
      /\ calc'.mask = p.mask /\ calc'.rate = p.rate
      /\ calc'.since1 = p.since1 /\ calc'.since2 = p.since2
      /\ calc'.asking = p.asking /\ calc'.line = p.line
  BY <1>6 DEF Machine
<1>8. InTime(calc') /\ XtalInv(calc')
  BY <1>5, <1>6, <1>7, OthersInTime DEF XtalInv
<1>9. (I!Asks1(p) => I!Asks1(calc')) /\ (I!Asks2(p) => I!Asks2(calc'))
  BY <1>7 DEF I!Asks1, I!Asks2, I!Max1, I!Max2
<1>10. Seen(calc', calc'.asking)
  BY <1>5, <1>7, <1>9, StatusGrows
<1> QED BY <1>5, <1>7, <1>8, <1>10 DEF TimerInv, Shown

(* An instruction begins with no request. *)
Quiet(c) == InTime(c) /\ XtalInv(c) /\ ~c.interrupt

LEMMA QuietIsSound ==
  ASSUME NEW c, Quiet(c)
  PROVE  Sound(c)
BY DEF Quiet, Sound, Seen

LEMMA OthersQuiet ==
  ASSUME NEW c, Quiet(c), NEW x, DOMAIN x = Machine, x.xtal = c.xtal, x.interrupt = c.interrupt,
         x.rate = c.rate, x.since1 = c.since1, x.since2 = c.since2
  PROVE  Quiet(x)
BY OthersInTime DEF Quiet, XtalInv

LEMMA BegunQuiet ==
  ASSUME Shown(calc)
  PROVE  Quiet(I!Begun) /\ DOMAIN I!Begun = Machine
<1>1. DOMAIN calc = Machine
  BY DEF Shown, InTime
<1>2. /\ DOMAIN I!Begun = Machine /\ I!Begun.interrupt = FALSE
      /\ I!Begun.xtal = calc.xtal /\ I!Begun.rate = calc.rate
      /\ I!Begun.since1 = calc.since1 /\ I!Begun.since2 = calc.since2
  BY <1>1 DEF I!Begun, Machine
<1>3. InTime(I!Begun)
  BY <1>2, OthersInTime DEF Shown
<1> QED BY <1>2, <1>3 DEF Quiet, Shown, XtalInv

LEMMA ProcessorKeeps ==
  ASSUME Shown(calc), I!Processor
  PROVE  TimerInv(calc')
<1> DEFINE b == I!Begun
           x1 == [b EXCEPT !.iff1 = TRUE, !.ei_block = TRUE]
           x2 == [b EXCEPT !.iff1 = FALSE]
           x3 == [b EXCEPT !.halt = TRUE]
<1>1. Quiet(b) /\ DOMAIN b = Machine
  BY BegunQuiet
<1>2. I!Ends(b) \/ I!Ends(x1) \/ I!Ends(x2) \/ I!Ends(x3)
  BY DEF I!Processor, I!Plain, I!Ei, I!Di, I!Halt, I!Halted
<1> HIDE DEF b
<1>3. ASSUME NEW x \in {x1, x2, x3} PROVE Quiet(x)
  <2>1. /\ DOMAIN x = Machine /\ x.xtal = b.xtal /\ x.interrupt = b.interrupt
        /\ x.rate = b.rate /\ x.since1 = b.since1 /\ x.since2 = b.since2
    BY <1>1, <1>3 DEF Machine
  <2> QED BY <1>1, <2>1, OthersQuiet
<1> HIDE DEF x1, x2, x3
<1> QED BY <1>1, <1>2, <1>3, QuietIsSound, EndsKeeps

LEMMA StandardKeeps ==
  ASSUME Shown(calc), I!Standard
  PROVE  TimerInv(calc')
<1> DEFINE b == I!Begun
<1>1. Quiet(b) /\ DOMAIN b = Machine
  BY BegunQuiet
<1>2. CASE I!OutPort2
  <2>1. PICK keep \in SUBSET I!Sources :
          LET a == [b EXCEPT !.on_latch = @ /\ "on" \in keep]
              e == IF "t1" \in keep THEN a ELSE I!Acknowledged1(a)
          IN I!Ends(IF "t2" \in keep THEN e ELSE I!Acknowledged2(e))
    BY <1>2 DEF I!OutPort2
  <2> DEFINE a == [b EXCEPT !.on_latch = @ /\ "on" \in keep]
             e == IF "t1" \in keep THEN a ELSE I!Acknowledged1(a)
             g == IF "t2" \in keep THEN e ELSE I!Acknowledged2(e)
  <2>2. I!Ends(g)
    BY <2>1
  <2> HIDE DEF b
  <2>3. Quiet(a)
    <3>1. /\ DOMAIN a = Machine /\ a.xtal = b.xtal /\ a.interrupt = b.interrupt
          /\ a.rate = b.rate /\ a.since1 = b.since1 /\ a.since2 = b.since2
      BY <1>1 DEF Machine
    <3> HIDE DEF a
    <3> QED BY <1>1, <3>1, OthersQuiet
  <2>4. ASSUME NEW c, Quiet(c) PROVE Quiet(I!Acknowledged1(c)) /\ Quiet(I!Acknowledged2(c))
    <3>1. /\ InTime(c) /\ DOMAIN c = Machine
      BY <2>4 DEF Quiet, InTime
    <3>2. /\ InTime(I!Acknowledged1(c)) /\ InTime(I!Acknowledged2(c))
          /\ I!Acknowledged1(c).xtal = c.xtal /\ I!Acknowledged2(c).xtal = c.xtal
          /\ I!Acknowledged1(c).interrupt = c.interrupt /\ I!Acknowledged2(c).interrupt = c.interrupt
      BY <3>1, CaughtKeepsPhase DEF I!Acknowledged1, I!Acknowledged2, Machine
    <3> QED BY <2>4, <3>2 DEF Quiet, XtalInv
  <2> HIDE DEF a
  <2>5. Quiet(e)
    BY <2>3, <2>4
  <2> HIDE DEF e
  <2>6. Quiet(g)
    BY <2>4, <2>5
  <2> HIDE DEF g
  <2> QED BY <2>2, <2>6, QuietIsSound, EndsKeeps
<1>3. CASE I!InPort3
  <2>1. Sound(I!Poll3(b))
    BY <1>1, QuietIsSound, Poll3Shows DEF Sound
  <2> QED BY <1>3, <2>1, EndsKeeps DEF I!InPort3
<1>4. CASE I!OutPort3
  <2>1. PICK mask \in Masks :
          I!Ends(I!Poll3([b EXCEPT !.lcd = @ \/ ("lcd" \in mask /\ "lcd" \notin calc.mask),
                                   !.on_latch = @ /\ "on" \in mask, !.mask = mask]))
    BY <1>4 DEF I!OutPort3
  <2> HIDE DEF b
  <2> DEFINE a == [b EXCEPT !.lcd = @ \/ ("lcd" \in mask /\ "lcd" \notin calc.mask),
                            !.on_latch = @ /\ "on" \in mask, !.mask = mask]
  <2>2. /\ DOMAIN a = Machine /\ a.xtal = b.xtal /\ a.interrupt = b.interrupt
        /\ a.rate = b.rate /\ a.since1 = b.since1 /\ a.since2 = b.since2
    BY <1>1 DEF Machine
  <2>3. I!Ends(I!Poll3(a))
    BY <2>1
  <2> HIDE DEF a
  <2>4. Sound(I!Poll3(a))
    BY <1>1, <2>2, OthersQuiet, QuietIsSound, Poll3Shows DEF Sound
  <2> QED BY <2>3, <2>4, EndsKeeps
<1>5. CASE I!OutPort4
  <2>1. PICK r \in Rates : I!Ends(I!Timed(b, r))
    BY <1>5 DEF I!OutPort4
  <2> HIDE DEF b
  <2> DEFINE q == Quarter[r]
  <2>2. q \in Nat /\ b.since1 \in Int /\ q = Quarter[r]
    BY <1>1, Periods DEF Quiet, InTime
  <2>3. I!Timed(b, r) = [b EXCEPT !.rate = r, !.since2 = b.since1 - q]
    BY DEF I!Timed
  <2> HIDE DEF q
  <2>4. InPhase(b.since1, b.since1 - q, q)
    <3>1. b.since1 - (b.since1 - q) - q = (2 * q) * 0
      BY <2>2
    <3> QED BY <3>1 DEF InPhase, IsMultiple
  <2> DEFINE x == [b EXCEPT !.rate = r, !.since2 = b.since1 - q]
  <2>5. /\ DOMAIN x = Machine /\ x.rate = r /\ x.since1 = b.since1 /\ x.since2 = b.since1 - q
        /\ x.xtal = b.xtal /\ x.interrupt = b.interrupt
    BY <1>1 DEF Machine
  <2> HIDE DEF x
  <2>6. b.since1 - q \in Int
    BY <2>2
  <2>7. InTime(x)
    BY <2>2, <2>4, <2>5, <2>6 DEF InTime
  <2>8. Sound(x)
    BY <1>1, <2>5, <2>7, QuietIsSound DEF Quiet, XtalInv
  <2> QED BY <2>1, <2>3, <2>8, EndsKeeps DEF x
<1> QED BY <1>2, <1>3, <1>4, <1>5 DEF I!Standard

(* A crystal timer that is set, and the poll that it may need. *)
LEMMA SetTimer ==
  ASSUME NEW c, Sound(c), NEW t \in Timers, NEW timer, Running(timer),
         c.xtal[t].underflow /\ c.interrupt => timer.underflow,
         NEW x, x = [c EXCEPT !.xtal[t] = timer]
  PROVE  Sound(x)
<1>1. DOMAIN c = Machine /\ XtalInv(c)
  BY DEF Sound, InTime
<1>2. /\ DOMAIN x = Machine /\ x.xtal = [c.xtal EXCEPT ![t] = timer] /\ x.interrupt = c.interrupt
      /\ x.on_latch = c.on_latch /\ x.mask = c.mask /\ x.rate = c.rate
      /\ x.since1 = c.since1 /\ x.since2 = c.since2 /\ x.line = c.line
  BY <1>1 DEF Machine
<1>3. XtalInv(x)
  BY <1>1, <1>2 DEF XtalInv
<1>4. InTime(x)
  BY <1>2, OthersInTime DEF Sound
<1>5. c.interrupt => \A u \in Timers : c.xtal[u].underflow => x.xtal[u].underflow
  BY <1>1, <1>2 DEF XtalInv
<1>6. (I!Asks1(c) => I!Asks1(x)) /\ (I!Asks2(c) => I!Asks2(x))
  BY <1>2 DEF I!Asks1, I!Asks2, I!Max1, I!Max2
<1>7. Seen(x, {})
  <2>1. CASE c.interrupt
    <3>1. /\ Seen(c, {})
          /\ x.interrupt => c.interrupt
          /\ c.on_latch => x.on_latch
      BY <1>2 DEF Sound
    <3>2. \A u \in Timers : c.xtal[u].underflow => x.xtal[u].underflow
      BY <1>5, <2>1
    <3> QED BY <1>2, <1>6, <3>1, <3>2, StatusGrows
  <2>2. CASE ~c.interrupt
    BY <1>2, <2>2 DEF Seen
  <2> QED BY <2>1, <2>2
<1> QED BY <1>3, <1>4, <1>7 DEF Sound

LEMMA mod_timerSound ==
  ASSUME NEW c, Sound(c), NEW x, x = I!mod_timer(c)
  PROVE  Sound(x)
<1>1. DOMAIN c = Machine
  BY DEF Sound, InTime
<1>2. /\ DOMAIN x = Machine /\ x.xtal = c.xtal /\ x.interrupt = c.interrupt
      /\ x.on_latch = c.on_latch /\ x.mask = c.mask /\ x.rate = c.rate
      /\ x.since1 = c.since1 /\ x.since2 = c.since2 /\ x.line = c.line
  BY <1>1 DEF I!mod_timer, Machine
<1>3. InTime(x) /\ XtalInv(x)
  BY <1>2, OthersInTime DEF Sound, XtalInv
<1>4. I!Status(x) = I!Status(c)
  BY <1>2 DEF I!Status, I!Asks1, I!Asks2, I!Max1, I!Max2
<1> QED BY <1>2, <1>3, <1>4 DEF Sound, Seen

LEMMA CrystalKeeps ==
  ASSUME Shown(calc), I!Crystal
  PROVE  TimerInv(calc')
<1> DEFINE b == I!Begun
<1>1. Sound(b) /\ ~b.interrupt
  BY BegunQuiet, QuietIsSound DEF Quiet
<1>2. ASSUME NEW c, Sound(c), NEW t \in Timers PROVE Running(c.xtal[t])
  BY <1>2 DEF Sound, XtalInv
<1>3. CASE I!OutPort30
  <2>1. PICK t \in Timers, clock \in Clocks : I!Ends(I!mod_timer(I!SetClock(b, t, clock)))
    BY <1>3 DEF I!OutPort30
  <2> HIDE DEF b
  <2> DEFINE timer == [b.xtal[t] EXCEPT !.clock = clock, !.active = FALSE, !.generate = FALSE,
                                        !.behind = 0]
  <2>2. Running(timer)
    <3>1. Running(b.xtal[t]) /\ clock.divisor \in Nat \ {0}
      BY <1>1, <1>2, QuarterAssumption DEF I!QuarterOK
    <3> QED BY <3>1 DEF Running, XtalFields
  <2>3. I!SetClock(b, t, clock) = [b EXCEPT !.xtal[t] = timer]
    BY DEF I!SetClock
  <2> HIDE DEF timer
  <2>4. Sound(I!SetClock(b, t, clock))
    BY <1>1, <2>2, <2>3, SetTimer
  <2> QED BY <2>1, <2>4, mod_timerSound, EndsKeeps
<1>4. CASE I!OutPort31
  <2>1. PICK t \in Timers, loop \in BOOLEAN, int \in BOOLEAN : I!Ends(I!SetControl(b, t, loop, int))
    BY <1>4 DEF I!OutPort31
  <2> HIDE DEF b
  <2> DEFINE timer == [b.xtal[t] EXCEPT !.loop = loop, !.interrupt = int, !.underflow = FALSE,
                                        !.generate = FALSE]
  <2>2. Running(timer)
    <3>1. Running(b.xtal[t])
      BY <1>1, <1>2
    <3> QED BY <3>1 DEF Running, XtalFields
  <2>3. I!SetControl(b, t, loop, int) = [b EXCEPT !.xtal[t] = timer]
    BY DEF I!SetControl
  <2> HIDE DEF timer
  <2>4. Sound(I!SetControl(b, t, loop, int))
    BY <1>1, <2>2, <2>3, SetTimer
  <2> QED BY <2>1, <2>4, EndsKeeps
<1>5. CASE I!InPort32
  <2>1. Sound(I!handlextal(b))
    BY <1>1, handlextalShows DEF Sound
  <2> QED BY <1>5, <2>1, EndsKeeps DEF I!InPort32
<1>6. CASE I!OutPort32
  <2>1. PICK t \in Timers, count \in Counts : I!Ends(I!mod_timer(I!SetCount(I!handlextal(b), t, count)))
    BY <1>6 DEF I!OutPort32
  <2> DEFINE h == I!handlextal(b)
             on == h.xtal[t].clock.kind # "off"
             timer == [h.xtal[t] EXCEPT !.count = count, !.max = count, !.active = @ \/ on,
                                        !.behind = 0]
  <2>2. Sound(h)
    BY <1>1, handlextalShows DEF Sound
  <2> HIDE DEF b
  <2>3. I!SetCount(h, t, count) = [h EXCEPT !.xtal[t] = timer]
    BY DEF I!SetCount
  <2> HIDE DEF h
  <2>4. Running(timer) /\ timer.underflow = h.xtal[t].underflow
    <3>1. Running(h.xtal[t])
      BY <1>2, <2>2
    <3> HIDE DEF on
    <3> QED BY <3>1 DEF Running, XtalFields
  <2> HIDE DEF timer
  <2>5. Sound(I!SetCount(h, t, count))
    BY <2>2, <2>3, <2>4, SetTimer
  <2> QED BY <2>1, <2>5, mod_timerSound, EndsKeeps DEF h
<1> QED BY <1>3, <1>4, <1>5, <1>6 DEF I!Crystal

LEMMA KeyKeeps ==
  ASSUME TimerInv(calc), I!Key
  PROVE  TimerInv(calc')
<1>1. calc' = [calc EXCEPT !.on_pressed = TRUE] \/ calc' = [calc EXCEPT !.on_pressed = FALSE]
  BY DEF I!Key, I!Press, I!Release
<1>2. DOMAIN calc = Machine /\ Shown(calc)
  BY DEF TimerInv, Shown, InTime
<1>3. /\ DOMAIN calc' = Machine /\ calc'.rate = calc.rate /\ calc'.mask = calc.mask
      /\ calc'.since1 = calc.since1 /\ calc'.since2 = calc.since2 /\ calc'.xtal = calc.xtal
      /\ calc'.interrupt = calc.interrupt /\ calc'.on_latch = calc.on_latch
      /\ calc'.asking = calc.asking /\ calc'.line = calc.line
  BY <1>1, <1>2 DEF Machine
<1>4. InTime(calc') /\ XtalInv(calc')
  BY <1>2, <1>3, OthersInTime DEF Shown, XtalInv
<1>5. (I!Asks1(calc) => I!Asks1(calc')) /\ (I!Asks2(calc) => I!Asks2(calc'))
  BY <1>3 DEF I!Asks1, I!Asks2, I!Max1, I!Max2
<1>6. Seen(calc', calc.asking)
  BY <1>2, <1>3, <1>5, StatusGrows DEF Shown
<1> QED BY <1>3, <1>4, <1>6 DEF TimerInv, Shown

(* The flags of the assist are chosen and taken, and the USB line asks, which shows. *)
LEMMA LinkAndUSBKeep ==
  ASSUME Shown(calc), I!LinkAndUSB
  PROVE  TimerInv(calc')
<1> DEFINE b == I!Begun
<1>1. Quiet(b) /\ DOMAIN b = Machine
  BY BegunQuiet
<1>2. CASE I!OutPort8 \/ I!Ports0Aand0D
  <2>1. PICK e, s : I!Ends([b EXCEPT !.enabled = e, !.asking = s])
                      \/ I!Ends([b EXCEPT !.asking = s])
    BY <1>2 DEF I!OutPort8, I!Ports0Aand0D
  <2> HIDE DEF b
  <2> DEFINE x1 == [b EXCEPT !.enabled = e, !.asking = s]
             x2 == [b EXCEPT !.asking = s]
  <2>2. ASSUME NEW x \in {x1, x2} PROVE Quiet(x)
    <3>1. /\ DOMAIN x = Machine /\ x.xtal = b.xtal /\ x.interrupt = b.interrupt
          /\ x.rate = b.rate /\ x.since1 = b.since1 /\ x.since2 = b.since2
      BY <1>1, <2>2 DEF Machine
    <3> QED BY <1>1, <3>1, OthersQuiet
  <2> HIDE DEF x1, x2
  <2>3. I!Ends(x1) \/ I!Ends(x2)
    BY <2>1 DEF x1, x2
  <2> QED BY <2>2, <2>3, QuietIsSound, EndsKeeps
<1>3. CASE I!OutPort4A
  <2>1. I!Ends([b EXCEPT !.line = "asks", !.interrupt = TRUE])
    BY <1>3 DEF I!OutPort4A
  <2> HIDE DEF b
  <2> DEFINE x == [b EXCEPT !.line = "asks", !.interrupt = TRUE]
  <2>2. /\ DOMAIN x = Machine /\ x.xtal = b.xtal /\ x.line = "asks"
        /\ x.rate = b.rate /\ x.since1 = b.since1 /\ x.since2 = b.since2
    BY <1>1 DEF Machine
  <2>3. I!Ends(x)
    BY <2>1
  <2> HIDE DEF x
  <2>4. Sound(x)
    BY <1>1, <2>2, OthersInTime DEF Quiet, Sound, XtalInv, Seen
  <2> QED BY <2>3, <2>4, EndsKeeps
<1> QED BY <1>2, <1>3 DEF I!LinkAndUSB

LEMMA TimersKeepInv ==
  ASSUME TimerInv(calc), [Next]_vars
  PROVE  TimerInv(calc')
<1>1. CASE calc' = calc
  BY <1>1
<1>2. CASE I!Processor \/ I!Standard \/ I!Crystal \/ I!Key \/ I!LinkAndUSB
  <2>1. Shown(calc)
    BY DEF TimerInv
  <2> QED BY <1>2, <2>1, ProcessorKeeps, StandardKeeps, CrystalKeeps, KeyKeeps, LinkAndUSBKeep
<1> QED
  BY <1>1, <1>2
  DEF Next, vars, timers, Processor, Standard, Crystal, Asking, Link, Display, Save, OfLink, OfLcd, OfSave

LEMMA TimerInvHolds == Spec => []TimerInv(calc)
<1>1. Init => TimerInv(calc)
  <2> SUFFICES ASSUME Init PROVE TimerInv(calc)
    OBVIOUS
  <2> DEFINE q == Quarter[Slowest]
  <2>1. /\ DOMAIN calc = Machine /\ calc.mask = {} /\ calc.rate = Slowest
        /\ calc.since1 = 0 /\ calc.since2 = -q /\ calc.interrupt = FALSE
        /\ calc.xtal = [t \in Timers |-> I!NewTimer]
    BY DEF Init, I!Init, Machine
  <2>2. Slowest \in Rates /\ q \in Nat
    BY QuarterAssumption, Periods DEF I!QuarterOK
  <2> HIDE DEF q
  <2>3. 0 - (-q) - q = (2 * q) * 0 /\ -q \in Int /\ 0 <= 4 * q /\ -q <= 2 * q
    BY <2>2
  <2>4. InTime(calc) /\ calc.since1 <= 4 * q /\ calc.since2 <= 2 * q
    BY <2>1, <2>2, <2>3 DEF InTime, InPhase, IsMultiple, q
  <2>5. Running(I!NewTimer)
    BY DEF Running, XtalFields, I!NewTimer
  <2> QED BY <2>1, <2>4, <2>5 DEF TimerInv, Shown, XtalInv, Seen, q
<1>2. TimerInv(calc) /\ [Next]_vars => TimerInv(calc)'
  BY TimersKeepInv
<1> QED BY <1>1, <1>2, PTL DEF Spec

(* The second standard timer ticks a quarter of a period behind the first for ever,  *)
(* at every frequency: acknowledging, masking and changing the frequency in any      *)
(* order move either timer by whole periods of the second, or set the two anew.      *)
THEOREM PhaseIsKept == Spec => []PhaseKept
<1>1. TimerInv(calc) => PhaseKept
  <2> SUFFICES ASSUME TimerInv(calc) PROVE PhaseKept
    OBVIOUS
  <2> DEFINE q == Quarter[calc.rate]
             a == calc.since1 - calc.since2 - q
  <2>1. q \in Nat \ {0} /\ calc.since1 \in Int /\ calc.since2 \in Int /\ IsMultiple(a, 2 * q)
    BY Periods DEF TimerInv, Shown, InTime, InPhase
  <2>2. PhaseKept <=> a % (2 * q) = 0
    BY DEF PhaseKept, I!PhaseKept, I!Period2
  <2> HIDE DEF q
  <2>3. a \in Int /\ 2 * q \in Nat \ {0}
    BY <2>1
  <2> HIDE DEF a
  <2> QED BY <2>1, <2>2, <2>3, MultipleLeavesNothing
<1> QED BY <1>1, TimerInvHolds, PTL

(* A timer, the standard or the double speed one, that is unmasked has no tick left   *)
(* from the time it was masked, whatever the frequency was changed to meanwhile:      *)
(* every poll catches up the masked timers.                                           *)
THEOREM NoTickIsStale == Spec => NoStaleTick
<1>1. TimerInv(calc) =>
        [/\ "t1" \in calc'.mask \ calc.mask => calc.since1 <= I!Period1
         /\ "t2" \in calc'.mask \ calc.mask => calc.since2 <= I!Period2]_calc
  BY DEF TimerInv, I!Period1, I!Period2
<1> QED BY <1>1, TimerInvHolds, PTL DEF NoStaleTick, I!NoStaleTick, I!vars

(* When an interrupt is asked for, who asks can be read: in port 4 the ON latch, a    *)
(* standard timer, or a crystal timer whose underflow has not been cleared, in port 9 *)
(* a flag of the link assist, or in port 55 the USB line in the instruction that made *)
(* it ask.  Neither the cut of long times, nor a change of the masks, nor a later     *)
(* poll of the assist takes the answer away.                                          *)
THEOREM SourceIsVisible == Spec => []SourceVisible
<1>1. TimerInv(calc) => SourceVisible
  BY DEF TimerInv, Shown, Seen, SourceVisible, I!SourceVisible
<1> QED BY <1>1, TimerInvHolds, PTL

(***************************************************************************)
(* Why HALT ends.  What an instruction does to the devices leaves HALT and *)
(* the flip-flop alone; and a processor that waits with interrupts on has  *)
(* no tick of an unmasked timer behind it, because the poll that finds one *)
(* wakes it up there and then: EI, whose successor may not be interrupted, *)
(* is over when the processor waits.                                       *)
(***************************************************************************)
AsWas(x, c) == DOMAIN x = Machine /\ x.halt = c.halt /\ x.iff1 = c.iff1 /\ x.ei_block = c.ei_block

Unasked(c) == ~I!Asks1(c) /\ ~I!Asks2(c)

Awake(c) == (c.halt => ~c.ei_block) /\ (c.halt /\ c.iff1 => Unasked(c))

(* The standard timers and their polls. *)
LEMMA PollAsWas ==
  ASSUME NEW c, DOMAIN c = Machine
  PROVE  /\ AsWas(I!Acknowledged1(c), c) /\ AsWas(I!Acknowledged2(c), c)
         /\ AsWas(I!Ticking(c), c)
         /\ I!Ticking(c).mask = c.mask /\ I!Ticking(c).rate = c.rate
         /\ AsWas(I!Poll3(c), c)
         /\ I!Poll3(c).mask = c.mask /\ I!Poll3(c).rate = c.rate
         /\ ~I!Poll3(c).interrupt => Unasked(I!Poll3(c))
         /\ "t1" \in c.mask => I!Poll3(c).since1 = c.since1
         /\ "t2" \in c.mask => I!Poll3(c).since2 = c.since2
<1> DEFINE Plus(x, y) == /\ AsWas(x, y) /\ x.mask = y.mask /\ x.rate = y.rate
<1>1. ASSUME NEW y, DOMAIN y = Machine
      PROVE  /\ Plus(I!Acknowledged1(y), y) /\ I!Acknowledged1(y).since2 = y.since2
             /\ Plus(I!Acknowledged2(y), y) /\ I!Acknowledged2(y).since1 = y.since1
  <2>1. ASSUME NEW s
        PROVE  /\ Plus([y EXCEPT !.since1 = s], y) /\ [y EXCEPT !.since1 = s].since2 = y.since2
               /\ Plus([y EXCEPT !.since2 = s], y) /\ [y EXCEPT !.since2 = s].since1 = y.since1
    BY <1>1 DEF Machine, AsWas
  <2> QED BY <2>1 DEF I!Acknowledged1, I!Acknowledged2
<1> DEFINE b == IF "t1" \in c.mask THEN c ELSE I!Acknowledged1(c)
           t == I!Ticking(c)
<1>2. t = IF "t2" \in b.mask THEN b ELSE I!Acknowledged2(b)
  BY DEF I!Ticking
<1>3. Plus(b, c) /\ b.since2 = c.since2 /\ ("t1" \in c.mask => b.since1 = c.since1)
  BY <1>1 DEF AsWas
<1> HIDE DEF b
<1>4. Plus(t, c) /\ ("t1" \in c.mask => t.since1 = c.since1) /\ ("t2" \in c.mask => t.since2 = c.since2)
  <2>1. CASE "t2" \in b.mask
    BY <1>2, <1>3, <2>1
  <2>2. CASE "t2" \notin b.mask
    <3>1. t = I!Acknowledged2(b) /\ DOMAIN b = Machine
      BY <1>2, <1>3, <2>2 DEF AsWas
    <3>2. Plus(t, b) /\ t.since1 = b.since1
      BY <1>1, <3>1
    <3> QED BY <1>3, <2>2, <3>2 DEF AsWas
  <2> QED BY <2>1, <2>2
<1> DEFINE d == [t EXCEPT !.on_latch = @ \/ I!OnEdge(c), !.on_backup = c.on_pressed,
                          !.lcd = @ /\ ~("lcd" \notin c.mask /\ c.halt)]
           p == [d EXCEPT !.interrupt = @ \/ I!Asks1(d) \/ I!Asks2(d) \/ d.on_latch]
<1>5. I!Poll3(c) = p
  BY DEF I!Poll3
<1> HIDE DEF t
<1>6. Plus(d, t) /\ d.since1 = t.since1 /\ d.since2 = t.since2
  BY <1>4 DEF Machine, AsWas
<1> HIDE DEF d
<1>7. /\ Plus(p, d) /\ p.since1 = d.since1 /\ p.since2 = d.since2
      /\ p.interrupt = (d.interrupt \/ I!Asks1(d) \/ I!Asks2(d) \/ d.on_latch)
  BY <1>6 DEF Machine, AsWas
<1>8. Unasked(d) => Unasked(p)
  BY <1>7 DEF Unasked, I!Asks1, I!Asks2, I!Max1, I!Max2
<1>9. ~p.interrupt => Unasked(p)
  BY <1>7, <1>8 DEF Unasked
<1> HIDE DEF p
<1> QED BY <1>1, <1>4, <1>5, <1>6, <1>7, <1>9 DEF t, AsWas

(* The crystal timers, and time. *)
LEMMA CrystalAsWas ==
  ASSUME NEW c, DOMAIN c = Machine
  PROVE  /\ AsWas(I!handlextal(c), c) /\ AsWas(I!mod_timer(c), c)
         /\ AsWas(I!PollXtal(c), c)
         /\ \A f \in {"mask", "rate", "since1", "since2"} : I!PollXtal(c)[f] = c[f]
<1> DEFINE d == [c EXCEPT !.xtal = [t \in Timers |-> I!Ticked(c.xtal[t])]]
           h == [d EXCEPT !.interrupt = @ \/ (~c.halt /\ \E t \in Timers : d.xtal[t].generate)]
           left == (c.skip_count - 1) % Wrap
<1>1. I!handlextal(c) = h
  BY DEF I!handlextal
<1>2. DOMAIN h = Machine /\ \A f \in Machine \ {"xtal", "interrupt"} : h[f] = c[f]
  BY DEF Machine
<1>3. I!PollXtal(c) = [h EXCEPT !.skip_count = c.skip_factor] \/ I!PollXtal(c) = [c EXCEPT !.skip_count = left]
  BY <1>1 DEF I!PollXtal
<1> HIDE DEF h, left
<1>4. DOMAIN I!PollXtal(c) = Machine
      /\ \A f \in Machine \ {"xtal", "interrupt", "skip_count"} : I!PollXtal(c)[f] = c[f]
  BY <1>2, <1>3
<1>5. AsWas(I!mod_timer(c), c)
  BY DEF I!mod_timer, AsWas, Machine
<1> QED BY <1>1, <1>2, <1>4, <1>5 DEF AsWas, Machine

LEMMA LaterAsWas ==
  ASSUME NEW c, DOMAIN c = Machine, NEW d, NEW x, x = I!Later(c, d)
  PROVE  /\ AsWas(x, c) /\ x.mask = c.mask /\ x.rate = c.rate
         /\ x.since1 = I!Cut(c.since1 + d) /\ x.since2 = I!Cut(c.since2 + d)
<1> DEFINE X == [t \in Timers |-> IF c.xtal[t].active
                                    THEN [c.xtal[t] EXCEPT !.behind = @ + d] ELSE c.xtal[t]]
<1>1. x = [c EXCEPT !.since1 = I!Cut(@ + d), !.since2 = I!Cut(@ + d), !.xtal = X]
  BY DEF I!Later
<1> HIDE DEF X
<1> QED BY <1>1 DEF AsWas, Machine

(* What the end of an instruction leaves. *)
LEMMA EndsAwake ==
  ASSUME NEW c, DOMAIN c = Machine, NEW d, NEW e \in I!PollAssist(I!PollXtal(I!Later(c, d))),
         NEW x, x = I!handle_interrupt(I!Poll3(e))
  PROVE  /\ (c.halt => ~c.ei_block) => Awake(x)
         /\ x.halt /\ c.iff1 /\ ~c.ei_block =>
              /\ c.halt /\ x.iff1 /\ x.mask = c.mask /\ x.rate = c.rate /\ Unasked(x)
              /\ "t1" \in c.mask => x.since1 = I!Cut(c.since1 + d)
              /\ "t2" \in c.mask => x.since2 = I!Cut(c.since2 + d)
<1> DEFINE l == I!Later(c, d)
           m == I!PollXtal(l)
           p == I!Poll3(e)
<1>1. x = I!handle_interrupt(p) /\ e \in I!PollAssist(m)
  OBVIOUS
<1>2. /\ AsWas(l, c) /\ l.mask = c.mask /\ l.rate = c.rate
      /\ l.since1 = I!Cut(c.since1 + d) /\ l.since2 = I!Cut(c.since2 + d)
  BY LaterAsWas
<1> HIDE DEF l
<1>3. DOMAIN l = Machine
  BY <1>2 DEF AsWas
<1>4. /\ AsWas(m, l) /\ m.mask = l.mask /\ m.rate = l.rate
      /\ m.since1 = l.since1 /\ m.since2 = l.since2
  BY <1>3, CrystalAsWas
<1> HIDE DEF m
<1>5. /\ AsWas(e, m) /\ e.mask = m.mask /\ e.rate = m.rate
      /\ e.since1 = m.since1 /\ e.since2 = m.since2
  <2>1. DOMAIN m = Machine
    BY <1>4 DEF AsWas
  <2>2. DOMAIN e = Machine /\ \A f \in Machine \ {"asking", "interrupt"} : e[f] = m[f]
    BY <1>1, <2>1, PollAssistIs
  <2> QED BY <2>2 DEF AsWas, Machine
<1>6. /\ AsWas(p, e) /\ p.mask = e.mask /\ p.rate = e.rate
      /\ ~p.interrupt => Unasked(p)
      /\ "t1" \in e.mask => p.since1 = e.since1
      /\ "t2" \in e.mask => p.since2 = e.since2
  <2>1. DOMAIN e = Machine
    BY <1>5 DEF AsWas
  <2> QED BY <2>1, PollAsWas
<1> HIDE DEF p
<1>7. /\ DOMAIN p = Machine /\ p.halt = c.halt /\ p.iff1 = c.iff1 /\ p.ei_block = c.ei_block
      /\ p.mask = c.mask /\ p.rate = c.rate
      /\ "t1" \in c.mask => p.since1 = I!Cut(c.since1 + d)
      /\ "t2" \in c.mask => p.since2 = I!Cut(c.since2 + d)
  BY <1>2, <1>4, <1>5, <1>6 DEF AsWas
<1>8. CASE p.interrupt /\ ~p.ei_block /\ p.iff1
  <2>1. x = [p EXCEPT !.iff1 = FALSE, !.halt = FALSE]
    BY <1>1, <1>8 DEF I!handle_interrupt
  <2>2. ~x.halt
    BY <1>7, <2>1 DEF Machine
  <2> QED BY <2>2 DEF Awake
<1>9. CASE ~(p.interrupt /\ ~p.ei_block /\ p.iff1)
  <2>1. x = p
    BY <1>1, <1>9 DEF I!handle_interrupt
  <2>2. p.iff1 /\ ~p.ei_block => Unasked(p)
    BY <1>6, <1>9
  <2> QED BY <1>7, <2>1, <2>2 DEF Awake
<1> QED BY <1>8, <1>9

LEMMA BegunAwake ==
  ASSUME DOMAIN calc = Machine, NEW b, b = I!Begun
  PROVE  /\ DOMAIN b = Machine /\ b.halt = calc.halt /\ b.iff1 = calc.iff1 /\ b.ei_block = FALSE
         /\ b.mask = calc.mask /\ b.rate = calc.rate
         /\ b.since1 = calc.since1 /\ b.since2 = calc.since2
BY DEF I!Begun, Machine

LEMMA EndIsAwake ==
  ASSUME NEW c, DOMAIN c = Machine, c.halt => ~c.ei_block, I!Ends(c)
  PROVE  Awake(calc')
<1>1. PICK d \in Durations : \E e \in I!PollAssist(I!PollXtal(I!Later(c, d))) :
        calc' = I!handle_interrupt(I!Poll3(e))
  BY DEF I!Ends, I!handle_pio
<1> QED BY <1>1, EndsAwake

(* Only HALT makes the processor wait, and it does not hold interrupts off. *)
LEMMA ProcessorAwake ==
  ASSUME DOMAIN calc = Machine, I!Processor
  PROVE  Awake(calc')
<1> DEFINE b == I!Begun
           x1 == [b EXCEPT !.iff1 = TRUE, !.ei_block = TRUE]
           x2 == [b EXCEPT !.iff1 = FALSE]
           x3 == [b EXCEPT !.halt = TRUE]
<1>1. DOMAIN b = Machine /\ b.halt = calc.halt /\ b.ei_block = FALSE
  BY BegunAwake
<1>2. \/ I!Ends(b) \/ I!Ends(x2) \/ I!Ends(x3)
      \/ ~calc.halt /\ I!Ends(x1)
  BY DEF I!Processor, I!Plain, I!Ei, I!Di, I!Halt, I!Halted, I!Runs
<1> HIDE DEF b
<1>3. /\ DOMAIN x1 = Machine /\ x1.halt = calc.halt
      /\ DOMAIN x2 = Machine /\ x2.ei_block = FALSE
      /\ DOMAIN x3 = Machine /\ x3.ei_block = FALSE
  BY <1>1 DEF Machine
<1> HIDE DEF x1, x2, x3
<1> QED BY <1>1, <1>2, <1>3, EndIsAwake

LEMMA StandardAwake ==
  ASSUME DOMAIN calc = Machine, I!Standard
  PROVE  Awake(calc')
<1> DEFINE b == I!Begun
<1>1. DOMAIN b = Machine /\ b.halt = calc.halt
  BY BegunAwake
<1>2. ~calc.halt
  BY DEF I!Standard, I!OutPort2, I!InPort3, I!OutPort3, I!OutPort4, I!Runs
<1>3. CASE I!OutPort2
  <2>1. PICK keep \in SUBSET I!Sources :
          LET a == [b EXCEPT !.on_latch = @ /\ "on" \in keep]
              e == IF "t1" \in keep THEN a ELSE I!Acknowledged1(a)
          IN I!Ends(IF "t2" \in keep THEN e ELSE I!Acknowledged2(e))
    BY <1>3 DEF I!OutPort2
  <2> HIDE DEF b
  <2> DEFINE a == [b EXCEPT !.on_latch = @ /\ "on" \in keep]
             e == IF "t1" \in keep THEN a ELSE I!Acknowledged1(a)
             g == IF "t2" \in keep THEN e ELSE I!Acknowledged2(e)
  <2>2. I!Ends(g)
    BY <2>1
  <2>3. DOMAIN a = Machine /\ a.halt = b.halt
    BY <1>1 DEF Machine
  <2> HIDE DEF a
  <2>4. DOMAIN e = Machine /\ e.halt = b.halt
    BY <2>3, PollAsWas DEF AsWas
  <2> HIDE DEF e
  <2>5. DOMAIN g = Machine /\ g.halt = b.halt
    BY <2>4, PollAsWas DEF AsWas
  <2> HIDE DEF g
  <2> QED BY <1>1, <1>2, <2>2, <2>5, EndIsAwake
<1>4. CASE I!InPort3
  <2>1. I!Ends(I!Poll3(b))
    BY <1>4 DEF I!InPort3
  <2> HIDE DEF b
  <2>2. DOMAIN I!Poll3(b) = Machine /\ I!Poll3(b).halt = b.halt
    BY <1>1, PollAsWas DEF AsWas
  <2> QED BY <1>1, <1>2, <2>1, <2>2, EndIsAwake
<1>5. CASE I!OutPort3
  <2>1. PICK mask \in Masks :
          I!Ends(I!Poll3([b EXCEPT !.lcd = @ \/ ("lcd" \in mask /\ "lcd" \notin calc.mask),
                                   !.on_latch = @ /\ "on" \in mask, !.mask = mask]))
    BY <1>5 DEF I!OutPort3
  <2> HIDE DEF b
  <2> DEFINE a == [b EXCEPT !.lcd = @ \/ ("lcd" \in mask /\ "lcd" \notin calc.mask),
                            !.on_latch = @ /\ "on" \in mask, !.mask = mask]
  <2>2. DOMAIN a = Machine /\ a.halt = b.halt
    BY <1>1 DEF Machine
  <2>3. I!Ends(I!Poll3(a))
    BY <2>1
  <2> HIDE DEF a
  <2>4. DOMAIN I!Poll3(a) = Machine /\ I!Poll3(a).halt = a.halt
    BY <2>2, PollAsWas DEF AsWas
  <2> QED BY <1>1, <1>2, <2>2, <2>3, <2>4, EndIsAwake
<1>6. CASE I!OutPort4
  <2>1. PICK r \in Rates : I!Ends(I!Timed(b, r))
    BY <1>6 DEF I!OutPort4
  <2> HIDE DEF b
  <2>2. DOMAIN I!Timed(b, r) = Machine /\ I!Timed(b, r).halt = b.halt
    BY <1>1 DEF I!Timed, Machine
  <2> QED BY <1>1, <1>2, <2>1, <2>2, EndIsAwake
<1> QED BY <1>3, <1>4, <1>5, <1>6 DEF I!Standard

LEMMA CrystalAwake ==
  ASSUME DOMAIN calc = Machine, I!Crystal
  PROVE  Awake(calc')
<1> DEFINE b == I!Begun
<1>1. DOMAIN b = Machine /\ b.halt = calc.halt
  BY BegunAwake
<1>2. ~calc.halt
  BY DEF I!Crystal, I!OutPort30, I!OutPort31, I!InPort32, I!OutPort32, I!Runs
<1>3. ASSUME NEW c, DOMAIN c = Machine, NEW t, NEW timer
      PROVE  AsWas([c EXCEPT !.xtal[t] = timer], c)
  BY <1>3 DEF AsWas, Machine
<1>4. CASE I!OutPort30
  <2>1. PICK t \in Timers, clock \in Clocks : I!Ends(I!mod_timer(I!SetClock(b, t, clock)))
    BY <1>4 DEF I!OutPort30
  <2> HIDE DEF b
  <2>2. AsWas(I!SetClock(b, t, clock), b)
    BY <1>1, <1>3 DEF I!SetClock
  <2>3. AsWas(I!mod_timer(I!SetClock(b, t, clock)), b)
    BY <2>2, CrystalAsWas DEF AsWas
  <2> QED BY <1>1, <1>2, <2>1, <2>3, EndIsAwake DEF AsWas
<1>5. CASE I!OutPort31
  <2>1. PICK t \in Timers, loop \in BOOLEAN, int \in BOOLEAN : I!Ends(I!SetControl(b, t, loop, int))
    BY <1>5 DEF I!OutPort31
  <2> HIDE DEF b
  <2>2. AsWas(I!SetControl(b, t, loop, int), b)
    BY <1>1, <1>3 DEF I!SetControl
  <2> QED BY <1>1, <1>2, <2>1, <2>2, EndIsAwake DEF AsWas
<1>6. CASE I!InPort32
  <2>1. I!Ends(I!handlextal(b))
    BY <1>6 DEF I!InPort32
  <2> HIDE DEF b
  <2>2. AsWas(I!handlextal(b), b)
    BY <1>1, CrystalAsWas
  <2> QED BY <1>1, <1>2, <2>1, <2>2, EndIsAwake DEF AsWas
<1>7. CASE I!OutPort32
  <2>1. PICK t \in Timers, count \in Counts :
          I!Ends(I!mod_timer(I!SetCount(I!handlextal(b), t, count)))
    BY <1>7 DEF I!OutPort32
  <2> HIDE DEF b
  <2> DEFINE h == I!handlextal(b)
             s == I!SetCount(h, t, count)
  <2>2. AsWas(h, b)
    BY <1>1, CrystalAsWas
  <2> HIDE DEF h
  <2>3. AsWas(s, h)
    <3>1. DOMAIN h = Machine
      BY <2>2 DEF AsWas
    <3> QED BY <1>3, <3>1 DEF I!SetCount
  <2> HIDE DEF s
  <2>4. AsWas(I!mod_timer(s), s)
    BY <2>3, CrystalAsWas DEF AsWas
  <2>5. I!Ends(I!mod_timer(s))
    BY <2>1 DEF s, h
  <2> QED BY <1>1, <1>2, <2>2, <2>3, <2>4, <2>5, EndIsAwake DEF AsWas
<1> QED BY <1>4, <1>5, <1>6, <1>7 DEF I!Crystal

LEMMA LinkAndUSBAwake ==
  ASSUME DOMAIN calc = Machine, I!LinkAndUSB
  PROVE  Awake(calc')
<1> DEFINE b == I!Begun
<1>1. DOMAIN b = Machine /\ b.halt = calc.halt
  BY BegunAwake
<1>2. ~calc.halt
  BY DEF I!LinkAndUSB, I!OutPort8, I!Ports0Aand0D, I!OutPort4A, I!Runs
<1>3. PICK e, s : \/ I!Ends([b EXCEPT !.enabled = e, !.asking = s])
                  \/ I!Ends([b EXCEPT !.asking = s])
                  \/ I!Ends([b EXCEPT !.line = "asks", !.interrupt = TRUE])
  BY DEF I!LinkAndUSB, I!OutPort8, I!Ports0Aand0D, I!OutPort4A
<1> HIDE DEF b
<1> DEFINE x1 == [b EXCEPT !.enabled = e, !.asking = s]
           x2 == [b EXCEPT !.asking = s]
           x3 == [b EXCEPT !.line = "asks", !.interrupt = TRUE]
<1>4. ASSUME NEW x \in {x1, x2, x3} PROVE DOMAIN x = Machine /\ ~x.halt
  BY <1>1, <1>2, <1>4 DEF Machine
<1> HIDE DEF x1, x2, x3
<1>5. I!Ends(x1) \/ I!Ends(x2) \/ I!Ends(x3)
  BY <1>3 DEF x1, x2, x3
<1> QED BY <1>4, <1>5, EndIsAwake

LEMMA KeyAwake ==
  ASSUME DOMAIN calc = Machine, Awake(calc), I!Key
  PROVE  Awake(calc')
<1>1. PICK on \in BOOLEAN : calc' = [calc EXCEPT !.on_pressed = on]
  BY DEF I!Key, I!Press, I!Release
<1>2. /\ AsWas(calc', calc) /\ calc'.mask = calc.mask /\ calc'.rate = calc.rate
      /\ calc'.since1 = calc.since1 /\ calc'.since2 = calc.since2
  BY <1>1 DEF AsWas, Machine
<1>3. Unasked(calc) => Unasked(calc')
  BY <1>2 DEF Unasked, I!Asks1, I!Asks2, I!Max1, I!Max2
<1> QED BY <1>2, <1>3 DEF Awake, AsWas

LEMMA AwakeHolds == Spec => []Awake(calc)
<1>1. TimerInv(calc) => DOMAIN calc = Machine
  BY DEF TimerInv, Shown, InTime
<1>2. Init => Awake(calc)
  <2>1. ASSUME Init PROVE ~calc.halt
    BY <2>1 DEF Init, I!Init
  <2> QED BY <2>1 DEF Awake
<1>3. ASSUME TimerInv(calc), Awake(calc), [Next]_vars PROVE Awake(calc)'
  <2>1. CASE calc' = calc
    BY <1>3, <2>1
  <2>2. CASE I!Processor \/ I!Standard \/ I!Crystal \/ I!Key \/ I!LinkAndUSB
    BY <1>1, <1>3, <2>2, ProcessorAwake, StandardAwake, CrystalAwake, KeyAwake,
       LinkAndUSBAwake
  <2> QED
    BY <1>3, <2>1, <2>2
    DEF Next, vars, timers, Processor, Standard, Crystal, Asking, Link, Display, Save, OfLink, OfLcd, OfSave
<1> QED BY <1>2, <1>3, TimerInvHolds, PTL DEF Spec

(* A processor that waits with interrupts on is never found behind a tick: once an   *)
(* unmasked timer has ticked it has been woken up, whatever was set before the HALT, *)
(* and however long the instruction took in which the tick fell.                     *)
THEOREM NobodySleepsOver == Spec => [](calc.halt /\ calc.iff1 => Unasked(calc))
<1>1. Awake(calc) => (calc.halt /\ calc.iff1 => Unasked(calc))
  BY DEF Awake
<1> QED BY <1>1, AwakeHolds, PTL

(* Each step of the wait brings the tick nearer by what the step takes: the clocks   *)
(* of the unmasked timers go on by that, up to the period and not beyond, and what   *)
(* wakes the processor is not switched off meanwhile.  The period is so a bound on   *)
(* the wait, and that is why HALT ends if steps go on being taken.                   *)
Nearer ==
  [][I!Halted /\ calc.iff1 /\ calc'.halt =>
       /\ calc'.iff1 /\ calc'.mask = calc.mask /\ calc'.rate = calc.rate
       /\ \E d \in Durations :
            /\ "t1" \in calc.mask => calc'.since1 = calc.since1 + d /\ calc'.since1 <= I!Period1
            /\ "t2" \in calc.mask => calc'.since2 = calc.since2 + d /\ calc'.since2 <= I!Period2]_vars

THEOREM TheTickComesNearer == Spec => Nearer
<1> DEFINE Step == I!Halted /\ calc.iff1 /\ calc'.halt
           Ahead == /\ calc'.iff1 /\ calc'.mask = calc.mask /\ calc'.rate = calc.rate
                    /\ \E d \in Durations :
                         /\ "t1" \in calc.mask =>
                              calc'.since1 = calc.since1 + d /\ calc'.since1 <= I!Period1
                         /\ "t2" \in calc.mask =>
                              calc'.since2 = calc.since2 + d /\ calc'.since2 <= I!Period2
<1>1. ASSUME TimerInv(calc), Step PROVE Ahead
  <2> DEFINE b == I!Begun
             q == Quarter[calc.rate]
  <2>1. /\ DOMAIN calc = Machine /\ calc.since1 \in Int /\ calc.since2 \in Int
        /\ q \in Nat \ {0} /\ Common \in Nat \ {0} /\ 4 * q <= Common
    BY <1>1, Periods DEF TimerInv, Shown, InTime
  <2>2. PICK d \in Durations : \E e \in I!PollAssist(I!PollXtal(I!Later(b, d))) :
          calc' = I!handle_interrupt(I!Poll3(e))
    BY <1>1 DEF I!Halted, I!Ends, I!handle_pio
  <2>3. /\ DOMAIN b = Machine /\ b.halt = calc.halt /\ b.iff1 = calc.iff1 /\ b.ei_block = FALSE
        /\ b.mask = calc.mask /\ b.rate = calc.rate
        /\ b.since1 = calc.since1 /\ b.since2 = calc.since2
    BY <2>1, BegunAwake
  <2> HIDE DEF b
  <2>4. /\ calc'.iff1 /\ calc'.mask = calc.mask /\ calc'.rate = calc.rate /\ Unasked(calc')
        /\ "t1" \in calc.mask => calc'.since1 = I!Cut(calc.since1 + d)
        /\ "t2" \in calc.mask => calc'.since2 = I!Cut(calc.since2 + d)
    <3>1. calc'.halt /\ b.iff1 /\ ~b.ei_block
      BY <1>1, <2>3
    <3>2. DOMAIN b = Machine
      BY <2>3
    <3>3. /\ calc'.iff1 /\ calc'.mask = b.mask /\ calc'.rate = b.rate /\ Unasked(calc')
          /\ "t1" \in b.mask => calc'.since1 = I!Cut(b.since1 + d)
          /\ "t2" \in b.mask => calc'.since2 = I!Cut(b.since2 + d)
      BY <2>2, <3>1, <3>2, EndsAwake
    <3> QED BY <2>3, <3>3
  <2>5. /\ I!Period1 = 4 * q /\ I!Period2 = 2 * q
        /\ I!Max1(calc') = 4 * q /\ I!Max2(calc') = 2 * q
    BY <2>4 DEF I!Period1, I!Period2, I!Max1, I!Max2
  <2> HIDE DEF q
  <2>6. d \in Nat
    BY QuarterAssumption DEF I!QuarterOK
  <2>7. ASSUME NEW s \in Int, I!Cut(s) <= 4 * q PROVE I!Cut(s) = s
    BY <2>1, <2>7 DEF I!Cut
  <2>8. ASSUME NEW s \in Int PROVE I!Cut(s) \in Int
    BY <2>1, <2>8 DEF I!Cut
  <2>9. ASSUME "t1" \in calc.mask
        PROVE  calc'.since1 = calc.since1 + d /\ calc'.since1 <= I!Period1
    <3>1. calc.since1 + d \in Int /\ calc'.since1 = I!Cut(calc.since1 + d)
      BY <2>1, <2>4, <2>6, <2>9
    <3>2. ~(calc'.since1 > 4 * q)
      BY <2>4, <2>5, <2>9 DEF Unasked, I!Asks1
    <3>3. calc'.since1 <= 4 * q
      BY <2>1, <2>8, <3>1, <3>2
    <3> QED BY <2>5, <2>7, <3>1, <3>3
  <2>10. ASSUME "t2" \in calc.mask
         PROVE  calc'.since2 = calc.since2 + d /\ calc'.since2 <= I!Period2
    <3>1. calc.since2 + d \in Int /\ calc'.since2 = I!Cut(calc.since2 + d)
      BY <2>1, <2>4, <2>6, <2>10
    <3>2. ~(calc'.since2 > 2 * q)
      BY <2>4, <2>5, <2>10 DEF Unasked, I!Asks2
    <3>3. calc'.since2 <= 2 * q /\ calc'.since2 <= 4 * q
      BY <2>1, <2>8, <3>1, <3>2
    <3> QED BY <2>5, <2>7, <3>1, <3>3
  <2> QED BY <2>4, <2>9, <2>10
<1>2. TimerInv(calc) /\ [Next]_vars => [Step => Ahead]_vars
  BY <1>1
<1> QED BY <1>2, TimerInvHolds, PTL DEF Spec, Nearer

(***************************************************************************)
(* The queue of the grey scale.  It is counted around, newest first: to    *)
(* put a picture in, front steps back by one place, and what was at place  *)
(* i is at place i + 1.  QueueInv is kept by every access, because only    *)
(* LCD_enqueue and LCD_reset touch the queue, and front is touched but by  *)
(* them and by a word past the display, after which nothing is asked for.  *)
(***************************************************************************)
LcdFields == {"active", "word_len", "cursor_mode", "x", "y", "z", "last_read", "display",
              "front", "queue", "since"}

Members(s) == {s[i] : i \in 1..Len(s)}

QueueInv(l, s) ==
  /\ DOMAIN l = LcdFields
  /\ l.cursor_mode \in D!Directions /\ l.z \in D!Rows
  /\ (Len(s) > 0 => l.front \in D!Places) /\ DOMAIN l.queue = D!Places
  /\ s \in Seq(Members(s)) /\ Len(s) <= Shades
  /\ \A i \in 1..Len(s) : l.queue[(l.front + i - 1) % Shades] = s[i]

(* A place less than twice around is found by at most one subtraction. *)
LEMMA Around ==
  \A n \in Nat \ {0}, a \in Int :
    0 <= a /\ a < n + n => (a < n => a % n = a) /\ (a >= n => a % n = a - n)
<1> TAKE n \in Nat \ {0}, a \in Int
<1> HAVE 0 <= a /\ a < n + n
<1> DEFINE q == a \div n
           r == a % n
<1>1. q \in Int /\ r \in 0..(n - 1) /\ a = n * q + r
  BY IntDivision
<1> HIDE DEF q, r
<1>2. q = 0 \/ q = 1
  <2>1. ASSUME q >= 2 PROVE FALSE
    <3>1. q - 1 \in Int /\ n * (q - 1) >= n
      BY <1>1, <2>1, NoSmallMultiple
    <3>2. n * q = n * (q - 1) + n
      BY <1>1
    <3> QED BY <1>1, <3>1, <3>2
  <2>2. ASSUME q <= -1 PROVE FALSE
    <3>1. -q \in Int /\ n * (-q) >= n /\ n * (-q) = -(n * q)
      BY <1>1, <2>2, NoSmallMultiple
    <3> QED BY <1>1, <3>1
  <2> QED BY <1>1, <2>1, <2>2
<1>3. (q = 0 => r = a) /\ (q = 1 => r = a - n)
  BY <1>1
<1> QED BY <1>1, <1>2, <1>3 DEF r

(* The row that goes to row x of the screen is the row x + z of the memory. *)
LEMMA RowShown ==
  ASSUME NEW z \in D!Rows, NEW x \in D!Rows
  PROVE  (CHOOSE i \in D!Rows : (i + Height - z) % Height = x) = (x + z) % Height
<1> DEFINE down == x + z
           r == down % Height
<1>1. Height \in Nat \ {0}
  BY DisplayAssumption DEF D!DisplayOK
<1>2. down \in Int /\ 0 <= down /\ down < Height + Height
  BY <1>1 DEF D!Rows
<1>3. ASSUME NEW i \in D!Rows
      PROVE  (i + Height - z) % Height = IF i < z THEN i + Height - z ELSE i - z
  <2> DEFINE up == i + Height - z
  <2>1. up \in Int /\ 0 <= up /\ up < Height + Height
    BY <1>1 DEF D!Rows
  <2>2. (up < Height <=> i < z) /\ up - Height = i - z
    BY <1>1 DEF D!Rows
  <2> HIDE DEF up
  <2>3. (up < Height => up % Height = up) /\ (up >= Height => up % Height = up - Height)
    BY <1>1, <2>1, Around
  <2>4. up % Height = IF i < z THEN up ELSE i - z
    BY <1>1, <2>1, <2>2, <2>3
  <2> QED BY <2>4 DEF up
<1> HIDE DEF down
<1>4. (down < Height => r = down) /\ (down >= Height => r = down - Height)
  BY <1>1, <1>2, Around
<1> HIDE DEF r
<1>5. r \in D!Rows /\ IF r < z THEN r + Height - z = x ELSE r - z = x
  BY <1>1, <1>2, <1>4 DEF D!Rows, down
<1>6. (r + Height - z) % Height = x
  BY <1>3, <1>5
<1>7. ASSUME NEW i \in D!Rows, (i + Height - z) % Height = x PROVE i = r
  <2>1. IF i < z THEN i + Height - z = x ELSE i - z = x
    BY <1>3, <1>7
  <2> QED BY <1>1, <1>5, <1>7, <2>1 DEF D!Rows
<1>8. (CHOOSE i \in D!Rows : (i + Height - z) % Height = x) = r
  BY <1>5, <1>6, <1>7
<1> QED BY <1>8 DEF r, down

Entered(l) == [i \in D!Places |-> IF i = D!Place(l) THEN D!Picture(l) ELSE l.queue[i]]

(* LCD_enqueue puts the picture on the screen before what was in the queue. *)
LEMMA EnqueueGives ==
  ASSUME NEW l, DOMAIN l = LcdFields, l.z \in D!Rows, NEW e, e = D!LCD_enqueue(l)
  PROVE  /\ DOMAIN e = LcdFields /\ \A f \in LcdFields \ {"front", "queue"} : e[f] = l[f]
         /\ e.front = D!Place(l)
         /\ e.queue = Entered(l)
<1> DEFINE up == [x \in D!Rows |-> l.display[CHOOSE i \in D!Rows : (i + Height - l.z) % Height = x]]
           front == D!Place(l)
           queue == [i \in D!Places |-> IF i = front THEN up ELSE l.queue[i]]
<1>1. \A x \in D!Rows : l.display[CHOOSE i \in D!Rows : (i + Height - l.z) % Height = x]
                          = l.display[(x + l.z) % Height]
  BY RowShown
<1>2. up = D!Picture(l)
  BY <1>1 DEF D!Picture
<1>3. e = [l EXCEPT !.front = front, !.queue = queue]
  BY DEF D!LCD_enqueue, LcdFields
<1> HIDE DEF front, queue
<1>4. /\ DOMAIN e = LcdFields /\ \A f \in LcdFields \ {"front", "queue"} : e[f] = l[f]
      /\ e.front = front /\ e.queue = queue
  BY <1>3 DEF LcdFields
<1> QED BY <1>2, <1>4 DEF front, queue, Entered

LEMMA OwnSet ==
  ASSUME NEW Images, NEW s \in Seq(Images)
  PROVE  s \in Seq(Members(s))
BY DEF Members

\* The pictures asked for, once p is one of them.
WithPicture(p, s) == D!Latest(<<p>> \o s)

LEMMA LatestIs ==
  ASSUME NEW s, s \in Seq(Members(s)), Len(s) <= Shades, NEW p
  PROVE  \A n : n = WithPicture(p, s) =>
                  /\ n \in Seq(Members(n)) /\ Len(n) <= Shades
                  /\ Len(n) \in 1..(Len(s) + 1) /\ n[1] = p
                  /\ \A i \in 2..Len(n) : n[i] = s[i - 1]
<1> TAKE n
<1> HAVE n = WithPicture(p, s)
<1> DEFINE Images == Members(s) \cup {p}
           t == <<p>> \o s
           k == IF Len(t) < Shades THEN Len(t) ELSE Shades
<1>1. s \in Seq(Images) /\ <<p>> \in Seq(Images)
  OBVIOUS
<1> HIDE DEF Images
<1>2. /\ t \in Seq(Images) /\ Len(t) = Len(s) + 1 /\ t[1] = p
      /\ \A i \in 2..Len(t) : t[i] = s[i - 1]
  BY <1>1
<1>3. n = SubSeq(t, 1, k)
  BY DEF WithPicture, D!Latest
<1>4. k \in 1..Len(t) /\ k <= Shades
  BY <1>2, DisplayAssumption DEF D!DisplayOK
<1> HIDE DEF t, k
<1>5. n \in Seq(Images) /\ Len(n) = k /\ \A i \in 1..k : n[i] = t[i]
  <2>1. \A i \in 1..k : t[i] \in Images
    BY <1>2, <1>4
  <2>2. /\ SubSeq(t, 1, k) \in Seq(Images) /\ Len(SubSeq(t, 1, k)) = k
        /\ \A i \in 1..(k - 1 + 1) : SubSeq(t, 1, k)[i] = t[1 + i - 1]
    BY <1>2, <1>4, <2>1, SubSeqProperties
  <2>3. \A i \in 1..k : i \in 1..(k - 1 + 1) /\ 1 + i - 1 = i
    BY <1>2, <1>4
  <2>4. \A i \in 1..k : SubSeq(t, 1, k)[i] = t[i]
    BY <2>2, <2>3
  <2> QED BY <1>3, <2>2, <2>4
<1>6. n \in Seq(Members(n))
  BY <1>5, OwnSet
<1>7. Len(n) \in 1..(Len(s) + 1) /\ Len(n) <= Shades
  BY <1>2, <1>4, <1>5
<1>8. n[1] = p /\ \A i \in 2..Len(n) : n[i] = s[i - 1]
  BY <1>2, <1>4, <1>5
<1> QED BY <1>6, <1>7, <1>8

LEMMA NothingAsked ==
  ASSUME NEW l, DOMAIN l = LcdFields, l.cursor_mode \in D!Directions, l.z \in D!Rows,
         DOMAIN l.queue = D!Places
  PROVE  QueueInv(l, <<>>)
<1>1. <<>> \in Seq(Members(<<>>)) /\ Len(<<>>) = 0 /\ Shades \in Nat \ {0}
  BY DisplayAssumption DEF D!DisplayOK
<1> QED BY <1>1 DEF QueueInv

LEMMA EnqueueKeeps ==
  ASSUME NEW l, NEW s, QueueInv(l, s), NEW n, n = D!Asked(l, s), NEW e, e = D!LCD_enqueue(l)
  PROVE  QueueInv(e, n)
<1>1. Shades \in Nat \ {0}
  BY DisplayAssumption DEF D!DisplayOK
<1>2. /\ DOMAIN e = LcdFields /\ \A f \in LcdFields \ {"front", "queue"} : e[f] = l[f]
      /\ e.front = D!Place(l)
      /\ e.queue = Entered(l)
  BY EnqueueGives DEF QueueInv
<1>3. /\ s \in Seq(Members(s)) /\ Len(s) <= Shades /\ Len(s) \in Nat
      /\ (Len(s) > 0 => l.front \in D!Places)
  BY DEF QueueInv
<1>8. e.cursor_mode \in D!Directions /\ e.z \in D!Rows /\ DOMAIN e.queue = D!Places
  BY <1>2 DEF QueueInv, LcdFields, Entered
<1>9. CASE D!Place(l) \notin D!Places
  <2>1. n = <<>>
    BY <1>9 DEF D!Asked
  <2> QED BY <1>1, <1>2, <1>8, <2>1, NothingAsked
<1>10. ASSUME D!Place(l) \in D!Places PROVE QueueInv(e, n)
  <2>0. n = WithPicture(D!Picture(l), s)
   BY <1>10 DEF D!Asked, WithPicture
  <2>4. /\ n \in Seq(Members(n)) /\ Len(n) <= Shades
       /\ Len(n) \in 1..(Len(s) + 1) /\ n[1] = D!Picture(l)
       /\ \A i \in 2..Len(n) : n[i] = s[i - 1]
   <3> DEFINE p == D!Picture(l)
   <3> HIDE DEF p
   <3>1. n = WithPicture(p, s)
     BY <2>0 DEF p
   <3>2. /\ n \in Seq(Members(n)) /\ Len(n) <= Shades
         /\ Len(n) \in 1..(Len(s) + 1) /\ n[1] = p
         /\ \A i \in 2..Len(n) : n[i] = s[i - 1]
     BY <1>3, <3>1, LatestIs
   <3> QED BY <3>2 DEF p
  <2>6. e.front \in D!Places
    BY <1>2, <1>10
  <2>7. ASSUME NEW i \in 1..Len(n) PROVE e.queue[(e.front + i - 1) % Shades] = n[i]
    <3> DEFINE a == e.front + i - 1
               o == l.front + (i - 1) - 1
               now == a % Shades
               was == o % Shades
    <3>1. Len(s) \in Nat /\ Len(n) \in Nat /\ i \in 1..Shades /\ (i # 1 => i - 1 \in 1..Len(s))
      BY <1>1, <1>3, <2>4
    <3>2. a \in Int /\ 0 <= a /\ a < Shades + Shades
      BY <1>1, <2>6, <3>1 DEF D!Places
    <3>12. i # 1 => /\ l.front \in D!Places
                    /\ e.front = (IF l.front = 0 THEN Shades ELSE l.front) - 1
      BY <1>2, <1>3, <3>1 DEF D!Place
    <3>3. i # 1 => o \in Int /\ 0 <= o /\ o < Shades + Shades
      BY <1>1, <3>1, <3>12 DEF D!Places
    <3>4. i # 1 => IF l.front = 0 THEN a = o + Shades ELSE a = o
      BY <1>1, <3>1, <3>12 DEF D!Places
    <3>5. IF i = 1 THEN a = e.front ELSE e.front < a /\ a < e.front + Shades
      BY <1>1, <2>6, <3>1 DEF D!Places
    <3>6. i # 1 /\ l.front = 0 => o < Shades /\ e.front = Shades - 1
      BY <1>1, <3>1, <3>12
    <3> HIDE DEF a, o
    <3>7. (a < Shades => now = a) /\ (a >= Shades => now = a - Shades)
      BY <1>1, <3>2, Around
    <3>8. i # 1 => (o < Shades => was = o) /\ (o >= Shades => was = o - Shades)
      BY <1>1, <3>3, Around
    <3> HIDE DEF now, was
    <3>9. CASE i = 1
      <4>1. now = e.front
        BY <1>1, <2>6, <3>2, <3>5, <3>7, <3>9 DEF D!Places
      <4> QED BY <1>2, <2>4, <2>6, <3>9, <4>1 DEF now, a, Entered
    <3>10. CASE i # 1
      <4>1. now = was /\ was # e.front /\ was \in D!Places
        BY <1>1, <2>6, <3>2, <3>3, <3>4, <3>5, <3>6, <3>7, <3>8, <3>10 DEF D!Places
      <4>2. l.queue[was] = s[i - 1]
        BY <3>1, <3>10 DEF QueueInv, was, o
      <4>3. n[i] = s[i - 1]
        BY <2>4, <3>1, <3>10
      <4>4. e.queue[now] = s[i - 1]
        BY <1>2, <4>1, <4>2 DEF Entered
      <4> QED BY <4>3, <4>4 DEF now, a
    <3> QED BY <3>9, <3>10
  <2> QED BY <1>2, <2>4, <2>6, <2>7, <1>8 DEF QueueInv
<1> QED BY <1>9, <1>10

(* What else an access does leaves the queue and what it is made with alone. *)
LEMMA SameQueue ==
  ASSUME NEW l, NEW s, QueueInv(l, s), NEW x, DOMAIN x = LcdFields, x.cursor_mode \in D!Directions,
         x.z \in D!Rows, x.front = l.front, x.queue = l.queue
  PROVE  QueueInv(x, s)
BY DEF QueueInv

LEMMA AdvanceFields ==
  ASSUME NEW l, DOMAIN l = LcdFields, l.cursor_mode \in D!Directions, NEW k, k = D!LCD_advance_cursor(l)
  PROVE  DOMAIN k = LcdFields /\ \A f \in LcdFields \ {"x", "y"} : k[f] = l[f]
<1>1. \/ \E v : k = [l EXCEPT !.x = v]
      \/ \E v : k = [l EXCEPT !.y = v]
  BY DEF D!LCD_advance_cursor, D!Directions
<1> QED BY <1>1 DEF LcdFields

LEMMA AdvanceKeeps ==
  ASSUME NEW l, NEW s, QueueInv(l, s)
  PROVE  QueueInv(D!LCD_advance_cursor(l), s)
<1> DEFINE x == D!LCD_advance_cursor(l)
<1>1. DOMAIN l = LcdFields /\ l.cursor_mode \in D!Directions /\ l.z \in D!Rows
  BY DEF QueueInv
<1>2. DOMAIN x = LcdFields /\ \A f \in LcdFields \ {"x", "y"} : x[f] = l[f]
  BY <1>1, AdvanceFields
<1> HIDE DEF x
<1>3. /\ DOMAIN x = LcdFields /\ x.cursor_mode = l.cursor_mode /\ x.z = l.z
      /\ x.front = l.front /\ x.queue = l.queue
  BY <1>2 DEF LcdFields
<1> QED BY <1>1, <1>3, SameQueue DEF x

\* A word is put into the display, and past it into front.
LEMMA PutFields ==
  ASSUME NEW l, DOMAIN l = LcdFields, NEW word, NEW k, k = D!Put(l, word)
  PROVE  DOMAIN k = LcdFields /\ \A f \in LcdFields \ {"display", "front"} : k[f] = l[f]
<1> DEFINE a == D!At(l)
           m == D!Merged(l, word)
           j == [l EXCEPT !.display[l.x][a] = m \div 256]
<1>1. \/ k = [l EXCEPT !.display[l.x][a] = word]
      \/ k = D!PutFollower(j, m % 256)
  BY DEF D!Put
<1> HIDE DEF a, m
<1>2. DOMAIN j = LcdFields /\ \A f \in LcdFields \ {"display", "front"} : j[f] = l[f]
  BY DEF LcdFields
<1> HIDE DEF j
<1>3. \/ k = [l EXCEPT !.display[l.x][a] = word]
      \/ k = [j EXCEPT !.display[j.x][D!At(j) + 1] = m % 256]
      \/ k = [j EXCEPT !.display[j.x + 1][0] = m % 256]
      \/ k = [j EXCEPT !.front = (j.front - (j.front % 256)) + (m % 256)]
  BY <1>1, <1>2 DEF D!PutFollower, LcdFields
<1> QED BY <1>2, <1>3 DEF LcdFields

\* What of the pictures asked for is found in the queue of k, which was that of l.
Known(l, k, s) == IF k.front = l.front THEN s ELSE <<>>
Wrote(l, word) == D!LCD_advance_cursor(D!Put(l, word))

LEMMA WroteKeeps ==
  ASSUME NEW l, NEW s, QueueInv(l, s), NEW word, NEW k, k = Wrote(l, word)
  PROVE  QueueInv(k, Known(l, k, s))
<1> DEFINE j == D!Put(l, word)
<1>1. /\ DOMAIN l = LcdFields /\ l.cursor_mode \in D!Directions /\ l.z \in D!Rows
      /\ DOMAIN l.queue = D!Places
  BY DEF QueueInv
<1>2. DOMAIN j = LcdFields /\ \A f \in LcdFields \ {"display", "front"} : j[f] = l[f]
  BY <1>1, PutFields
<1>3. k = D!LCD_advance_cursor(j)
  BY DEF Wrote
<1> HIDE DEF j
<1>4. DOMAIN k = LcdFields /\ \A f \in LcdFields \ {"x", "y"} : k[f] = j[f]
  <2>1. j.cursor_mode \in D!Directions
    BY <1>1, <1>2 DEF LcdFields
  <2> QED BY <1>2, <1>3, <2>1, AdvanceFields
<1>5. k.cursor_mode = l.cursor_mode /\ k.z = l.z /\ k.queue = l.queue
  BY <1>2, <1>4 DEF LcdFields
<1>6. CASE k.front = l.front
  BY <1>1, <1>4, <1>5, <1>6, SameQueue DEF Known
<1>7. CASE k.front # l.front
  BY <1>1, <1>4, <1>5, <1>7, NothingAsked DEF Known
<1> QED BY <1>6, <1>7

LEMMA QueueBegins ==
  ASSUME NEW n
  PROVE  QueueInv([D!Fresh EXCEPT !.since = n], <<>>)
<1> DEFINE x == [D!Fresh EXCEPT !.since = n]
<1>1. Height \in Nat \ {0} /\ Shades \in Nat \ {0}
  BY DisplayAssumption DEF D!DisplayOK
<1>2. /\ DOMAIN x = LcdFields /\ x.cursor_mode = "Y_UP" /\ x.z = 0 /\ x.front = 0
      /\ DOMAIN x.queue = D!Places
  BY DEF D!Fresh, LcdFields
<1> HIDE DEF x
<1>4. x.cursor_mode \in D!Directions /\ x.z \in D!Rows
  BY <1>1, <1>2 DEF D!Directions, D!Rows
<1>5. QueueInv(x, <<>>)
  BY <1>2, <1>4, NothingAsked
<1> QED BY <1>5 DEF x

LEMMA CommandKeeps ==
  ASSUME QueueInv(lcd, pictures), D!Command
  PROVE  QueueInv(lcd', pictures')
<1>1. DOMAIN lcd = LcdFields /\ lcd.cursor_mode \in D!Directions /\ lcd.z \in D!Rows
  BY DEF QueueInv
<1>2. ASSUME NEW l, DOMAIN l = LcdFields, l.cursor_mode \in D!Directions, l.z \in D!Rows,
             l.front = lcd.front, l.queue = lcd.queue, D!Becomes(l) \/ D!Shows(l)
      PROVE  QueueInv(lcd', pictures')
  <2>1. QueueInv(l, pictures)
    BY <1>2, SameQueue
  <2> QED BY <1>2, <2>1, EnqueueKeeps DEF D!Becomes, D!Shows
<1>3. ASSUME NEW on, D!SetActive(on) PROVE QueueInv(lcd', pictures')
  <2> DEFINE l == [D!Written EXCEPT !.active = on]
  <2>1. DOMAIN l = LcdFields /\ l.cursor_mode = lcd.cursor_mode /\ l.z = lcd.z
        /\ l.front = lcd.front /\ l.queue = lcd.queue
    BY <1>1 DEF D!Written, LcdFields
  <2>2. D!Shows(l)
    BY <1>3 DEF D!SetActive
  <2> HIDE DEF l
  <2> QED BY <1>1, <1>2, <2>1, <2>2
<1>4. ASSUME NEW size, D!SetWord(size) PROVE QueueInv(lcd', pictures')
  <2> DEFINE l == [D!Written EXCEPT !.word_len = size]
  <2>1. DOMAIN l = LcdFields /\ l.cursor_mode = lcd.cursor_mode /\ l.z = lcd.z
        /\ l.front = lcd.front /\ l.queue = lcd.queue
    BY <1>1 DEF D!Written, LcdFields
  <2>2. D!Becomes(l)
    BY <1>4 DEF D!SetWord
  <2> HIDE DEF l
  <2> QED BY <1>1, <1>2, <2>1, <2>2
<1>5. ASSUME NEW d \in D!Directions, D!SetDirection(d) PROVE QueueInv(lcd', pictures')
  <2> DEFINE l == [D!Written EXCEPT !.cursor_mode = d]
  <2>1. DOMAIN l = LcdFields /\ l.cursor_mode = d /\ l.z = lcd.z
        /\ l.front = lcd.front /\ l.queue = lcd.queue
    BY <1>1 DEF D!Written, LcdFields
  <2>2. D!Becomes(l)
    BY <1>5 DEF D!SetDirection
  <2> HIDE DEF l
  <2> QED BY <1>1, <1>2, <1>5, <2>1, <2>2
<1>6. ASSUME NEW x, D!SetRow(x) PROVE QueueInv(lcd', pictures')
  <2> DEFINE l == [D!Written EXCEPT !.x = x]
  <2>1. DOMAIN l = LcdFields /\ l.cursor_mode = lcd.cursor_mode /\ l.z = lcd.z
        /\ l.front = lcd.front /\ l.queue = lcd.queue
    BY <1>1 DEF D!Written, LcdFields
  <2>2. D!Becomes(l)
    BY <1>6 DEF D!SetRow
  <2> HIDE DEF l
  <2> QED BY <1>1, <1>2, <2>1, <2>2
<1>7. ASSUME NEW y, D!SetColumn(y) PROVE QueueInv(lcd', pictures')
  <2> DEFINE l == [D!Written EXCEPT !.y = y]
  <2>1. DOMAIN l = LcdFields /\ l.cursor_mode = lcd.cursor_mode /\ l.z = lcd.z
        /\ l.front = lcd.front /\ l.queue = lcd.queue
    BY <1>1 DEF D!Written, LcdFields
  <2>2. D!Becomes(l)
    BY <1>7 DEF D!SetColumn
  <2> HIDE DEF l
  <2> QED BY <1>1, <1>2, <2>1, <2>2
<1>8. ASSUME NEW z \in D!Rows, D!SetTop(z) PROVE QueueInv(lcd', pictures')
  <2> DEFINE l == [D!Written EXCEPT !.z = z]
  <2>1. DOMAIN l = LcdFields /\ l.cursor_mode = lcd.cursor_mode /\ l.z = z
        /\ l.front = lcd.front /\ l.queue = lcd.queue
    BY <1>1 DEF D!Written, LcdFields
  <2>2. D!Shows(l)
    BY <1>8 DEF D!SetTop
  <2> HIDE DEF l
  <2> QED BY <1>1, <1>2, <1>8, <2>1, <2>2
<1>9. CASE UNCHANGED <<lcd, pictures>>
  BY <1>9
<1> QED BY <1>3, <1>4, <1>5, <1>6, <1>7, <1>8, <1>9 DEF D!Command

(* A word: a picture is put into the queue before it, after it or not at all. *)
LEMMA DataOutIs ==
  ASSUME NEW word, D!DataOut(word)
  PROVE  LET done == Wrote(D!Written, word)
             before == D!LCD_enqueue(D!Written)
             late == Wrote(before, word)
         IN \/ lcd' = done /\ pictures' = Known(D!Written, done, pictures)
            \/ lcd' = D!LCD_enqueue(done) /\ pictures' = D!Asked(done, Known(D!Written, done, pictures))
            \/ lcd' = late /\ pictures' = Known(before, late, D!Asked(lcd, pictures))
BY DEF D!DataOut, Wrote, Known

LEMMA DataOutKeeps ==
  ASSUME QueueInv(lcd, pictures), NEW word, D!DataOut(word)
  PROVE  QueueInv(lcd', pictures')
<1> DEFINE w == D!Written
           done == Wrote(w, word)
           before == D!LCD_enqueue(w)
           late == Wrote(before, word)
<1>1. DOMAIN lcd = LcdFields /\ lcd.cursor_mode \in D!Directions /\ lcd.z \in D!Rows
  BY DEF QueueInv
<1>2. /\ DOMAIN w = LcdFields /\ w.cursor_mode = lcd.cursor_mode /\ w.z = lcd.z
      /\ w.front = lcd.front /\ w.queue = lcd.queue /\ w.display = lcd.display
  BY <1>1 DEF D!Written, LcdFields
<1>3. \/ lcd' = done /\ pictures' = Known(w, done, pictures)
      \/ lcd' = D!LCD_enqueue(done) /\ pictures' = D!Asked(done, Known(w, done, pictures))
      \/ lcd' = late /\ pictures' = Known(before, late, D!Asked(lcd, pictures))
  BY DataOutIs
<1> HIDE DEF w
<1>4. D!Asked(w, pictures) = D!Asked(lcd, pictures)
  BY <1>2 DEF D!Asked, D!Place, D!Picture
<1>5. QueueInv(w, pictures)
  BY <1>1, <1>2, SameQueue
<1>6. QueueInv(done, Known(w, done, pictures))
  BY <1>5, WroteKeeps
<1>7. QueueInv(before, D!Asked(lcd, pictures))
  BY <1>4, <1>5, EnqueueKeeps
<1> HIDE DEF before
<1>8. QueueInv(late, Known(before, late, D!Asked(lcd, pictures)))
  BY <1>7, WroteKeeps
<1> HIDE DEF done, late
<1> QED BY <1>3, <1>6, <1>8, EnqueueKeeps

LEMMA DisplayKeepsQueue ==
  ASSUME QueueInv(lcd, pictures), [Next]_vars
  PROVE  QueueInv(lcd', pictures')
<1>1. DOMAIN lcd = LcdFields /\ lcd.cursor_mode \in D!Directions /\ lcd.z \in D!Rows
  BY DEF QueueInv
<1>2. CASE UNCHANGED <<lcd, pictures>>
  BY <1>2
<1>3. CASE D!DataIn
  <2> DEFINE l == [lcd EXCEPT !.last_read = D!Get(lcd)]
             done == D!LCD_advance_cursor(l)
  <2>1. DOMAIN l = LcdFields /\ l.cursor_mode = lcd.cursor_mode /\ l.z = lcd.z
        /\ l.front = lcd.front /\ l.queue = lcd.queue
    BY <1>1 DEF LcdFields
  <2>2. D!Becomes(done) \/ D!Shows(done)
    BY <1>3 DEF D!DataIn
  <2> HIDE DEF l
  <2>3. QueueInv(done, pictures)
    BY <1>1, <2>1, SameQueue, AdvanceKeeps
  <2> HIDE DEF done
  <2> QED BY <2>2, <2>3, EnqueueKeeps DEF D!Becomes, D!Shows
<1>4. CASE D!Time
  <2> DEFINE l == [lcd EXCEPT !.since = @ + 1]
  <2>1. DOMAIN l = LcdFields /\ l.cursor_mode = lcd.cursor_mode /\ l.z = lcd.z
        /\ l.front = lcd.front /\ l.queue = lcd.queue
    BY <1>1 DEF LcdFields
  <2>2. lcd' = l /\ pictures' = pictures
    BY <1>4 DEF D!Time, D!Becomes
  <2> HIDE DEF l
  <2> QED BY <1>1, <2>1, <2>2, SameQueue
<1>5. CASE D!LCD_reset
  BY <1>5, QueueBegins DEF D!LCD_reset
<1> QED
  BY <1>2, <1>3, <1>4, <1>5, CommandKeeps, DataOutKeeps
  DEF Next, vars, display, Processor, Standard, Crystal, Asking, Link, Display, Save,
      OfTimers, OfLink, OfSave, D!Next, D!DataLost

(* The queue holds the last pictures asked for from front on, newest first, for      *)
(* every height of the display and every number of shades: a picture put in before   *)
(* or after the word of an access takes the place of the oldest one, unless a word   *)
(* past the end of the display has written over front since they were asked for.     *)
THEOREM PicturesAreInOrder == Spec => []PicturesInOrder
<1>1. Init => QueueInv(lcd, pictures)
  <2> SUFFICES ASSUME Init PROVE QueueInv(lcd, pictures)
    OBVIOUS
  <2>1. lcd = [D!Fresh EXCEPT !.since = D!Fresh.since] /\ pictures = <<>>
    BY DEF Init, D!Init, D!Fresh
  <2> QED BY <2>1, QueueBegins
<1>2. QueueInv(lcd, pictures) /\ [Next]_vars => QueueInv(lcd, pictures)'
  BY DisplayKeepsQueue
<1>3. QueueInv(lcd, pictures) => PicturesInOrder
  BY DEF QueueInv, PicturesInOrder, D!PicturesInOrder
<1> QED BY <1>1, <1>2, <1>3, PTL DEF Spec

(***************************************************************************)
(* The powers of two that a pair of bytes holds.  The provers know 2^k of  *)
(* a number k only, not of a variable, so the sixteen are told one by one. *)
(***************************************************************************)
Power(k) == 2^k

LEMMA Doubled == \A k \in 0..15 : Power(k + 1) = 2 * Power(k) /\ Power(k) \in Nat \ {0}
<1> TAKE k \in 0..15
<1>0. CASE k = 0
  BY <1>0 DEF Power
<1>1. CASE k = 1
  BY <1>1 DEF Power
<1>2. CASE k = 2
  BY <1>2 DEF Power
<1>3. CASE k = 3
  BY <1>3 DEF Power
<1>4. CASE k = 4
  BY <1>4 DEF Power
<1>5. CASE k = 5
  BY <1>5 DEF Power
<1>6. CASE k = 6
  BY <1>6 DEF Power
<1>7. CASE k = 7
  BY <1>7 DEF Power
<1>8. CASE k = 8
  BY <1>8 DEF Power
<1>9. CASE k = 9
  BY <1>9 DEF Power
<1>10. CASE k = 10
  BY <1>10 DEF Power
<1>11. CASE k = 11
  BY <1>11 DEF Power
<1>12. CASE k = 12
  BY <1>12 DEF Power
<1>13. CASE k = 13
  BY <1>13 DEF Power
<1>14. CASE k = 14
  BY <1>14 DEF Power
<1>15. CASE k = 15
  BY <1>15 DEF Power
<1> QED BY <1>0, <1>1, <1>2, <1>3, <1>4, <1>5, <1>6, <1>7, <1>8, <1>9, <1>10, <1>11, <1>12, <1>13, <1>14, <1>15

LEMMA PowerOfSum == \A j \in 0..15 : \A k \in 0..(15 - j) : Power(k + j) = Power(k) * Power(j)
<1> DEFINE Holds(j) == \A k \in 0..(15 - j) : Power(k + j) = Power(k) * Power(j)
           Bad == {j \in 0..15 : ~Holds(j)}
<1> SUFFICES ASSUME Bad # {} PROVE FALSE
  OBVIOUS
<1>1. PICK j \in Bad : \A i \in Bad : <<i, j>> \notin OpToRel(<, Nat)
  <2>1. Bad \subseteq Nat
    OBVIOUS
  <2> HIDE DEF Bad
  <2> QED BY <2>1, WFMin, NatLessThanWellFounded
<1>2. Holds(0)
  <2>1. Power(0) = 1
    BY DEF Power
  <2>2. \A k \in 0..15 : Power(k) \in Nat
    BY Doubled
  <2>3. ASSUME NEW k \in 0..(15 - 0) PROVE Power(k + 0) = Power(k) * Power(0)
    <3>1. k + 0 = k /\ Power(k) * 1 = Power(k)
      BY <2>2
    <3> QED BY <2>1, <3>1
  <2> QED BY <2>3
<1> HIDE DEF Holds
<1>3. j - 1 \in 0..14 /\ Holds(j - 1)
  <2>1. j \in 0..15 /\ ~Holds(j)
    BY <1>1
  <2>2. j # 0
    BY <1>2, <2>1
  <2>3. j - 1 \in 0..15 /\ j - 1 \in Nat /\ j \in Nat /\ j - 1 < j /\ j - 1 \in 0..14
    BY <2>1, <2>2
  <2>4. <<j - 1, j>> \in OpToRel(<, Nat)
    BY <2>3, Zenon DEF OpToRel
  <2>5. j - 1 \notin Bad
    BY <1>1, <2>4
  <2> QED BY <2>3, <2>5
<1>4. ASSUME NEW k \in 0..(15 - j) PROVE Power(k + j) = Power(k) * Power(j)
  <2> DEFINE i == j - 1
             a == Power(k + i)
             b == Power(k)
             c == Power(i)
  <2>1. /\ i \in 0..14 /\ i \in 0..15 /\ k \in 0..(15 - i) /\ k + i \in 0..15
        /\ k + i + 1 = k + j /\ i + 1 = j /\ k \in 0..15
    BY <1>3
  <2>2. a = b * c
    BY <1>3, <2>1 DEF Holds
  <2>3. b \in Nat /\ c \in Nat
    BY <2>1, Doubled
  <2>4. Power(k + j) = 2 * a /\ Power(j) = 2 * c
    <3>1. Power(k + i + 1) = 2 * a /\ Power(i + 1) = 2 * c
      BY <2>1, Doubled
    <3> QED BY <2>1, <3>1
  <2> HIDE DEF a, b, c
  <2>5. 2 * (b * c) = b * (2 * c)
    BY <2>3
  <2> QED BY <2>2, <2>4, <2>5 DEF b
<1>5. Holds(j)
  BY <1>4 DEF Holds
<1> QED BY <1>1, <1>5

LEMMA DivisionIs ==
  ASSUME NEW n \in Nat \ {0}, NEW a \in Int, NEW q \in Int, NEW r \in 0..(n - 1), a = n * q + r
  PROVE  a \div n = q /\ a % n = r
<1> DEFINE k == a \div n
           m == a % n
<1>1. a = n * k + m /\ k \in Int /\ m \in 0..(n - 1)
  BY IntDivision
<1> HIDE DEF k, m
<1>2. n * (k - q) = r - m /\ n * (q - k) = m - r /\ k - q \in Int /\ q - k \in Int
  BY <1>1
<1>3. ~(k - q >= 1) /\ ~(q - k >= 1)
  BY <1>1, <1>2, NoSmallMultiple
<1>4. k = q
  BY <1>1, <1>3
<1>5. m = r
  BY <1>1, <1>4
<1> QED BY <1>4, <1>5 DEF k, m

LEMMA DivisionOfSum ==
  ASSUME NEW n \in Nat \ {0}, NEW a \in Int, NEW m \in Int
  PROVE  (a + n * m) \div n = (a \div n) + m
<1> DEFINE q == a \div n
           r == a % n
           b == a + n * m
<1>1. q \in Int /\ r \in 0..(n - 1) /\ a = n * q + r
  BY IntDivision
<1> HIDE DEF q, r
<1>2. b \in Int /\ q + m \in Int /\ b = n * (q + m) + r
  BY <1>1
<1> HIDE DEF b
<1>3. b \div n = q + m
  BY <1>1, <1>2, DivisionIs
<1> QED BY <1>3 DEF b, q

LEMMA DivisionTwice ==
  \A a \in Int : \A n, m \in Nat \ {0} : (a \div n) \div m = a \div (n * m)
<1> TAKE a \in Int
<1> TAKE n, m \in Nat \ {0}
<1> DEFINE q == a \div n
           r == a % n
           j == q \div m
           k == q % m
           nm == n * m
           e == n * k + r
<1>1. q \in Int /\ r \in 0..(n - 1) /\ a = n * q + r
  BY IntDivision
<1>2. j \in Int /\ k \in 0..(m - 1) /\ q = m * j + k
  BY <1>1, IntDivision
<1> HIDE DEF q, r, j, k
<1>3. nm \in Nat \ {0}
  <2>1. n * m >= n
    BY NoSmallMultiple
  <2> QED BY <2>1
<1>4. e \in 0..(nm - 1)
  <2>1. m - k \in Int /\ m - k >= 1 /\ n * (m - k) >= n
    BY <1>2, NoSmallMultiple
  <2>2. n * (m - k) = nm - n * k /\ n * k \in Nat
    BY <1>2
  <2> HIDE DEF nm
  <2> QED BY <1>1, <1>2, <1>3, <2>1, <2>2
<1>5. a = nm * j + e
  <2>1. n * q = n * (m * j) + n * k /\ n * (m * j) = (n * m) * j
    BY <1>2
  <2> QED BY <1>1, <1>2, <2>1
<1> HIDE DEF nm, e
<1>6. a \div nm = j
  BY <1>2, <1>3, <1>4, <1>5, DivisionIs
<1> QED BY <1>6 DEF nm, j, q

(* A bit of a number: the one of weight w. *)
BitOf(n, w) == (n \div w) % 2

LEMMA BitBelow ==
  \A a, m \in Int : \A w \in Nat \ {0} : BitOf(a + (2 * w) * m, w) = BitOf(a, w)
<1> TAKE a, m \in Int
<1> TAKE w \in Nat \ {0}
<1> DEFINE q == a \div w
           b == a + (2 * w) * m
<1>1. q \in Int
  BY IntDivision
<1>2. (2 * w) * m = w * (2 * m)
  OBVIOUS
<1>3. b \div w = q + 2 * m
  BY <1>2, DivisionOfSum
<1> HIDE DEF q
<1>4. (q + 2 * m) % 2 = q % 2
  BY <1>1
<1> QED BY <1>3, <1>4 DEF BitOf, q

\* Six bits of weight s and more are replaced in p by those of w.
Six(p, w, s) == p - ((p \div s) % 64) * s + w * s

\* What that does to the bits of n: those below and above stay.
Replaced(n, p, w, s) ==
  /\ n \in Nat
  /\ n \div (s * 64) = p \div (s * 64)
  /\ \A k, j \in Nat \ {0} : s = (2 * k) * j => BitOf(n, k) = BitOf(p, k)
  /\ \A k, j \in Nat \ {0} : 64 = (2 * k) * j => BitOf(n, s * k) = BitOf(w, k)
  /\ \A k \in Nat \ {0} : BitOf(n, (s * 64) * k) = BitOf(p, (s * 64) * k)

LEMMA SixReplaced ==
  ASSUME NEW s \in Nat \ {0}, NEW p \in Nat, NEW w \in 0..63,
         NEW n, n = Six(p, w, s)
  PROVE  Replaced(n, p, w, s)
<1> DEFINE q == p \div s
           r == p % s
           old == q % 64
           high == q \div 64
<1>1. q \in Int /\ r \in 0..(s - 1) /\ p = s * q + r
  <2>1. p \in Int
    OBVIOUS
  <2> QED BY <2>1, IntDivision
<1> HIDE DEF q, r
<1>2. high \in Int /\ old \in 0..63 /\ q = 64 * high + old
  BY <1>1
<1>3. n = p - old * s + w * s
  BY DEF q, Six
<1> HIDE DEF old, high
<1>4. q >= 0 /\ high >= 0
  <2>1. ASSUME q <= -1 PROVE FALSE
    <3>1. s * (-q) >= s /\ s * (-q) = -(s * q)
      BY <1>1, <2>1, NoSmallMultiple
    <3> QED BY <1>1, <3>1
  <2> QED BY <1>1, <1>2, <2>1
<1>5. n \in Int /\ n = s * (64 * high + w) + r
  <2>1. s * q = s * (64 * high) + s * old /\ s * (64 * high + w) = s * (64 * high) + s * w
    BY <1>2
  <2> QED BY <1>1, <1>2, <1>3, <2>1
<1>6. n \in Nat
  <2>1. s * (64 * high + w) \in Nat
    BY <1>2, <1>4
  <2> QED BY <1>1, <1>5, <2>1
<1>7. n \div s = 64 * high + w
  <2> DEFINE e == 64 * high + w
  <2>1. e \in Int /\ n = s * e + r
    BY <1>2, <1>5
  <2> HIDE DEF e
  <2>2. n \div s = e
    BY <1>1, <1>5, <2>1, DivisionIs
  <2> QED BY <2>2 DEF e
<1>8. n \div (s * 64) = high /\ p \div (s * 64) = high
  <2>1. (64 * high + w) \div 64 = high
    BY <1>2
  <2>2. (n \div s) \div 64 = n \div (s * 64) /\ (p \div s) \div 64 = p \div (s * 64)
    <3>1. n \in Int /\ p \in Int /\ 64 \in Nat \ {0}
      BY <1>5
    <3> QED BY <3>1, DivisionTwice, Zenon
  <2> QED BY <1>7, <2>1, <2>2 DEF high, q
<1>9. ASSUME NEW k \in Nat \ {0}, NEW j \in Nat \ {0}, s = (2 * k) * j
      PROVE  BitOf(n, k) = BitOf(p, k)
  <2> DEFINE m == j * (w - old)
  <2>1. m \in Int /\ n = p + (2 * k) * m
    <3>1. (2 * k) * (j * (w - old)) = ((2 * k) * j) * (w - old)
      BY <1>2
    <3>2. ((2 * k) * j) * (w - old) = s * w - s * old
      BY <1>2, <1>9
    <3> QED BY <1>2, <1>3, <3>1, <3>2
  <2> HIDE DEF m
  <2>2. BitOf(p + (2 * k) * m, k) = BitOf(p, k)
    <3>1. p \in Int /\ m \in Int
      BY <2>1
    <3> QED BY <3>1, BitBelow, Zenon
  <2> QED BY <2>1, <2>2
<1>10. ASSUME NEW k \in Nat \ {0}, NEW j \in Nat \ {0}, 64 = (2 * k) * j
       PROVE  BitOf(n, s * k) = BitOf(w, k)
  <2> DEFINE m == j * high
  <2>1. m \in Int /\ 64 * high + w = w + (2 * k) * m
    <3>1. (2 * k) * (j * high) = ((2 * k) * j) * high
      BY <1>2
    <3> QED BY <1>2, <1>10, <3>1
  <2>2. (n \div s) \div k = n \div (s * k)
    BY <1>5, DivisionTwice
  <2> HIDE DEF m
  <2>3. BitOf(w + (2 * k) * m, k) = BitOf(w, k)
    <3>1. w \in Int /\ m \in Int
      BY <2>1
    <3> QED BY <3>1, BitBelow, Zenon
  <2> QED BY <1>7, <2>1, <2>2, <2>3 DEF BitOf
<1>11. ASSUME NEW k \in Nat \ {0}
       PROVE  BitOf(n, (s * 64) * k) = BitOf(p, (s * 64) * k)
  <2> DEFINE t == s * 64
  <2>1. t \in Nat \ {0}
    OBVIOUS
  <2>2. n \div t = p \div t
    BY <1>8
  <2> HIDE DEF t
  <2>3. (n \div t) \div k = n \div (t * k) /\ (p \div t) \div k = p \div (t * k)
    <3>1. n \in Int /\ p \in Int
      BY <1>5
    <3> QED BY <2>1, <3>1, DivisionTwice, Zenon
  <2>4. BitOf(n, t * k) = BitOf(p, t * k)
    BY <2>2, <2>3 DEF BitOf
  <2> QED BY <2>4 DEF t
<1> QED BY <1>6, <1>8, <1>9, <1>10, <1>11 DEF Replaced

(* A number below 2 * w * m stays below it when a bit of weight w is set that was clear. *)
LEMMA BitSet ==
  \A n, m \in Nat : \A w \in Nat \ {0} :
    n < (2 * w) * m /\ BitOf(n, w) # 1 => n + w < (2 * w) * m
<1> TAKE n, m \in Nat
<1> TAKE w \in Nat \ {0}
<1> DEFINE q == n \div w
           r == n % w
           h == q \div 2
<1>1. q \in Int /\ r \in 0..(w - 1) /\ n = w * q + r
  BY IntDivision
<1> HAVE n < (2 * w) * m /\ BitOf(n, w) # 1
<1>2. q % 2 # 1
  BY DEF BitOf
<1> HIDE DEF q, r
<1>3. h \in Int /\ q = 2 * h
  BY <1>1, <1>2
<1> HIDE DEF h
<1>4. h < m
  <2>1. ASSUME h >= m PROVE FALSE
    <3>1. (2 * w) * h >= (2 * w) * m
      BY <1>3, <2>1
    <3>2. (2 * w) * h = w * (2 * h)
      BY <1>3
    <3> QED BY <1>1, <1>3, <3>1, <3>2
  <2> QED BY <1>3, <2>1
<1>5. (2 * w) * (m - h) >= 2 * w /\ (2 * w) * (m - h) = (2 * w) * m - w * (2 * h)
  <2>1. 2 * w \in Nat \ {0} /\ m - h \in Int /\ m - h >= 1
    BY <1>3, <1>4
  <2>2. (2 * w) * (m - h) >= 2 * w
    BY <2>1, NoSmallMultiple
  <2> QED BY <1>3, <2>2
<1> QED BY <1>1, <1>3, <1>5

LEMMA SameAbove ==
  \A n, p, m \in Nat : \A t \in Nat \ {0} : n \div t = p \div t /\ p < t * m => n < t * m
<1> TAKE n, p, m \in Nat
<1> TAKE t \in Nat \ {0}
<1> DEFINE h == p \div t
           r == n % t
           u == p % t
<1>1. n = t * (n \div t) + r /\ r \in 0..(t - 1)
  BY IntDivision
<1>2. h \in Int /\ u \in 0..(t - 1) /\ p = t * h + u
  BY IntDivision
<1> HAVE n \div t = h /\ p < t * m
<1>3. n = t * h + r
  BY <1>1
<1> HIDE DEF h, r, u
<1>4. h < m
  <2>1. ASSUME h >= m PROVE FALSE
    <3>1. t * h >= t * m
      BY <1>2, <2>1
    <3> QED BY <1>2, <3>1
  <2> QED BY <1>2, <2>1
<1>5. t * (m - h) >= t /\ t * (m - h) = t * m - t * h
  <2>1. m - h \in Int /\ m - h >= 1
    BY <1>2, <1>4
  <2> QED BY <1>2, <2>1, NoSmallMultiple
<1> QED BY <1>1, <1>2, <1>3, <1>5

(***************************************************************************)
(* Words of six bits.                                                      *)
(***************************************************************************)
WordBit(n, k) == BitOf(n, Power(k))
Shifts == {4, 6, 8, 10}

\* What a pair of bytes stays below.  The provers get the number only where it counts.
Full == 65536

(* How the weights of the sixteen bits divide where a word is shifted by s. *)
LEMMA Weights ==
  ASSUME NEW s \in Shifts
  PROVE  /\ Power(s) \in Nat \ {0}
         /\ Full = (Power(s) * 64) * Power(10 - s) /\ Power(10 - s) \in Nat \ {0}
         /\ \A k \in 0..(s - 1) : Power(s) = (2 * Power(k)) * Power(s - k - 1)
         /\ \A j \in 0..5 : Power(s + j) = Power(s) * Power(j)
         /\ \A j \in 0..5 : 64 = (2 * Power(j)) * Power(5 - j)
         /\ \A j \in 0..(9 - s) : Power(s + 6 + j) = (Power(s) * 64) * Power(j)
<1>1. s \in 0..10 /\ 10 - s \in 0..6
  BY DEF Shifts
<1>2. Power(0) = 1 /\ Power(6) = 64 /\ Power(10) = 1024
  BY DEF Power
<1>3. \A k \in 0..15 : Power(k) \in Nat \ {0}
  BY Doubled
<1>4. Power(10) = Power(s) * Power(10 - s)
  <2>1. Power(s + (10 - s)) = Power(s) * Power(10 - s) /\ s + (10 - s) = 10
    BY <1>1, PowerOfSum
  <2> QED BY <2>1
<1>5. Full = (Power(s) * 64) * Power(10 - s)
  <2> DEFINE a == Power(s)
             b == Power(10 - s)
  <2>1. a \in Nat /\ b \in Nat
    BY <1>1, <1>3
  <2>2. a * b = 1024
    BY <1>2, <1>4
  <2> HIDE DEF a, b
  <2>3. (a * 64) * b = 64 * (a * b)
    BY <2>1
  <2> QED BY <2>2, <2>3 DEF a, b, Full
<1>6. ASSUME NEW k \in 0..(s - 1) PROVE Power(s) = (2 * Power(k)) * Power(s - k - 1)
  <2>1. /\ k + 1 \in 0..15 /\ s - k - 1 \in 0..15 /\ k + 1 \in 0..(15 - (s - k - 1))
        /\ (k + 1) + (s - k - 1) = s /\ k \in 0..15
    BY <1>1
  <2>2. Power((k + 1) + (s - k - 1)) = Power(k + 1) * Power(s - k - 1)
    BY <2>1, PowerOfSum
  <2>3. Power(k + 1) = 2 * Power(k)
    BY <2>1, Doubled
  <2> QED BY <2>1, <2>2, <2>3
<1>7. ASSUME NEW j \in 0..5
      PROVE  Power(s + j) = Power(s) * Power(j) /\ 64 = (2 * Power(j)) * Power(5 - j)
  <2>1. j \in 0..15 /\ s \in 0..(15 - j) /\ 5 - j \in 0..15 /\ j + 1 \in 0..(15 - (5 - j))
        /\ (j + 1) + (5 - j) = 6
    BY <1>1
  <2>2. Power(s + j) = Power(s) * Power(j)
    BY <2>1, PowerOfSum
  <2>3. Power((j + 1) + (5 - j)) = Power(j + 1) * Power(5 - j)
    BY <2>1, PowerOfSum
  <2>4. Power(j + 1) = 2 * Power(j)
    BY <2>1, Doubled
  <2> QED BY <1>2, <2>1, <2>2, <2>3, <2>4
<1>8. ASSUME NEW j \in 0..(9 - s) PROVE Power(s + 6 + j) = (Power(s) * 64) * Power(j)
  <2>1. j \in 0..15 /\ s + 6 \in 0..(15 - j) /\ 6 \in 0..15 /\ s \in 0..(15 - 6)
    BY <1>1, <1>8
  <2>2. Power(s + 6 + j) = Power(s + 6) * Power(j)
    BY <2>1, PowerOfSum
  <2>3. Power(s + 6) = Power(s) * Power(6)
    BY <2>1, PowerOfSum
  <2> QED BY <1>2, <2>2, <2>3
<1> QED BY <1>1, <1>3, <1>5, <1>6, <1>7, <1>8

(* The sixteen bits of a pair of bytes once a word of six bits is put into it. *)
WordIn(n, p, w, s) ==
  /\ n \in Nat /\ n < Full
  /\ \A k \in s..(s + 5) : WordBit(n, k) = WordBit(w, k - s)
  /\ \A k \in 0..15 \ s..(s + 5) : WordBit(n, k) = WordBit(p, k)

LEMMA BitsReplaced ==
  ASSUME NEW s \in Shifts, NEW p \in Nat, p < Full, NEW w \in 0..63,
         NEW n, n = Six(p, w, Power(s))
  PROVE  WordIn(n, p, w, s)
<1> DEFINE z == Power(s)
<1>1. s \in 0..10 /\ z \in Nat \ {0} /\ p \in Nat
  BY Weights DEF Shifts
<1>2. n = Six(p, w, z)
  OBVIOUS
<1>3. Full = (z * 64) * Power(10 - s) /\ Power(10 - s) \in Nat
  BY Weights
<1>4. \A k \in 0..(s - 1) : z = (2 * Power(k)) * Power(s - k - 1)
  BY Weights
<1>5. \A j \in 0..5 : Power(s + j) = z * Power(j)
  BY Weights, Zenon
<1>6. \A j \in 0..5 : 64 = (2 * Power(j)) * Power(5 - j)
  BY Weights
<1>7. \A j \in 0..(9 - s) : Power(s + 6 + j) = (z * 64) * Power(j)
  BY Weights
<1>8. \A k \in 0..15 : Power(k) \in Nat \ {0}
  BY Doubled
<1> HIDE DEF z
<1>9. Replaced(n, p, w, z)
  BY <1>1, <1>2, SixReplaced
<1>10. n \in Nat /\ n < Full
  <2> DEFINE t == z * 64
             m == Power(10 - s)
  <2>1. n \in Nat /\ n \div t = p \div t
    BY <1>9 DEF Replaced
  <2>2. t \in Nat \ {0}
    BY <1>1
  <2>3. m \in Nat /\ t * m = Full
    BY <1>3
  <2> HIDE DEF t, m
  <2>4. p < t * m
    BY <2>2, <2>3
  <2>5. n < t * m
    <3>1. n \in Nat /\ p \in Nat /\ m \in Nat /\ n \div t = p \div t
      BY <1>1, <2>1, <2>3
    <3>2. \A o \in Nat \ {0} : n \div o = p \div o /\ p < o * m => n < o * m
      BY <3>1, SameAbove, Zenon
    <3> QED BY <2>2, <2>4, <3>1, <3>2, Zenon
  <2> QED BY <2>1, <2>3, <2>5
<1>11. ASSUME NEW k \in 0..15, k < s PROVE WordBit(n, k) = WordBit(p, k)
  <2> DEFINE a == Power(k)
             c == Power(s - k - 1)
  <2>1. k \in 0..(s - 1) /\ s - k - 1 \in 0..15
    BY <1>1, <1>11
  <2>2. a \in Nat \ {0} /\ c \in Nat \ {0}
    BY <1>8, <2>1
  <2>3. z = (2 * a) * c
    BY <1>4, <2>1
  <2> HIDE DEF a, c
  <2>4. BitOf(n, a) = BitOf(p, a)
    <3>1. \A i, j \in Nat \ {0} : z = (2 * i) * j => BitOf(n, i) = BitOf(p, i)
      BY <1>9 DEF Replaced
    <3> QED BY <2>2, <2>3, <3>1
  <2> QED BY <2>4 DEF WordBit, a
<1>12. ASSUME NEW k \in s..(s + 5) PROVE WordBit(n, k) = WordBit(w, k - s)
  <2> DEFINE j == k - s
             a == Power(j)
             c == Power(5 - j)
  <2>1. j \in 0..5 /\ j \in 0..15 /\ 5 - j \in 0..15 /\ s + j = k
    BY <1>1
  <2> HIDE DEF j
  <2>2. a \in Nat \ {0} /\ c \in Nat \ {0}
    BY <1>8, <2>1
  <2>3. Power(s + j) = z * a /\ 64 = (2 * a) * c
    <3>1. Power(s + j) = z * Power(j)
      BY <1>5, <2>1
    <3>2. 64 = (2 * Power(j)) * Power(5 - j)
      BY <1>6, <2>1
    <3> QED BY <3>1, <3>2
  <2> HIDE DEF a, c
  <2>4. BitOf(n, z * a) = BitOf(w, a)
    <3>1. \A i, l \in Nat \ {0} : 64 = (2 * i) * l => BitOf(n, z * i) = BitOf(w, i)
      BY <1>9 DEF Replaced
    <3> QED BY <2>2, <2>3, <3>1
  <2>5. Power(k) = z * a
    BY <2>1, <2>3
  <2> QED BY <2>4, <2>5 DEF WordBit, a, j
<1>13. ASSUME NEW k \in 0..15, k > s + 5 PROVE WordBit(n, k) = WordBit(p, k)
  <2> DEFINE j == k - s - 6
             a == Power(j)
  <2>1. j \in 0..(9 - s) /\ j \in 0..15 /\ s + 6 + j = k
    BY <1>1, <1>13
  <2> HIDE DEF j
  <2>2. a \in Nat \ {0}
    BY <1>8, <2>1
  <2>3. Power(s + 6 + j) = (z * 64) * a
    BY <1>7, <2>1
  <2> HIDE DEF a
  <2>4. BitOf(n, (z * 64) * a) = BitOf(p, (z * 64) * a)
    <3>1. \A i \in Nat \ {0} : BitOf(n, (z * 64) * i) = BitOf(p, (z * 64) * i)
      BY <1>9 DEF Replaced
    <3> QED BY <2>2, <3>1
  <2>5. Power(k) = (z * 64) * a
    BY <2>1, <2>3
  <2> QED BY <2>4, <2>5 DEF WordBit
<1>14. ASSUME NEW k \in 0..15 \ s..(s + 5) PROVE WordBit(n, k) = WordBit(p, k)
  <2>1. k \in 0..15 /\ (k < s \/ k > s + 5)
    BY <1>1
  <2> QED BY <1>11, <1>13, <2>1
<1> QED BY <1>10, <1>12, <1>14 DEF WordIn

(***************************************************************************)
(* A pair of bytes.                                                        *)
(***************************************************************************)
LEMMA FullIs ==
  /\ Full \in Nat
  /\ \A k \in 0..15 : Full = (2 * Power(k)) * Power(15 - k)
  /\ \A h, b \in 0..255 : h * 256 + b < Full
  /\ \A n \in Nat : n < Full => n \div 256 \in 0..255
<1>1. \A k \in 0..15 : Full = (2 * Power(k)) * Power(15 - k)
  <2> TAKE k \in 0..15
  <2>1. Power(15) = Power(k) * Power(15 - k)
    <3>1. 15 - k \in 0..15 /\ k \in 0..(15 - (15 - k)) /\ k + (15 - k) = 15
      OBVIOUS
    <3>2. Power(k + (15 - k)) = Power(k) * Power(15 - k)
      BY <3>1, PowerOfSum
    <3> QED BY <3>1, <3>2
  <2>2. Full = 2 * Power(15)
    BY DEF Full, Power
  <2>3. Power(k) \in Nat /\ Power(15 - k) \in Nat
    BY Doubled
  <2>4. 2 * (Power(k) * Power(15 - k)) = (2 * Power(k)) * Power(15 - k)
    BY <2>3
  <2> QED BY <2>1, <2>2, <2>4
<1>2. Full \in Nat /\ (\A h, b \in 0..255 : h * 256 + b < Full)
  BY DEF Full
<1>3. \A n \in Nat : n < Full => n \div 256 \in 0..255
  BY DEF Full
<1> QED BY <1>1, <1>2, <1>3

\* The bits of the two bytes of a number are its bits.
LEMMA BitsOfPair ==
  ASSUME NEW n \in Nat
  PROVE  /\ \A k \in 8..15 : WordBit(n, k) = WordBit(n \div 256, k - 8)
         /\ \A k \in 0..7 : WordBit(n, k) = WordBit(n % 256, k)
<1>1. Power(8) = 256
  BY DEF Power
<1>2. ASSUME NEW k \in 8..15 PROVE WordBit(n, k) = WordBit(n \div 256, k - 8)
  <2> DEFINE a == Power(k - 8)
  <2>1. k - 8 \in 0..15 /\ 8 \in 0..(15 - (k - 8)) /\ 8 + (k - 8) = k
    OBVIOUS
  <2>2. a \in Nat \ {0}
    BY <2>1, Doubled
  <2>3. Power(k) = 256 * a
    <3>1. Power(8 + (k - 8)) = Power(8) * Power(k - 8)
      BY <2>1, PowerOfSum
    <3> QED BY <1>1, <2>1, <3>1
  <2> HIDE DEF a
  <2>4. (n \div 256) \div a = n \div (256 * a)
    <3> DEFINE e == 256
    <3>1. n \in Int /\ e \in Nat \ {0}
      OBVIOUS
    <3> HIDE DEF e
    <3>2. (n \div e) \div a = n \div (e * a)
      BY <2>2, <3>1, DivisionTwice
    <3> QED BY <3>2 DEF e
  <2> QED BY <2>3, <2>4 DEF WordBit, BitOf, a
<1>3. ASSUME NEW k \in 0..7 PROVE WordBit(n, k) = WordBit(n % 256, k)
  <2> DEFINE a == Power(k)
             b == Power(7 - k)
             q == n \div 256
             r == n % 256
  <2>1. a \in Nat \ {0} /\ b \in Nat \ {0}
    BY Doubled
  <2>2. 256 = (2 * a) * b
    <3>1. 7 - k \in 0..15 /\ k + 1 \in 0..(15 - (7 - k)) /\ (k + 1) + (7 - k) = 8 /\ k \in 0..15
      OBVIOUS
    <3>2. Power((k + 1) + (7 - k)) = Power(k + 1) * Power(7 - k)
      BY <3>1, PowerOfSum
    <3>3. Power(k + 1) = 2 * Power(k)
      BY <3>1, Doubled
    <3> QED BY <1>1, <3>1, <3>2, <3>3
  <2>3. q \in Int /\ r \in Int /\ n = r + 256 * q
    OBVIOUS
  <2> HIDE DEF a, b, q, r
  <2> DEFINE m == b * q
  <2>4. m \in Int /\ n = r + (2 * a) * m
    <3>1. (2 * a) * (b * q) = ((2 * a) * b) * q
      BY <2>1, <2>3
    <3> QED BY <2>1, <2>2, <2>3, <3>1
  <2> HIDE DEF m
  <2>5. BitOf(r + (2 * a) * m, a) = BitOf(r, a)
    BY <2>1, <2>3, <2>4, BitBelow
  <2> QED BY <2>4, <2>5 DEF WordBit, a, r
<1> QED BY <1>2, <1>3

LEMMA WithBitKeeps ==
  \A n \in Nat : \A k \in Nat : n < Full => D!WithBit(n, k) \in Nat /\ D!WithBit(n, k) < Full
<1> TAKE n \in Nat
<1> TAKE k \in Nat
<1> HAVE n < Full
<1>1. CASE k > 15 \/ D!IsSet(n, k)
  BY <1>1 DEF D!WithBit
<1>2. CASE ~(k > 15 \/ D!IsSet(n, k))
  <2> DEFINE a == Power(k)
             m == Power(15 - k)
  <2>1. k \in 0..15 /\ 15 - k \in 0..15
    BY <1>2
  <2>2. a \in Nat \ {0} /\ m \in Nat /\ Full = (2 * a) * m
    BY <2>1, Doubled, FullIs
  <2>3. D!WithBit(n, k) = n + a
    BY <1>2 DEF D!WithBit, Power
  <2>4. BitOf(n, a) # 1
    BY <1>2 DEF D!IsSet, BitOf, Power
  <2> HIDE DEF a, m
  <2>5. n < (2 * a) * m
    BY <2>2
  <2>6. n + a < (2 * a) * m
    BY <2>2, <2>4, <2>5, BitSet
  <2> QED BY <2>2, <2>3, <2>6
<1> QED BY <1>1, <1>2

(***************************************************************************)
(* The cells of the display.                                               *)
(***************************************************************************)
CellsOK(l) ==
  /\ DOMAIN l = LcdFields
  /\ l.display \in [D!Rows -> [D!Bytes -> 0..255]]
  /\ l.x \in D!Rows /\ l.y \in Nat /\ l.word_len \in D!Sizes /\ l.front \in Nat

\* Where a word begins: the byte and the bit of it.
LEMMA ColumnOf ==
  ASSUME NEW b \in Nat, NEW m \in Nat \ {0}
  PROVE  /\ (b \div 8) % m \in 0..(m - 1)
         /\ b % (8 * m) = 8 * ((b \div 8) % m) + (b % 8)
<1> DEFINE c == b \div 8
           r == b % 8
           q == c \div m
           a == c % m
           n == 8 * m
           d == 8 * a + r
<1>1. c \in Int /\ r \in 0..7 /\ b = 8 * c + r
  OBVIOUS
<1> HIDE DEF c, r
<1>2. q \in Int /\ a \in 0..(m - 1) /\ c = m * q + a
  BY <1>1, IntDivision
<1> HIDE DEF q, a
<1>3. n \in Nat \ {0} /\ d \in 0..(n - 1)
  BY <1>1, <1>2
<1>4. b = n * q + d
  <2>1. (8 * m) * q = 8 * (m * q)
    BY <1>2
  <2> QED BY <1>1, <1>2, <2>1
<1> HIDE DEF n, d
<1>5. b % n = d
  BY <1>2, <1>3, <1>4, DivisionIs
<1> QED BY <1>2, <1>5 DEF a, c, r, n, d

\* A pixel is a bit of the pair its byte is in.
LEMMA PixelOfPair ==
  ASSUME NEW n \in Nat, NEW t \in 0..15
  PROVE  /\ t < 8 => WordBit(n \div 256, 7 - t) = WordBit(n, 15 - t)
         /\ t >= 8 => WordBit(n % 256, 15 - t) = WordBit(n, 15 - t)
<1>1. ASSUME t < 8 PROVE WordBit(n \div 256, 7 - t) = WordBit(n, 15 - t)
  <2>1. 15 - t \in 8..15 /\ (15 - t) - 8 = 7 - t
    BY <1>1
  <2>2. WordBit(n, 15 - t) = WordBit(n \div 256, (15 - t) - 8)
    BY <2>1, BitsOfPair
  <2> QED BY <2>1, <2>2
<1>2. ASSUME t >= 8 PROVE WordBit(n % 256, 15 - t) = WordBit(n, 15 - t)
  <2>1. 15 - t \in 0..7
    BY <1>2
  <2> QED BY <2>1, BitsOfPair
<1> QED BY <1>1, <1>2

PlaceOf(l) == D!At(l) \in D!Bytes /\ (l.word_len = "six" => D!Shift(l) \in Shifts)

LEMMA PlaceOfWord ==
  ASSUME NEW l, CellsOK(l), D!DisplayOK
  PROVE  PlaceOf(l)
<1>1. MemWidth \in Nat \ {0} /\ l.y \in Nat
  BY DEF CellsOK, D!DisplayOK
<1>2. D!At(l) \in D!Bytes
  <2>1. ASSUME NEW c \in Int PROVE c % MemWidth \in D!Bytes
    BY <1>1, IntDivision DEF D!Bytes
  <2>2. l.y \in Int /\ (l.y * 6) \div 8 \in Int
    BY <1>1
  <2> QED BY <2>1, <2>2 DEF D!At
<1>3. D!Shift(l) \in Shifts
  BY <1>1 DEF D!Shift, Shifts
<1> QED BY <1>2, <1>3 DEF PlaceOf

\* The two bytes a word is put into, before.
LEMMA PairIs ==
  ASSUME NEW l, CellsOK(l), D!DisplayOK
  PROVE  /\ D!Pair(l) \in Nat /\ D!Pair(l) < Full
         /\ D!Pair(l) \div 256 = l.display[l.x][D!At(l)]
         /\ D!Pair(l) % 256 = D!Follower(l)
<1> DEFINE h == l.display[l.x][D!At(l)]
           b == D!Follower(l)
<1>1. h \in 0..255
  <2>1. D!At(l) \in D!Bytes
    BY PlaceOfWord DEF PlaceOf
  <2> QED BY <2>1 DEF CellsOK
<1>2. b \in 0..255
  <2>1. CASE D!At(l) + 1 \in D!Bytes
    BY <2>1 DEF CellsOK, D!Follower
  <2>2. CASE D!At(l) + 1 \notin D!Bytes /\ l.x + 1 \in D!Rows
    <3>1. 0 \in D!Bytes
      BY DEF D!DisplayOK, D!Bytes
    <3> QED BY <2>2, <3>1 DEF CellsOK, D!Follower
  <2>3. CASE D!At(l) + 1 \notin D!Bytes /\ l.x + 1 \notin D!Rows
    <3>1. b = l.front % 256 /\ l.front \in Nat
      BY <2>3 DEF CellsOK, D!Follower
    <3> QED BY <3>1
  <2> QED BY <2>1, <2>2, <2>3
<1>3. D!Pair(l) = h * 256 + b
  BY DEF D!Pair
<1> HIDE DEF h, b
<1>4. (h * 256 + b) \div 256 = h /\ (h * 256 + b) % 256 = b /\ h * 256 + b \in Nat
  BY <1>1, <1>2
<1>5. h * 256 + b < Full
  BY <1>1, <1>2, FullIs
<1> QED BY <1>3, <1>4, <1>5 DEF h, b

WithWord(l, word) == Six(D!Pair(l), word % 64, Power(D!Shift(l)))

LEMMA MergedIs ==
  ASSUME NEW l, NEW word \in 0..255
  PROVE  LET six == WithWord(l, word)
             seven == IF D!IsSet(word, 6) THEN D!WithBit(six, D!Shift(l) + 6) ELSE six
         IN D!Merged(l, word) = IF D!IsSet(word, 7) THEN D!WithBit(seven, D!Shift(l) + 7) ELSE seven
BY DEF D!Merged, WithWord, Six, Power

LEMMA SmallWord ==
  ASSUME NEW l, NEW word \in 0..63
  PROVE  D!Merged(l, word) = WithWord(l, word) /\ word % 64 = word
<1>1. ~D!IsSet(word, 6) /\ ~D!IsSet(word, 7)
  <2>1. 2^6 = 64 /\ 2^7 = 128
    OBVIOUS
  <2>2. word \div 64 = 0 /\ word \div 128 = 0
    OBVIOUS
  <2> QED BY <2>1, <2>2 DEF D!IsSet
<1>2. word \in 0..255 /\ word % 64 = word
  OBVIOUS
<1> QED BY <1>1, <1>2, MergedIs

LEMMA MergedKeeps ==
  ASSUME NEW l, CellsOK(l), D!DisplayOK, l.word_len = "six", NEW word \in 0..255
  PROVE  D!Merged(l, word) \in Nat /\ D!Merged(l, word) < Full
<1> DEFINE six == WithWord(l, word)
           seven == IF D!IsSet(word, 6) THEN D!WithBit(six, D!Shift(l) + 6) ELSE six
           k == D!Shift(l)
           p == D!Pair(l)
           w == word % 64
<1>1. k \in Shifts /\ p \in Nat /\ p < Full /\ w \in 0..63
  BY PlaceOfWord, PairIs DEF PlaceOf
<1>2. six = Six(p, w, Power(k))
  BY DEF WithWord
<1> HIDE DEF six, k, p, w
<1>3. six \in Nat /\ six < Full
  BY <1>1, <1>2, BitsReplaced DEF WordIn
<1>4. k + 6 \in Nat /\ k + 7 \in Nat
  BY <1>1 DEF Shifts
<1>5. D!WithBit(six, k + 6) \in Nat /\ D!WithBit(six, k + 6) < Full
  BY <1>3, <1>4, WithBitKeeps
<1>6. seven \in Nat /\ seven < Full
  BY <1>3, <1>5 DEF k
<1> HIDE DEF seven
<1>7. D!WithBit(seven, k + 7) \in Nat /\ D!WithBit(seven, k + 7) < Full
  BY <1>4, <1>6, WithBitKeeps
<1>8. D!Merged(l, word) = IF D!IsSet(word, 7) THEN D!WithBit(seven, k + 7) ELSE seven
  BY MergedIs DEF six, seven, k
<1> QED BY <1>6, <1>7, <1>8

\* The byte of the display that follows the one at the cursor.
Follows(l, x, b) == IF D!At(l) + 1 \in D!Bytes THEN x = l.x /\ b = D!At(l) + 1 ELSE x = l.x + 1 /\ b = 0

\* What a byte of the display is once a word is put into it.
ByteOf(l, word, x, b) ==
  IF x = l.x /\ b = D!At(l) THEN (IF l.word_len = "six" THEN D!Merged(l, word) \div 256 ELSE word)
  ELSE IF l.word_len = "six" /\ Follows(l, x, b) THEN D!Merged(l, word) % 256
       ELSE l.display[x][b]

Cells(l, word) == [x \in D!Rows |-> [b \in D!Bytes |-> ByteOf(l, word, x, b)]]

\* The byte that follows, once a number is put there.
CellsWith(j, m) == [x \in D!Rows |-> [b \in D!Bytes |-> IF Follows(j, x, b) THEN m ELSE j.display[x][b]]]
LEMMA FollowerGives ==
  ASSUME NEW j, CellsOK(j), D!DisplayOK, NEW m \in 0..255, NEW k, k = D!PutFollower(j, m)
  PROVE  /\ DOMAIN k = LcdFields /\ \A f \in LcdFields \ {"display", "front"} : k[f] = j[f]
         /\ k.front \in Nat
         /\ k.display = CellsWith(j, m)
<1> DEFINE a == D!At(j) + 1
           d == j.display
           cells == [x \in D!Rows |-> [b \in D!Bytes |-> IF Follows(j, x, b) THEN m ELSE d[x][b]]]
<1>1. /\ DOMAIN j = LcdFields /\ DOMAIN d = D!Rows /\ \A x \in D!Rows : d[x] = [b \in D!Bytes |-> d[x][b]]
      /\ j.x \in D!Rows /\ j.front \in Nat /\ d = [x \in D!Rows |-> d[x]]
  BY DEF CellsOK
<1>2. CASE a \in D!Bytes
  <2> DEFINE e == [d EXCEPT ![j.x] = [d[j.x] EXCEPT ![a] = m]]
  <2>1. k = [j EXCEPT !.display[j.x][a] = m]
    BY <1>2 DEF D!PutFollower
  <2>2. /\ DOMAIN k = LcdFields /\ (\A f \in LcdFields \ {"display"} : k[f] = j[f])
        /\ k.display = e
    <3> HIDE DEF a
    <3> QED BY <1>1, <2>1 DEF LcdFields
  <2>3. \A x \in D!Rows, b \in D!Bytes : Follows(j, x, b) <=> x = j.x /\ b = a
    BY <1>2 DEF Follows
  <2> HIDE DEF a, d
  <2>4. e = [x \in D!Rows |-> [b \in D!Bytes |-> IF x = j.x /\ b = a THEN m ELSE d[x][b]]]
    BY <1>1, <1>2
  <2>5. e = cells
    BY <2>3, <2>4
  <2> QED BY <1>1, <2>2, <2>5 DEF LcdFields, d, CellsWith
<1>3. CASE a \notin D!Bytes /\ j.x + 1 \in D!Rows
  <2> DEFINE x1 == j.x + 1
             e == [d EXCEPT ![x1] = [d[x1] EXCEPT ![0] = m]]
  <2>1. k = [j EXCEPT !.display[x1][0] = m]
    BY <1>3 DEF D!PutFollower
  <2> HIDE DEF x1
  <2>2. /\ DOMAIN k = LcdFields /\ (\A f \in LcdFields \ {"display"} : k[f] = j[f])
        /\ k.display = e
    BY <1>1, <2>1 DEF LcdFields
  <2>3. \A x \in D!Rows, b \in D!Bytes : Follows(j, x, b) <=> x = x1 /\ b = 0
    BY <1>3 DEF Follows, x1
  <2>6. x1 \in D!Rows
    BY <1>3 DEF x1
  <2> HIDE DEF a, d
  <2>4. e = [x \in D!Rows |-> [b \in D!Bytes |-> IF x = x1 /\ b = 0 THEN m ELSE d[x][b]]]
    BY <1>1, <2>6
  <2>5. e = cells
    BY <2>3, <2>4
  <2> QED BY <1>1, <2>2, <2>5 DEF LcdFields, d, CellsWith
<1>4. CASE a \notin D!Bytes /\ j.x + 1 \notin D!Rows
  <2> DEFINE front == (j.front - (j.front % 256)) + m
  <2>1. k = [j EXCEPT !.front = front]
    BY <1>4 DEF D!PutFollower
  <2>2. front \in Nat
    <3>1. \A n \in Nat : n % 256 \in 0..255 /\ n % 256 <= n
      OBVIOUS
    <3> QED BY <1>1, <3>1
  <2> HIDE DEF front
  <2>3. /\ DOMAIN k = LcdFields /\ (\A f \in LcdFields \ {"front"} : k[f] = j[f]) /\ k.front = front
    BY <1>1, <2>1 DEF LcdFields
  <2>4. \A x \in D!Rows, b \in D!Bytes : ~Follows(j, x, b)
    BY <1>4 DEF Follows
  <2>5. d = cells
    <3> HIDE DEF d
    <3> QED BY <1>1, <2>4
  <2> QED BY <2>2, <2>3, <2>5 DEF LcdFields, d, CellsWith
<1> QED BY <1>2, <1>3, <1>4

\* The two halves of what a word is merged with.
LEMMA HalvesAre ==
  ASSUME NEW l, CellsOK(l), D!DisplayOK, l.word_len = "six", NEW word \in 0..255
  PROVE  D!Merged(l, word) \div 256 \in 0..255 /\ D!Merged(l, word) % 256 \in 0..255
<1>1. D!Merged(l, word) \in Nat /\ D!Merged(l, word) < Full
  BY MergedKeeps
<1>2. \A n \in Nat : n % 256 \in 0..255
  OBVIOUS
<1> QED BY <1>1, <1>2, FullIs

LEMMA PutGives ==
  ASSUME NEW l, CellsOK(l), D!DisplayOK, NEW word, word \in 0..255, NEW k, k = D!Put(l, word)
  PROVE  /\ DOMAIN k = LcdFields /\ \A f \in LcdFields \ {"display", "front"} : k[f] = l[f]
         /\ k.front \in Nat
         /\ k.display = Cells(l, word)
<1> DEFINE a == D!At(l)
           h == D!Merged(l, word) \div 256
           m == D!Merged(l, word) % 256
           d == l.display
<1>1. /\ DOMAIN l = LcdFields /\ DOMAIN d = D!Rows /\ \A x \in D!Rows : d[x] = [b \in D!Bytes |-> d[x][b]]
      /\ l.x \in D!Rows /\ l.word_len \in D!Sizes /\ d = [x \in D!Rows |-> d[x]] /\ l.front \in Nat
      /\ l.y \in Nat
  BY DEF CellsOK
<1>2. a \in D!Bytes
  BY PlaceOfWord DEF PlaceOf
<1>3. ASSUME NEW v, NEW j, j = [l EXCEPT !.display[l.x][a] = v]
      PROVE  /\ DOMAIN j = LcdFields /\ (\A f \in LcdFields \ {"display"} : j[f] = l[f])
             /\ j.display = [x \in D!Rows |-> [b \in D!Bytes |-> IF x = l.x /\ b = a THEN v ELSE d[x][b]]]
  <2> DEFINE e == [d EXCEPT ![l.x] = [d[l.x] EXCEPT ![a] = v]]
  <2>1. DOMAIN j = LcdFields /\ (\A f \in LcdFields \ {"display"} : j[f] = l[f]) /\ j.display = e
    <3> HIDE DEF a
    <3> QED BY <1>1, <1>3 DEF LcdFields
  <2> HIDE DEF a, d
  <2>2. e = [x \in D!Rows |-> [b \in D!Bytes |-> IF x = l.x /\ b = a THEN v ELSE d[x][b]]]
    BY <1>1, <1>2
  <2> QED BY <2>1, <2>2
<1>4. CASE l.word_len = "eight"
  <2>1. k = [l EXCEPT !.display[l.x][a] = word]
    BY <1>4 DEF D!Put
  <2>2. \A x \in D!Rows, b \in D!Bytes : ByteOf(l, word, x, b) = IF x = l.x /\ b = a THEN word ELSE d[x][b]
    BY <1>4 DEF ByteOf
  <2> HIDE DEF a, d
  <2>3. /\ DOMAIN k = LcdFields /\ (\A f \in LcdFields \ {"display"} : k[f] = l[f])
        /\ k.display = [x \in D!Rows |-> [b \in D!Bytes |-> IF x = l.x /\ b = a THEN word ELSE d[x][b]]]
    BY <1>3, <2>1
  <2>4. k.front = l.front
    BY <2>3 DEF LcdFields
  <2> QED BY <1>1, <2>2, <2>3, <2>4 DEF Cells
<1>5. CASE l.word_len = "six"
  <2> DEFINE j == [l EXCEPT !.display[l.x][a] = h]
  <2>1. k = D!PutFollower(j, m)
    BY <1>5 DEF D!Put
  <2>2. /\ DOMAIN j = LcdFields /\ (\A f \in LcdFields \ {"display"} : j[f] = l[f])
        /\ j.display = [x \in D!Rows |-> [b \in D!Bytes |-> IF x = l.x /\ b = a THEN h ELSE d[x][b]]]
    <3> DEFINE i == j
    <3>1. i = [l EXCEPT !.display[l.x][a] = h]
      OBVIOUS
    <3> HIDE DEF i, a, h, d
    <3>2. /\ DOMAIN i = LcdFields /\ (\A f \in LcdFields \ {"display"} : i[f] = l[f])
          /\ i.display = [x \in D!Rows |-> [b \in D!Bytes |-> IF x = l.x /\ b = a THEN h ELSE d[x][b]]]
      BY <1>3, <3>1
    <3> QED BY <3>2 DEF i
  <2>3. h \in 0..255 /\ m \in 0..255
    BY <1>5, HalvesAre
  <2> HIDE DEF j, h, m
  <2>4. /\ j.x = l.x /\ j.y = l.y /\ j.word_len = l.word_len /\ j.front = l.front
    BY <2>2 DEF LcdFields
  <2>5. D!At(j) = a
    BY <2>4 DEF D!At
  <2>6. j.display \in [D!Rows -> [D!Bytes -> 0..255]]
    <3>1. \A x \in D!Rows, b \in D!Bytes : d[x][b] \in 0..255
      BY DEF CellsOK
    <3> HIDE DEF a, d
    <3> QED BY <2>2, <2>3, <3>1
  <2>7. CellsOK(j)
    BY <1>1, <2>2, <2>4, <2>6 DEF CellsOK
  <2>8. \A x, b : Follows(j, x, b) <=> Follows(l, x, b)
    BY <2>4, <2>5 DEF Follows
  <2> HIDE DEF a, d
  <2>9. /\ DOMAIN k = LcdFields /\ \A f \in LcdFields \ {"display", "front"} : k[f] = j[f]
        /\ k.front \in Nat
        /\ k.display = CellsWith(j, m)
    BY <2>1, <2>3, <2>7, FollowerGives
  <2>10. \A x, b : ~(Follows(l, x, b) /\ x = l.x /\ b = a)
    <3>1. l.x \in Int /\ a \in Int
      BY <1>1, <1>2 DEF D!Rows, D!Bytes
    <3> QED BY <3>1 DEF Follows, a
  <2>11. \A x \in D!Rows, b \in D!Bytes :
           ByteOf(l, word, x, b) = IF Follows(j, x, b) THEN m ELSE j.display[x][b]
    <3>1. ASSUME NEW x \in D!Rows, NEW b \in D!Bytes
          PROVE  ByteOf(l, word, x, b) = IF Follows(j, x, b) THEN m ELSE j.display[x][b]
      <4>1. j.display[x][b] = IF x = l.x /\ b = a THEN h ELSE d[x][b]
        BY <2>2
      <4>2. ByteOf(l, word, x, b) = IF x = l.x /\ b = a THEN h
                                    ELSE IF Follows(l, x, b) THEN m ELSE d[x][b]
        BY <1>5 DEF ByteOf, h, m, a, d
      <4> QED BY <2>8, <2>10, <4>1, <4>2
    <3> QED BY <3>1
  <2>12. DOMAIN k = LcdFields /\ \A f \in LcdFields \ {"display", "front"} : k[f] = l[f]
    BY <2>2, <2>9
  <2>13. CellsWith(j, m) = Cells(l, word)
    BY <2>11 DEF CellsWith, Cells
  <2> QED BY <2>9, <2>12, <2>13
<1> QED BY <1>1, <1>4, <1>5 DEF D!Sizes

\* A byte stays a byte.
LEMMA ByteStays ==
  ASSUME NEW l, CellsOK(l), D!DisplayOK, NEW word \in 0..255, NEW x \in D!Rows, NEW b \in D!Bytes
  PROVE  ByteOf(l, word, x, b) \in 0..255
<1>1. l.display[x][b] \in 0..255
  BY DEF CellsOK
<1> QED BY <1>1, HalvesAre DEF ByteOf

(* A word changes the pixels of its column and row to its bits, and no other.  The  *)
(* pixels of the next row are counted on from those of the row of the word.         *)
On(l, x, p) == IF x = l.x THEN p ELSE p + 8 * MemWidth
PixelIn(l, x, p, first, last) == x \in {l.x, l.x + 1} /\ On(l, x, p) \in first..last
WordPixels(l, k, word) ==
  LET first == (l.y * D!WordLength(l)) % (8 * MemWidth)
      last == first + D!WordLength(l) - 1
  IN \A x \in D!Rows, p \in 0..(8 * MemWidth - 1) :
       D!Pixel(k, x, p) = IF PixelIn(l, x, p, first, last)
                          THEN (word \div 2^(last - On(l, x, p))) % 2
                          ELSE D!Pixel(l, x, p)

LEMMA PixelIs ==
  ASSUME NEW l, NEW x, NEW p
  PROVE  D!Pixel(l, x, p) = WordBit(l.display[x][p \div 8], 7 - (p % 8))
BY DEF D!Pixel, WordBit, BitOf, Power

LEMMA EightWritten ==
  ASSUME NEW l, CellsOK(l), D!DisplayOK, l.word_len = "eight", NEW word \in 0..255, NEW k,
         k.display = Cells(l, word)
  PROVE  WordPixels(l, k, word)
<1> DEFINE a == D!At(l)
           first == (l.y * D!WordLength(l)) % (8 * MemWidth)
           last == first + D!WordLength(l) - 1
<1>1. MemWidth \in Nat \ {0} /\ l.y \in Nat /\ l.x \in D!Rows
  BY DEF CellsOK, D!DisplayOK
<1>2. a \in D!Bytes /\ a \in Int /\ first = 8 * a /\ last = 8 * a + 7
  <2> DEFINE b == l.y * 8
  <2>1. b \in Nat /\ b \div 8 = l.y /\ b % 8 = 0
    BY <1>1
  <2>2. a = (b \div 8) % MemWidth /\ D!WordLength(l) = 8
    BY <2>1 DEF D!At, D!WordLength
  <2> HIDE DEF a, b
  <2>3. b % (8 * MemWidth) = 8 * ((b \div 8) % MemWidth) + (b % 8)
    BY <1>1, <2>1, ColumnOf
  <2>4. first = 8 * a
    <3>1. first = b % (8 * MemWidth)
      BY <2>2 DEF b
    <3>2. a \in 0..(MemWidth - 1)
      BY <1>1, <2>1, <2>2, ColumnOf
    <3> HIDE DEF first
    <3> QED BY <2>1, <2>2, <2>3, <3>1, <3>2
  <2>5. a \in D!Bytes /\ a \in Int
    BY PlaceOfWord DEF PlaceOf, D!Bytes, a
  <2>6. last = first + 7
    <3>1. first \in Int
      BY <2>4, <2>5
    <3> HIDE DEF first
    <3> QED BY <2>2, <3>1
  <2> HIDE DEF first
  <2> QED BY <2>4, <2>5, <2>6
<1> HIDE DEF first, last
<1>3. ASSUME NEW x \in D!Rows, NEW p \in 0..(8 * MemWidth - 1)
      PROVE  D!Pixel(k, x, p) = IF PixelIn(l, x, p, first, last)
                                THEN (word \div 2^(last - On(l, x, p))) % 2
                                ELSE D!Pixel(l, x, p)
  <2> DEFINE c == p \div 8
             t == p % 8
  <2>1. c \in Int /\ t \in 0..7 /\ p = 8 * c + t /\ c \in D!Bytes
    BY <1>1 DEF D!Bytes
  <2>2. k.display[x][c] = IF x = l.x /\ c = a THEN word ELSE l.display[x][c]
    <3>1. k.display[x][c] = ByteOf(l, word, x, c)
      BY <2>1 DEF Cells
    <3> QED BY <3>1 DEF ByteOf
  <2>3. D!Pixel(k, x, p) = WordBit(k.display[x][c], 7 - t) /\ D!Pixel(l, x, p) = WordBit(l.display[x][c], 7 - t)
    BY PixelIs
  <2> HIDE DEF c, t, a
  <2>4. PixelIn(l, x, p, first, last) <=> x = l.x /\ c = a
    <3>1. a \in 0..(MemWidth - 1) /\ c \in 0..(MemWidth - 1) /\ l.x # l.x + 1
      BY <1>1, <1>2, <2>1 DEF D!Bytes, D!Rows
    <3> QED BY <1>1, <1>2, <2>1, <3>1 DEF PixelIn, On
  <2>5. x = l.x /\ c = a => last - On(l, x, p) = 7 - t
    BY <1>2, <2>1 DEF On
  <2>6. WordBit(word, 7 - t) = (word \div 2^(7 - t)) % 2
    BY DEF WordBit, BitOf, Power
  <2> QED BY <2>2, <2>3, <2>4, <2>5, <2>6
<1> QED BY <1>3 DEF WordPixels, first, last

LEMMA SixWritten ==
  ASSUME NEW l, CellsOK(l), D!DisplayOK, l.word_len = "six", NEW word \in 0..63, NEW k,
         k.display = Cells(l, word)
  PROVE  WordPixels(l, k, word)
<1> DEFINE a == D!At(l)
           b == l.y * 6
           r == b % 8
           s == D!Shift(l)
           n == D!Merged(l, word)
           o == D!Pair(l)
           first == (l.y * D!WordLength(l)) % (8 * MemWidth)
           last == first + D!WordLength(l) - 1
<1>1. MemWidth \in Nat \ {0} /\ l.y \in Nat /\ l.x \in D!Rows /\ b \in Nat
  BY DEF CellsOK, D!DisplayOK
<1>2. a \in D!Bytes /\ a \in Int /\ s \in Shifts
  BY PlaceOfWord DEF PlaceOf, D!Bytes
<1>3. r \in 0..7 /\ s = 10 - r /\ a = (b \div 8) % MemWidth /\ D!WordLength(l) = 6
  <2>1. r \in 0..7
    <3>1. b \in Nat
      BY <1>1
    <3> HIDE DEF b
    <3> QED BY <3>1
  <2>2. s = 10 - r
    BY DEF D!Shift
  <2> HIDE DEF r, s
  <2>3. a = (b \div 8) % MemWidth /\ D!WordLength(l) = 6
    BY DEF D!At, D!WordLength
  <2> QED BY <2>1, <2>2, <2>3
<1>4. first = 8 * a + r /\ last = first + 5
  <2> HIDE DEF a, b, r
  <2>1. b % (8 * MemWidth) = 8 * ((b \div 8) % MemWidth) + (b % 8)
    BY <1>1, ColumnOf
  <2>2. first = b % (8 * MemWidth)
    BY <1>3 DEF b
  <2> HIDE DEF first
  <2>3. first = 8 * a + r
    BY <1>3, <2>1, <2>2 DEF r
  <2> QED BY <1>2, <1>3, <2>3
<1>5. WordIn(n, o, word, s)
  <2>1. n = Six(o, word, Power(s))
    BY SmallWord DEF WithWord
  <2>2. o \in Nat /\ o < Full
    BY <1>2, PairIs
  <2> HIDE DEF n, o, s
  <2> QED BY <1>2, <2>1, <2>2, BitsReplaced
<1>6. o \in Nat /\ o \div 256 = l.display[l.x][a] /\ o % 256 = D!Follower(l)
  BY <1>2, PairIs
<1> HIDE DEF r, b, first, last
<1>7. ASSUME NEW x \in D!Rows, NEW p \in 0..(8 * MemWidth - 1)
      PROVE  D!Pixel(k, x, p) = IF PixelIn(l, x, p, first, last)
                                THEN (word \div 2^(last - On(l, x, p))) % 2
                                ELSE D!Pixel(l, x, p)
  <2> DEFINE c == p \div 8
             u == p % 8
             q == On(l, x, p)
             t == q - 8 * a
  <2> HIDE DEF q, t
  <2>1. c \in Int /\ u \in 0..7 /\ p = 8 * c + u /\ c \in D!Bytes
    BY <1>1 DEF D!Bytes
  <2>2. k.display[x][c] = ByteOf(l, word, x, c)
    BY <2>1 DEF Cells
  <2>3. D!Pixel(k, x, p) = WordBit(k.display[x][c], 7 - u) /\ D!Pixel(l, x, p) = WordBit(l.display[x][c], 7 - u)
    BY PixelIs
  <2>6. /\ c \in 0..(MemWidth - 1) /\ a \in 0..(MemWidth - 1) /\ x \in Int /\ l.x \in Int /\ x >= 0
        /\ (a + 1 \in D!Bytes <=> a + 1 # MemWidth)
    BY <1>1, <1>2, <2>1 DEF D!Bytes, D!Rows
  <2> HIDE DEF c, u
  <2>7. Follows(l, x, c) <=> IF a + 1 # MemWidth THEN x = l.x /\ c = a + 1 ELSE x = l.x + 1 /\ c = 0
    BY <2>6 DEF Follows
  <2>8. q = IF x = l.x THEN 8 * c + u ELSE 8 * c + u + 8 * MemWidth
    <3> HIDE DEF a
    <3> QED BY <1>1, <2>1, <2>6 DEF On, q
  <2>4. CASE (x = l.x /\ c = a) \/ Follows(l, x, c)
    <3> DEFINE own == x = l.x /\ c = a
    <3>1. /\ t \in 0..15 /\ q = 8 * a + t /\ x \in {l.x, l.x + 1}
          /\ (own => t < 8 /\ 7 - u = 7 - t) /\ (~own => t >= 8 /\ 7 - u = 15 - t)
      <4> HIDE DEF a
      <4> QED BY <1>1, <1>2, <2>1, <2>4, <2>6, <2>7, <2>8 DEF t
    <3>2. k.display[x][c] = IF own THEN n \div 256 ELSE n % 256
      BY <2>2, <2>4 DEF ByteOf
    <3>3. l.display[x][c] = IF own THEN o \div 256 ELSE o % 256
      BY <1>6, <2>4 DEF Follows, D!Follower
    <3> HIDE DEF n, o, a, own
    <3>4. D!Pixel(k, x, p) = WordBit(n, 15 - t)
      BY <1>5, <2>3, <3>1, <3>2, PixelOfPair DEF WordIn
    <3>5. D!Pixel(l, x, p) = WordBit(o, 15 - t)
      BY <1>6, <2>3, <3>1, <3>3, PixelOfPair
    <3>6. 15 - t \in 0..15 /\ (q \in first..last <=> 15 - t \in s..(s + 5)) /\ (15 - t) - s = last - q
      <4> HIDE DEF s
      <4> QED BY <1>2, <1>3, <1>4, <3>1
    <3>7. PixelIn(l, x, p, first, last) <=> q \in first..last
      BY <3>1 DEF PixelIn, q
    <3>8. ASSUME q \in first..last PROVE D!Pixel(k, x, p) = (word \div 2^(last - q)) % 2
      <4>1. D!Pixel(k, x, p) = WordBit(word, last - q)
        BY <1>5, <3>4, <3>6, <3>8 DEF WordIn
      <4> QED BY <4>1 DEF WordBit, BitOf, Power
    <3>9. ASSUME q \notin first..last PROVE D!Pixel(k, x, p) = D!Pixel(l, x, p)
      BY <1>5, <3>4, <3>5, <3>6, <3>9 DEF WordIn
    <3> QED BY <3>7, <3>8, <3>9 DEF q
  <2>5. CASE ~((x = l.x /\ c = a) \/ Follows(l, x, c))
    <3>1. k.display[x][c] = l.display[x][c]
      BY <2>2, <2>5 DEF ByteOf
    <3>2. ~PixelIn(l, x, p, first, last)
      <4>1. x \in {l.x, l.x + 1} => q \notin first..last
        <5> HIDE DEF a
        <5> QED BY <1>1, <1>2, <1>3, <1>4, <2>1, <2>5, <2>6, <2>7, <2>8
      <4> QED BY <4>1 DEF PixelIn, q
    <3> QED BY <2>3, <3>1, <3>2
  <2> QED BY <2>4, <2>5
<1> QED BY <1>7 DEF WordPixels, first, last

(***************************************************************************)
(* The display in every state.                                             *)
(***************************************************************************)
LEMMA SameCells ==
  ASSUME NEW l, CellsOK(l), NEW k, DOMAIN k = LcdFields, k.display = l.display, k.x \in D!Rows,
         k.y \in Nat, k.word_len \in D!Sizes, k.front \in Nat
  PROVE  CellsOK(k)
BY DEF CellsOK

LEMMA AdvanceKeepsCells ==
  ASSUME NEW l, CellsOK(l), l.cursor_mode \in D!Directions, NEW k, k = D!LCD_advance_cursor(l)
  PROVE  CellsOK(k) /\ k.display = l.display
<1> USE DisplayAssumption DEF D!DisplayOK
<1>1. DOMAIN l = LcdFields /\ l.x \in D!Rows /\ l.y \in Nat /\ l.word_len \in D!Sizes
  BY DEF CellsOK
<1>2. Height \in Nat \ {0} /\ Bound[l.word_len] \in Nat \ {0}
  BY <1>1 DEF D!Sizes
<1>0. \A c \in Int : c % Height \in D!Rows
  BY <1>2, IntDivision DEF D!Rows
<1>3. \/ \E v \in D!Rows : k = [l EXCEPT !.x = v]
      \/ \E v \in Nat : k = [l EXCEPT !.y = v]
  <2>1. CASE l.cursor_mode = "X_UP"
    <3>1. (l.x + 1) % Height \in D!Rows
      <4>1. l.x + 1 \in Int
        BY <1>1, <1>2 DEF D!Rows
      <4> QED BY <1>0, <4>1
    <3>2. k = [l EXCEPT !.x = (l.x + 1) % Height]
      BY <1>1, <2>1 DEF D!LCD_advance_cursor, LcdFields
    <3> QED BY <3>1, <3>2
  <2>2. CASE l.cursor_mode = "X_DOWN"
    <3>1. (l.x + Height - 1) % Height \in D!Rows
      <4>1. l.x + Height - 1 \in Int
        BY <1>1, <1>2 DEF D!Rows
      <4> QED BY <1>0, <4>1
    <3>2. k = [l EXCEPT !.x = (l.x + Height - 1) % Height]
      BY <1>1, <2>2 DEF D!LCD_advance_cursor, LcdFields
    <3> QED BY <3>1, <3>2
  <2>3. CASE l.cursor_mode = "Y_UP"
    <3> DEFINE v == IF l.y + 1 >= Bound[l.word_len] THEN 0 ELSE l.y + 1
    <3>1. v \in Nat
      BY <1>1
    <3>2. k = [l EXCEPT !.y = v]
      BY <1>1, <2>3 DEF D!LCD_advance_cursor, LcdFields
    <3> QED BY <3>1, <3>2
  <2>4. CASE l.cursor_mode = "Y_DOWN"
    <3> DEFINE v == IF l.y = 0 THEN Bound[l.word_len] - 1 ELSE l.y - 1
    <3>1. v \in Nat
      BY <1>1, <1>2
    <3>2. k = [l EXCEPT !.y = v]
      BY <1>1, <2>4 DEF D!LCD_advance_cursor, LcdFields
    <3> QED BY <3>1, <3>2
  <2> QED BY <2>1, <2>2, <2>3, <2>4 DEF D!Directions
<1>4. /\ DOMAIN k = LcdFields /\ k.display = l.display /\ k.word_len = l.word_len /\ k.front = l.front
      /\ k.x \in D!Rows /\ k.y \in Nat
  BY <1>1, <1>3 DEF LcdFields
<1> QED BY <1>1, <1>4, SameCells DEF CellsOK

LEMMA EnqueueKeepsCells ==
  ASSUME NEW l, CellsOK(l), l.z \in D!Rows, NEW k, k = D!LCD_enqueue(l)
  PROVE  CellsOK(k) /\ \A f \in LcdFields \ {"front", "queue"} : k[f] = l[f]
<1>0. DOMAIN l = LcdFields /\ l.front \in Nat /\ l.x \in D!Rows /\ l.y \in Nat /\ l.word_len \in D!Sizes
  BY DEF CellsOK
<1>1. /\ DOMAIN k = LcdFields /\ \A f \in LcdFields \ {"front", "queue"} : k[f] = l[f]
      /\ k.front = D!Place(l)
  BY <1>0, EnqueueGives
<1>2. k.display = l.display /\ k.x = l.x /\ k.y = l.y /\ k.word_len = l.word_len
  BY <1>1 DEF LcdFields
<1>3. k.front \in Nat
  <2>1. Shades \in Nat \ {0}
    BY DisplayAssumption DEF D!DisplayOK
  <2> QED BY <1>0, <1>1, <2>1 DEF D!Place
<1> QED BY <1>0, <1>1, <1>2, <1>3, SameCells

LEMMA CommandKeepsCells ==
  ASSUME QueueInv(lcd, pictures), CellsOK(lcd), D!Command
  PROVE  CellsOK(lcd')
<1>1. /\ DOMAIN lcd = LcdFields /\ lcd.cursor_mode \in D!Directions /\ lcd.z \in D!Rows
      /\ lcd.x \in D!Rows /\ lcd.y \in Nat /\ lcd.word_len \in D!Sizes /\ lcd.front \in Nat
  BY DEF QueueInv, CellsOK
<1>2. ASSUME NEW l, DOMAIN l = LcdFields, l.cursor_mode \in D!Directions, l.z \in D!Rows,
             l.front = lcd.front, l.queue = lcd.queue, l.display = lcd.display, l.x \in D!Rows,
             l.y \in Nat, l.word_len \in D!Sizes, D!Becomes(l) \/ D!Shows(l)
      PROVE  CellsOK(lcd')
  <2>1. CellsOK(l)
    BY <1>1, <1>2, SameCells
  <2> QED BY <1>2, <2>1, EnqueueKeepsCells DEF D!Becomes, D!Shows
<1>3. ASSUME NEW on, D!SetActive(on) PROVE CellsOK(lcd')
  <2> DEFINE l == [D!Written EXCEPT !.active = on]
  <2>1. /\ DOMAIN l = LcdFields /\ l.cursor_mode = lcd.cursor_mode /\ l.z = lcd.z
        /\ l.front = lcd.front /\ l.queue = lcd.queue /\ l.display = lcd.display /\ l.x = lcd.x
        /\ l.y = lcd.y /\ l.word_len = lcd.word_len
    BY <1>1 DEF D!Written, LcdFields
  <2>2. D!Shows(l)
    BY <1>3 DEF D!SetActive
  <2> HIDE DEF l
  <2> QED BY <1>1, <1>2, <2>1, <2>2
<1>4. ASSUME NEW size \in D!Sizes, D!SetWord(size) PROVE CellsOK(lcd')
  <2> DEFINE l == [D!Written EXCEPT !.word_len = size]
  <2>1. /\ DOMAIN l = LcdFields /\ l.cursor_mode = lcd.cursor_mode /\ l.z = lcd.z
        /\ l.front = lcd.front /\ l.queue = lcd.queue /\ l.display = lcd.display /\ l.x = lcd.x
        /\ l.y = lcd.y /\ l.word_len = size
    BY <1>1 DEF D!Written, LcdFields
  <2>2. D!Becomes(l)
    BY <1>4 DEF D!SetWord
  <2> HIDE DEF l
  <2> QED BY <1>1, <1>2, <1>4, <2>1, <2>2
<1>5. ASSUME NEW d \in D!Directions, D!SetDirection(d) PROVE CellsOK(lcd')
  <2> DEFINE l == [D!Written EXCEPT !.cursor_mode = d]
  <2>1. /\ DOMAIN l = LcdFields /\ l.cursor_mode = d /\ l.z = lcd.z
        /\ l.front = lcd.front /\ l.queue = lcd.queue /\ l.display = lcd.display /\ l.x = lcd.x
        /\ l.y = lcd.y /\ l.word_len = lcd.word_len
    BY <1>1 DEF D!Written, LcdFields
  <2>2. D!Becomes(l)
    BY <1>5 DEF D!SetDirection
  <2> HIDE DEF l
  <2> QED BY <1>1, <1>2, <1>5, <2>1, <2>2
<1>6. ASSUME NEW x \in D!Rows, D!SetRow(x) PROVE CellsOK(lcd')
  <2> DEFINE l == [D!Written EXCEPT !.x = x]
  <2>1. /\ DOMAIN l = LcdFields /\ l.cursor_mode = lcd.cursor_mode /\ l.z = lcd.z
        /\ l.front = lcd.front /\ l.queue = lcd.queue /\ l.display = lcd.display /\ l.x = x
        /\ l.y = lcd.y /\ l.word_len = lcd.word_len
    BY <1>1 DEF D!Written, LcdFields
  <2>2. D!Becomes(l)
    BY <1>6 DEF D!SetRow
  <2> HIDE DEF l
  <2> QED BY <1>1, <1>2, <1>6, <2>1, <2>2
<1>7. ASSUME NEW y \in Columns, D!SetColumn(y) PROVE CellsOK(lcd')
  <2> DEFINE l == [D!Written EXCEPT !.y = y]
  <2>1. /\ DOMAIN l = LcdFields /\ l.cursor_mode = lcd.cursor_mode /\ l.z = lcd.z
        /\ l.front = lcd.front /\ l.queue = lcd.queue /\ l.display = lcd.display /\ l.x = lcd.x
        /\ l.y = y /\ l.word_len = lcd.word_len
    BY <1>1 DEF D!Written, LcdFields
  <2>2. D!Becomes(l)
    BY <1>7 DEF D!SetColumn
  <2>3. y \in Nat
    BY <1>7, DisplayAssumption DEF D!DisplayOK
  <2> HIDE DEF l
  <2> QED BY <1>1, <1>2, <2>1, <2>2, <2>3
<1>8. ASSUME NEW z \in D!Rows, D!SetTop(z) PROVE CellsOK(lcd')
  <2> DEFINE l == [D!Written EXCEPT !.z = z]
  <2>1. /\ DOMAIN l = LcdFields /\ l.cursor_mode = lcd.cursor_mode /\ l.z = z
        /\ l.front = lcd.front /\ l.queue = lcd.queue /\ l.display = lcd.display /\ l.x = lcd.x
        /\ l.y = lcd.y /\ l.word_len = lcd.word_len
    BY <1>1 DEF D!Written, LcdFields
  <2>2. D!Shows(l)
    BY <1>8 DEF D!SetTop
  <2> HIDE DEF l
  <2> QED BY <1>1, <1>2, <1>8, <2>1, <2>2
<1>9. CASE UNCHANGED <<lcd, pictures>>
  BY <1>9
<1> QED BY <1>3, <1>4, <1>5, <1>6, <1>7, <1>8, <1>9 DEF D!Command

\* What a word does to the display, wherever the queue begins.
LEMMA WroteCells ==
  ASSUME NEW l, CellsOK(l), D!DisplayOK, NEW word \in 0..255, l.cursor_mode \in D!Directions,
         NEW k, k = Wrote(l, word)
  PROVE  /\ CellsOK(k) /\ k.z = l.z
         /\ k.display = Cells(l, word)
<1> DEFINE put == D!Put(l, word)
           cells == Cells(l, word)
<1>1. /\ DOMAIN put = LcdFields /\ \A f \in LcdFields \ {"display", "front"} : put[f] = l[f]
      /\ put.front \in Nat /\ put.display = cells
  <2> DEFINE j == put
  <2>1. j = D!Put(l, word) /\ CellsOK(l) /\ D!DisplayOK /\ word \in 0..255
    OBVIOUS
  <2> HIDE DEF put, cells, j
  <2>2. /\ DOMAIN j = LcdFields /\ \A f \in LcdFields \ {"display", "front"} : j[f] = l[f]
        /\ j.front \in Nat /\ j.display = Cells(l, word)
    BY ONLY <2>1, PutGives
  <2> QED BY <2>2 DEF j, cells
<1>2. k = D!LCD_advance_cursor(put)
  BY DEF Wrote
<1>3. cells \in [D!Rows -> [D!Bytes -> 0..255]]
  <2>1. \A x \in D!Rows, b \in D!Bytes : ByteOf(l, word, x, b) \in 0..255
    BY ByteStays
  <2> QED BY <2>1 DEF Cells
<1> HIDE DEF put, cells
<1>4. /\ put.x = l.x /\ put.y = l.y /\ put.word_len = l.word_len
      /\ put.cursor_mode = l.cursor_mode /\ put.z = l.z
  BY <1>1 DEF LcdFields
<1>5. CellsOK(put)
  BY <1>1, <1>3, <1>4 DEF CellsOK
<1>6. CellsOK(k) /\ k.display = put.display
  BY <1>2, <1>4, <1>5, AdvanceKeepsCells
<1>7. k.z = put.z
  <2>1. DOMAIN k = LcdFields /\ \A f \in LcdFields \ {"x", "y"} : k[f] = put[f]
    BY <1>1, <1>2, <1>4, AdvanceFields
  <2> QED BY <2>1 DEF LcdFields
<1> QED BY <1>1, <1>4, <1>6, <1>7 DEF cells

\* Where the queue begins, and what is in it, makes no pixel.
LEMMA SamePixels ==
  ASSUME NEW l, NEW j, j.display = l.display, j.x = l.x, j.y = l.y, j.word_len = l.word_len,
         NEW k, NEW i, i.display = k.display, NEW word, WordPixels(l, k, word)
  PROVE  WordPixels(j, i, word)
<1>1. \A x, p : D!Pixel(j, x, p) = D!Pixel(l, x, p) /\ D!Pixel(i, x, p) = D!Pixel(k, x, p)
  BY DEF D!Pixel
<1>2. \A x, p, first, last : PixelIn(j, x, p, first, last) = PixelIn(l, x, p, first, last)
                             /\ On(j, x, p) = On(l, x, p)
  BY DEF PixelIn, On
<1>3. D!WordLength(j) = D!WordLength(l)
  BY DEF D!WordLength
<1> QED BY <1>1, <1>2, <1>3 DEF WordPixels

LEMMA WroteWritten ==
  ASSUME NEW l, CellsOK(l), NEW word \in Words, l.cursor_mode \in D!Directions,
         NEW k, k = Wrote(l, word)
  PROVE  /\ CellsOK(k) /\ k.z = l.z
         /\ word < 2^D!WordLength(l) => WordPixels(l, k, word)
<1>1. word \in 0..255 /\ D!DisplayOK
  BY DisplayAssumption DEF D!DisplayOK
<1>2. /\ CellsOK(k) /\ k.z = l.z
      /\ k.display = Cells(l, word)
  <2>1. l.cursor_mode \in D!Directions /\ CellsOK(l) /\ k = Wrote(l, word)
    OBVIOUS
  <2>2. /\ CellsOK(k) /\ k.z = l.z
        /\ k.display = Cells(l, word)
    BY ONLY <1>1, <2>1, WroteCells
  <2> QED BY <2>2
<1>3. ASSUME word < 2^D!WordLength(l) PROVE WordPixels(l, k, word)
  <2>1. CASE l.word_len = "eight"
    BY <1>1, <1>2, <2>1, EightWritten
  <2>2. CASE l.word_len = "six"
    <3>1. D!WordLength(l) = 6 /\ 2^6 = 64
      BY <2>2 DEF D!WordLength
    <3>2. word \in 0..63
      BY <1>1, <1>3, <3>1
    <3> QED BY <1>1, <1>2, <2>2, <3>2, SixWritten
  <2> QED BY <2>1, <2>2 DEF CellsOK, D!Sizes
<1> QED BY <1>2, <1>3

LEMMA WordPixelsWritten ==
  ASSUME QueueInv(lcd, pictures), CellsOK(lcd), NEW word \in Words, D!DataOut(word)
  PROVE  /\ CellsOK(lcd')
         /\ word < 2^D!WordLength(lcd) => WordPixels(lcd, lcd', word)
<1> DEFINE w == D!Written
           done == Wrote(w, word)
           before == D!LCD_enqueue(w)
           late == Wrote(before, word)
           shown == D!LCD_enqueue(done)
<1>1. /\ DOMAIN lcd = LcdFields /\ lcd.cursor_mode \in D!Directions /\ lcd.z \in D!Rows
      /\ lcd.x \in D!Rows /\ lcd.y \in Nat /\ lcd.word_len \in D!Sizes /\ lcd.front \in Nat
  BY DEF QueueInv, CellsOK
<1>2. /\ DOMAIN w = LcdFields /\ w.cursor_mode = lcd.cursor_mode /\ w.z = lcd.z
      /\ w.front = lcd.front /\ w.display = lcd.display
      /\ w.x = lcd.x /\ w.y = lcd.y /\ w.word_len = lcd.word_len
  BY <1>1 DEF D!Written, LcdFields
<1>3. lcd' = done \/ lcd' = shown \/ lcd' = late
  BY DataOutIs
<1> HIDE DEF w
<1>4. CellsOK(w)
  BY <1>1, <1>2, SameCells
<1>5. /\ CellsOK(done) /\ done.z = w.z
      /\ word < 2^D!WordLength(w) => WordPixels(w, done, word)
  BY <1>1, <1>2, <1>4, WroteWritten
<1>6. CellsOK(before) /\ \A f \in LcdFields \ {"front", "queue"} : before[f] = w[f]
  BY <1>1, <1>2, <1>4, EnqueueKeepsCells
<1> HIDE DEF done
<1>7. CellsOK(shown) /\ shown.display = done.display
  <2>1. CellsOK(shown) /\ \A f \in LcdFields \ {"front", "queue"} : shown[f] = done[f]
    BY <1>1, <1>2, <1>5, EnqueueKeepsCells
  <2> HIDE DEF shown
  <2> QED BY <2>1 DEF LcdFields
<1> HIDE DEF before, shown
<1>8. /\ before.cursor_mode = w.cursor_mode /\ before.x = w.x /\ before.y = w.y
      /\ before.word_len = w.word_len /\ before.display = w.display
  BY <1>6 DEF LcdFields
<1>9. /\ CellsOK(late)
      /\ word < 2^D!WordLength(before) => WordPixels(before, late, word)
  BY <1>1, <1>2, <1>6, <1>8, WroteWritten
<1> HIDE DEF late
<1>10. D!WordLength(w) = D!WordLength(lcd) /\ D!WordLength(before) = D!WordLength(lcd)
  BY <1>2, <1>8 DEF D!WordLength
<1>11. ASSUME word < 2^D!WordLength(lcd) PROVE WordPixels(lcd, lcd', word)
  <2>1. WordPixels(w, done, word) /\ WordPixels(before, late, word)
    BY <1>5, <1>9, <1>10, <1>11
  <2>2. \A i : i.display = done.display => WordPixels(lcd, i, word)
    BY <1>2, <2>1, SamePixels
  <2>3. WordPixels(lcd, late, word)
    BY <1>2, <1>8, <2>1, SamePixels
  <2> QED BY <1>3, <1>7, <2>2, <2>3
<1> QED BY <1>3, <1>5, <1>7, <1>9, <1>11

LEMMA CellsBegin ==
  ASSUME NEW n
  PROVE  CellsOK([D!Fresh EXCEPT !.since = n])
<1> DEFINE k == [D!Fresh EXCEPT !.since = n]
<1>1. /\ DOMAIN k = LcdFields /\ k.x = 0 /\ k.y = 0 /\ k.word_len = "eight" /\ k.display = D!Blank /\ k.front = 0
  BY DEF D!Fresh, LcdFields
<1> HIDE DEF k
<1>2. 0 \in D!Rows
  BY DisplayAssumption DEF D!DisplayOK, D!Rows
<1>3. D!Blank \in [D!Rows -> [D!Bytes -> 0..255]]
  BY DEF D!Blank
<1>4. CellsOK(k)
  BY <1>1, <1>2, <1>3 DEF CellsOK, D!Sizes
<1> QED BY <1>4 DEF k

LEMMA DisplayKeepsCells ==
  ASSUME QueueInv(lcd, pictures), CellsOK(lcd), [Next]_vars
  PROVE  CellsOK(lcd')
<1>1. /\ DOMAIN lcd = LcdFields /\ lcd.cursor_mode \in D!Directions /\ lcd.z \in D!Rows
      /\ lcd.x \in D!Rows /\ lcd.y \in Nat /\ lcd.word_len \in D!Sizes /\ lcd.front \in Nat
  BY DEF QueueInv, CellsOK
<1>2. CASE UNCHANGED <<lcd, pictures>>
  BY <1>2
<1>3. CASE D!DataIn
  <2> DEFINE l == [lcd EXCEPT !.last_read = D!Get(lcd)]
             done == D!LCD_advance_cursor(l)
  <2>1. /\ DOMAIN l = LcdFields /\ l.cursor_mode = lcd.cursor_mode /\ l.z = lcd.z
        /\ l.front = lcd.front /\ l.queue = lcd.queue /\ l.display = lcd.display
        /\ l.x = lcd.x /\ l.y = lcd.y /\ l.word_len = lcd.word_len
    BY <1>1 DEF LcdFields
  <2>2. D!Becomes(done) \/ D!Shows(done)
    BY <1>3 DEF D!DataIn
  <2> HIDE DEF l
  <2>3. QueueInv(l, pictures) /\ CellsOK(l)
    BY <1>1, <2>1, SameQueue, SameCells
  <2>4. QueueInv(done, pictures) /\ CellsOK(done)
    BY <1>1, <2>1, <2>3, AdvanceKeeps, AdvanceKeepsCells
  <2> HIDE DEF done
  <2>5. done.z \in D!Rows
    BY <2>4 DEF QueueInv
  <2> QED BY <2>2, <2>4, <2>5, EnqueueKeepsCells DEF D!Becomes, D!Shows
<1>4. CASE D!Time
  <2> DEFINE l == [lcd EXCEPT !.since = @ + 1]
  <2>1. /\ DOMAIN l = LcdFields /\ l.display = lcd.display
        /\ l.x = lcd.x /\ l.y = lcd.y /\ l.word_len = lcd.word_len /\ l.front = lcd.front
    BY <1>1 DEF LcdFields
  <2>2. lcd' = l
    BY <1>4 DEF D!Time, D!Becomes
  <2> HIDE DEF l
  <2> QED BY <1>1, <2>1, <2>2, SameCells
<1>5. CASE D!LCD_reset
  BY <1>5, CellsBegin DEF D!LCD_reset
<1> QED
  BY <1>2, <1>3, <1>4, <1>5, CommandKeepsCells, WordPixelsWritten
  DEF Next, vars, display, Processor, Standard, Crystal, Asking, Link, Display, Save,
      OfTimers, OfLink, OfSave, D!Next, D!DataLost

(* A word written to the display changes the pixels of its own column and row to its *)
(* bits and no other, for every height and width of the display and every column the *)
(* cursor is set to or moves to: the bytes a word of six bits lies across keep what  *)
(* is around it, whatever words were written before.  A word with no room in its row *)
(* goes on in the next one.                                                          *)
THEOREM WordIsWritten == Spec => CellWritten
<1>1. Init => QueueInv(lcd, pictures) /\ CellsOK(lcd)
  <2> SUFFICES ASSUME Init PROVE QueueInv(lcd, pictures) /\ CellsOK(lcd)
    OBVIOUS
  <2>1. lcd = [D!Fresh EXCEPT !.since = D!Fresh.since] /\ pictures = <<>>
    BY DEF Init, D!Init, D!Fresh
  <2> QED BY <2>1, QueueBegins, CellsBegin
<1>2. QueueInv(lcd, pictures) /\ CellsOK(lcd) /\ [Next]_vars
        => QueueInv(lcd, pictures)' /\ CellsOK(lcd)'
  BY DisplayKeepsQueue, DisplayKeepsCells
<1>3. QueueInv(lcd, pictures) /\ CellsOK(lcd) =>
        [\A word \in Words :
           D!DataOut(word) /\ word < 2^D!WordLength(lcd) => WordPixels(lcd, lcd', word)]_(D!vars)
  BY WordPixelsWritten
<1> QED
  BY <1>1, <1>2, <1>3, PTL DEF Spec, CellWritten, D!CellWritten, D!vars, WordPixels, PixelIn, On

(***************************************************************************)
(* The two wires.  LinkInv says, of a link that has abandoned no byte,     *)
(* what each side has of the bits of the other: both count the bits of a   *)
(* byte, and a line is pulled or released only at the place where the      *)
(* other waits for it.  Each disjunct of Place is a place in the loops of *)
(* link_send and link_recv and what the assist may have done there.        *)
(***************************************************************************)
LinkBytes == 0..(L!Base - 1)
HasAll(g, q) == Len(g.read) = Len(q)

\* The upper k bits of v are the lower k of b: what a receiver has after k bits.
HasBits(v, b, k) == v \div Power(Bits - k) = b % Power(k)

\* The assist has m bytes, read by the program or not, and k bits of the next.
Taken(a, g, q, m, k) ==
  /\ ~a.sending /\ Len(g.read) + (IF a.read THEN 1 ELSE 0) = m
  /\ a.bit = k /\ (a.receiving <=> k > 0)
  /\ k > 0 => m < Len(q) /\ HasBits(a.working, q[m + 1], k)

\* The same where all bits of a byte may wait for the one before to be read.
TakenUpTo(a, g, q, m, k) ==
  Taken(a, g, q, m, k) \/ (k = 0 /\ m > 0 /\ Taken(a, g, q, m - 1, Bits))

\* The assist gives the last byte of the program, k bits of which are acknowledged.
Gives(a, g, q, k) ==
  /\ a.sending /\ ~a.read /\ ~a.receiving /\ a.bit = k
  /\ HasAll(g, q) /\ g.answered > 0 /\ a.out = g.reply[g.answered]

WireFields == {"vout", "host"}
AssistFields == {"on", "receiving", "read", "ready", "sending", "bit", "working", "in", "out",
                 "skip", "factor"}
LinkFields == {"at", "turn", "bit", "byte", "sent", "got", "waited", "begun", "request"}
ProgFields == {"read", "answered", "reply", "switches", "lost"}

Typed(w, a, p, g) ==
  /\ DOMAIN w = WireFields /\ DOMAIN a = AssistFields /\ DOMAIN p = LinkFields
  /\ w.host \subseteq L!Lines
  /\ a.sending \in BOOLEAN /\ a.receiving \in BOOLEAN /\ a.read \in BOOLEAN
  /\ a.bit \in 0..Bits /\ a.working \in LinkBytes
  /\ p.bit \in 0..(Bits - 1) /\ p.byte \in LinkBytes /\ p.sent \in Nat /\ p.request \in Requests
  /\ g.reply \in Seq(LinkBytes) /\ g.answered \in 0..Len(g.reply)
  /\ g.read \in Seq(LinkBytes) /\ p.got \in Seq(LinkBytes)

\* What has been read is what was sent.
Delivered(a, p, g, q) ==
  /\ Len(g.read) <= Len(q) /\ \A i \in 1..Len(g.read) : g.read[i] = q[i]
  /\ a.read => Len(g.read) < Len(q) /\ a.in = q[Len(g.read) + 1]
  /\ Len(p.got) <= g.answered /\ \A i \in 1..Len(p.got) : p.got[i] = g.reply[i]
  /\ g.answered > 0 => HasAll(g, q)

Mine(p, q) == L!LineOf(L!BitOf(q[p.sent + 1], p.bit))
Answer(a, p) == L!LineOf(L!BitOf(a.out, p.bit))

\* Nothing is sent; the last byte of an answer may be unfinished on the assist's side.
Settled(w, a, p, g, q) ==
  /\ p.at \in {"idle", "done", "checksum"} /\ w.vout = {} /\ w.host = {}
  /\ ~a.receiving /\ ~a.read /\ a.bit = IF a.sending THEN Bits ELSE 0
  /\ p.at = "idle" => g.read = <<>> /\ p.got = <<>>
  /\ p.at # "idle" => HasAll(g, q)

\* The unfinished byte keeps the next packet from its first bit on.
Blocked(w, a, p, g) ==
  /\ \/ p.at = "send" /\ w.vout = {}
     \/ p.at = "sent" /\ w.vout \in {{1}, {2}}
  /\ w.host = {} /\ a.sending /\ ~a.receiving /\ ~a.read /\ a.bit = Bits
  /\ p.sent = 0 /\ p.bit = 0 /\ g.read = <<>> /\ p.got = <<>> /\ g.answered = 0

Sends(w, a, p, g, q) ==
  /\ p.sent < Len(q) /\ p.got = <<>> /\ g.answered = 0
  /\ \/ p.at = "send" /\ w.vout = {} /\ w.host = {} /\ TakenUpTo(a, g, q, p.sent, p.bit)
     \/ p.at = "sent" /\ w.vout = Mine(p, q) /\ w.host = {} /\ TakenUpTo(a, g, q, p.sent, p.bit)
     \/ /\ p.at = "sent" /\ w.vout = Mine(p, q) /\ w.host = L!Lines \ Mine(p, q)
        /\ Taken(a, g, q, p.sent, p.bit + 1)
     \/ /\ p.at = "released" /\ w.vout = {} /\ w.host \in {{}, L!Lines \ Mine(p, q)}
        /\ Taken(a, g, q, p.sent, p.bit + 1)
     \/ /\ p.at = "released" /\ w.vout = {} /\ w.host = {}
        /\ p.bit + 1 = Bits /\ Taken(a, g, q, p.sent + 1, 0)

\* The program may answer before the link has seen that its last bit is taken.
AnsweredEarly(w, a, p, g, q) ==
  /\ p.at = "released" /\ w.vout = {} /\ w.host \in {{}, L!LineOf(L!BitOf(a.out, 0))}
  /\ p.bit + 1 = Bits /\ p.sent + 1 = Len(q) /\ p.got = <<>> /\ g.answered = 1
  /\ Gives(a, g, q, 0)

Listens(w, a, p, g, q) ==
  /\ p.sent = Len(q)
  /\ \/ /\ p.at = "listen" /\ w.vout = {} /\ w.host = {} /\ p.bit = 0
        /\ g.answered = Len(p.got) /\ TakenUpTo(a, g, q, p.sent, 0)
     \/ /\ p.at = "listen" /\ w.vout = {} /\ w.host = {} /\ p.bit = 0
        /\ g.answered = Len(p.got) /\ Gives(a, g, q, Bits)
     \/ /\ p.at = "listen" /\ w.vout = {} /\ w.host \in {{}, Answer(a, p)}
        /\ g.answered = Len(p.got) + 1 /\ Gives(a, g, q, p.bit) /\ HasBits(p.byte, a.out, p.bit)
     \/ /\ p.at = "heard" /\ w.vout = L!Lines \ Answer(a, p)
        /\ g.answered = Len(p.got) + 1 /\ HasBits(p.byte, a.out, p.bit + 1)
        /\ \/ w.host = Answer(a, p) /\ Gives(a, g, q, p.bit)
           \/ w.host = {} /\ Gives(a, g, q, p.bit + 1)

Place(w, a, p, g, q) ==
  \/ Settled(w, a, p, g, q) \/ Blocked(w, a, p, g) \/ Sends(w, a, p, g, q)
  \/ AnsweredEarly(w, a, p, g, q) \/ Listens(w, a, p, g, q)
Agrees(w, a, p, g, q) == Typed(w, a, p, g) /\ Delivered(a, p, g, q) /\ Place(w, a, p, g, q)

LinkInv(w, a, p, g) ==
  DOMAIN g = ProgFields /\ g.lost \in BOOLEAN /\ (~g.lost => Agrees(w, a, p, g, L!PacketOf(p.request)))

(***************************************************************************)
(* The bits of a byte, the lowest first.                                   *)
(***************************************************************************)
LEMMA BaseIs ==
  /\ Bits \in 1..8 /\ L!Base = Power(Bits) /\ L!Base \in Nat \ {0} /\ L!Base = 2 * (L!Base \div 2)
  /\ L!Base \div 2 = Power(Bits - 1)
<1>1. Bits \in 1..8
  BY LinkAssumption DEF L!LinkOK
<1>2. L!Base = Power(Bits)
  BY DEF L!Base, Power
<1>3. Power(Bits) \in Nat \ {0} /\ Power(Bits - 1) \in Nat \ {0} /\ Power(Bits) = 2 * Power(Bits - 1)
  <2>1. Bits \in 0..15 /\ Bits - 1 \in 0..15 /\ (Bits - 1) + 1 = Bits
    BY <1>1
  <2>2. Power((Bits - 1) + 1) = 2 * Power(Bits - 1)
    BY <2>1, Doubled
  <2> QED BY <2>1, <2>2, Doubled
<1>4. \A n, m \in Nat : n = 2 * m => n \div 2 = m
  OBVIOUS
<1> QED BY <1>1, <1>2, <1>3, <1>4

LEMMA OneBit ==
  ASSUME NEW b \in LinkBytes, NEW k \in 0..(Bits - 1)
  PROVE  L!BitOf(b, k) \in {0, 1}
<1> DEFINE n == b \div Power(k)
<1>1. k \in 0..15 /\ b \in Int
  BY BaseIs DEF LinkBytes
<1>2. n \in Int
  BY <1>1, Doubled, IntDivision
<1>3. L!BitOf(b, k) = n % 2
  BY DEF L!BitOf, Power
<1> HIDE DEF n
<1> QED BY <1>2, <1>3

LEMMA NoBits ==
  ASSUME NEW v \in LinkBytes, NEW b \in LinkBytes
  PROVE  HasBits(v, b, 0)
<1> DEFINE n == Power(Bits)
<1>1. n \in Nat \ {0} /\ v \in 0..(n - 1) /\ b \in Int /\ v \in Int
  BY BaseIs DEF LinkBytes
<1> HIDE DEF n
<1>2. v \div n = 0
  <2>1. v = n * 0 + v /\ 0 \in Int
    BY <1>1
  <2> QED BY <1>1, <2>1, DivisionIs
<1>3. Power(0) = 1 /\ b % 1 = 0
  BY <1>1 DEF Power
<1>4. Bits - 0 = Bits
  BY BaseIs
<1> QED BY <1>2, <1>3, <1>4 DEF HasBits, n

LEMMA AllBits ==
  ASSUME NEW v \in LinkBytes, NEW b \in LinkBytes, HasBits(v, b, Bits)
  PROVE  v = b
<1> DEFINE n == Power(Bits)
<1>1. n \in Nat \ {0} /\ b \in 0..(n - 1) /\ b \in Int /\ v \in Int
  BY BaseIs DEF LinkBytes
<1> HIDE DEF n
<1>2. b % n = b
  <2>1. b = n * 0 + b /\ 0 \in Int
    BY <1>1
  <2> QED BY <1>1, <2>1, DivisionIs
<1>3. Bits - Bits = 0 /\ Power(0) = 1 /\ v \div 1 = v
  BY <1>1, BaseIs DEF Power
<1> QED BY <1>2, <1>3 DEF HasBits, n

(* A receiver shifts the next bit in at the top. *)
LEMMA NextBit ==
  ASSUME NEW v \in LinkBytes, NEW b \in LinkBytes, NEW k \in 0..(Bits - 1), HasBits(v, b, k),
         NEW n, n = (v \div 2) + (L!Base \div 2) * L!BitOf(b, k)
  PROVE  n \in LinkBytes /\ HasBits(n, b, k + 1)
<1> DEFINE e == L!BitOf(b, k)
           m == Power(k)
           l == Power(Bits - (k + 1))
           h == L!Base \div 2
           u == v \div 2
<1>1. k \in 0..15 /\ k + 1 \in 0..15 /\ Bits - (k + 1) \in 0..15 /\ b \in Int /\ v \in Nat /\ v < 2 * h
  BY BaseIs DEF LinkBytes
<1>2. e \in {0, 1} /\ e \in Int
  BY OneBit
<1>3. m \in Nat \ {0} /\ l \in Nat \ {0} /\ Power(k + 1) = 2 * m
  BY <1>1, Doubled
<1>4. h = m * l
  <2>1. k \in 0..(15 - (Bits - (k + 1))) /\ k + (Bits - (k + 1)) = Bits - 1
    BY <1>1, BaseIs
  <2>2. Power(k + (Bits - (k + 1))) = m * l
    BY <1>1, <2>1, PowerOfSum
  <2> QED BY <2>1, <2>2, BaseIs
<1>5. Power(Bits - k) = 2 * l
  <2>1. (Bits - (k + 1)) + 1 = Bits - k
    BY BaseIs
  <2>2. Power((Bits - (k + 1)) + 1) = 2 * l
    BY <1>1, Doubled
  <2> QED BY <2>1, <2>2
<1>6. v \div (2 * l) = b % m
  BY <1>5 DEF HasBits
<1>7. e = (b \div m) % 2
  BY DEF L!BitOf, Power
<1>8. h \in Nat /\ n = u + h * e
  BY BaseIs
<1> HIDE DEF e, m, l, h
<1>9. n \in 0..(2 * h - 1)
  <2>1. u \in 0..(h - 1)
    BY <1>1, <1>8
  <2> HIDE DEF u
  <2>2. e = 0 \/ e = 1
    BY <1>2
  <2>3. e = 0 => n = u
    BY <1>8, <2>1
  <2>4. e = 1 => n = u + h
    BY <1>8, <2>1
  <2> QED BY <1>8, <2>1, <2>2, <2>3, <2>4
<1>10. n \div l = (b % m) + m * e
  <2>1. u \in Int /\ m * e \in Int /\ n = u + l * (m * e)
    <3>1. u \in Int
      BY <1>1
    <3>2. (m * l) * e = l * (m * e)
      BY <1>2, <1>3
    <3> QED BY <1>2, <1>3, <1>4, <1>8, <3>1, <3>2
  <2>2. u \div l = v \div (2 * l)
    <3>1. v \in Int /\ 2 \in Nat \ {0}
      BY <1>1
    <3> QED BY <1>3, <3>1, DivisionTwice
  <2> DEFINE f == m * e
  <2>3. f \in Int /\ n = u + l * f
    BY <2>1
  <2> HIDE DEF u, f
  <2>4. (u + l * f) \div l = (u \div l) + f
    BY <1>3, <2>1, <2>3, DivisionOfSum
  <2> QED BY <1>6, <2>2, <2>3, <2>4 DEF f
<1>11. b % (2 * m) = (b % m) + m * e
  <2> DEFINE q == b \div m
             r == b % m
             s == q \div 2
  <2>1. q \in Int /\ r \in 0..(m - 1) /\ b = m * q + r
    BY <1>1, <1>3, IntDivision
  <2>2. e = q % 2
    BY <1>7
  <2> HIDE DEF q, r
  <2>3. s \in Int /\ q = 2 * s + e
    BY <2>1, <2>2
  <2> HIDE DEF s
  <2> DEFINE t == r + m * e
             d == 2 * m
  <2>4. d \in Nat \ {0}
    BY <1>3
  <2>5. t \in 0..(d - 1)
    <3>1. e = 0 => m * e = 0
      BY <1>3
    <3>2. e = 1 => m * e = m
      BY <1>3
    <3> QED BY <1>2, <1>3, <2>1, <3>1, <3>2
  <2>6. b = d * s + t
    <3>1. m * (2 * s + e) = (2 * m) * s + m * e
      BY <1>2, <1>3, <2>3
    <3>2. m * e \in Int /\ (2 * m) * s \in Int
      BY <1>2, <1>3, <2>3
    <3> QED BY <2>1, <2>3, <3>1, <3>2
  <2> HIDE DEF t, d
  <2>7. b % d = t
    BY <1>1, <2>3, <2>4, <2>5, <2>6, DivisionIs
  <2> QED BY <2>7 DEF t, d, r
<1>12. n \in LinkBytes
  BY <1>9, BaseIs DEF LinkBytes, h
<1>13. HasBits(n, b, k + 1)
  BY <1>3, <1>10, <1>11 DEF HasBits, l
<1> QED BY <1>12, <1>13

(***************************************************************************)
(* One poll of the assist.                                                 *)
(***************************************************************************)
Line == {{1}, {2}}

LEMMA LinesAre ==
  /\ {} \notin Line /\ L!Lines \notin Line /\ L!Lines # {} /\ L!Lines \ ({} \cup {}) = L!Lines
  /\ \A l \in Line : /\ L!Lines \ l \in Line /\ L!Lines \ (L!Lines \ l) = l /\ l \subseteq L!Lines
                     /\ L!Lines \ (l \cup {}) = L!Lines \ l /\ L!Lines \ ({} \cup l) = L!Lines \ l
                     /\ L!Lines \ (l \cup (L!Lines \ l)) = {} /\ L!Lines \ ((L!Lines \ l) \cup l) = {}
  /\ \A b \in {0, 1} : L!LineOf(b) \in Line /\ L!BitOn(L!Lines \ L!LineOf(b)) = b
<1>1. L!Lines = {1, 2} /\ {1} # {2}
  BY DEF L!Lines
<1>2. L!LineOf(0) = {1} /\ L!LineOf(1) = {2}
  BY DEF L!LineOf
<1>3. L!Lines \ {1} = {2} /\ L!Lines \ {2} = {1}
  BY <1>1
<1>4. L!BitOn({1}) = 1 /\ L!BitOn({2}) = 0
  BY <1>1 DEF L!BitOn
<1> QED BY <1>1, <1>2, <1>3, <1>4 DEF Line

\* What a poll may make of the line of the calculator, v, and of the assist, b.
Has(b, a, receiving, read, sending, bit, working, in) ==
  /\ DOMAIN b = AssistFields /\ b.on = a.on /\ b.out = a.out
  /\ b.receiving = receiving /\ b.read = read /\ b.sending = sending
  /\ b.bit = bit /\ b.working = working /\ b.in = in
Same(b, a) == Has(b, a, a.receiving, a.read, a.sending, a.bit, a.working, a.in)
TakenOver(b, a) == ~a.read /\ Has(b, a, FALSE, TRUE, a.sending, 0, a.working, a.working)

Gave(high, host, a, v, b) ==
  \/ /\ high = {} /\ host # {} /\ v = {}
     /\ Has(b, a, a.receiving, a.read, a.sending, a.bit + 1, a.working, a.in)
  \/ /\ high = L!Lines /\ a.bit >= Bits /\ v = host
     /\ Has(b, a, a.receiving, a.read, FALSE, 0, a.working, a.in)
  \/ high = L!Lines /\ a.bit < Bits /\ v = L!LineOf(L!BitOf(a.out, a.bit)) /\ Same(b, a)

Took(high, host, a, v, b) ==
  \/ high = L!Lines /\ a.bit >= Bits /\ v = host /\ TakenOver(b, a)
  \/ high \notin {{}, L!Lines} /\ a.bit >= Bits /\ v = {} /\ (Same(b, a) \/ TakenOver(b, a))
  \/ /\ high \notin {{}, L!Lines} /\ a.bit < Bits /\ host = {} /\ v = high
     /\ Has(b, a, TRUE, a.read, a.sending, (IF a.receiving THEN a.bit ELSE 0) + 1,
            (a.working \div 2) + (L!Base \div 2) * L!BitOn(high), a.in)
  \/ /\ high \notin {{}, L!Lines} /\ a.bit < Bits /\ host # {} /\ v = {}
     /\ Has(b, a, TRUE, a.read, a.sending, IF a.receiving THEN a.bit ELSE 0, a.working, a.in)

PollOf(high, host, a, v, b) ==
  \/ v = host /\ Same(b, a)
  \/ a.on /\ a.sending /\ Gave(high, host, a, v, b)
  \/ a.on /\ ~a.sending /\ Took(high, host, a, v, b)

Pair(d) == DOMAIN d = {"wires", "assist"} /\ DOMAIN d.wires = WireFields
             /\ DOMAIN d.assist = AssistFields
GoesTo(d, e) ==
  /\ Pair(e) /\ e.wires.vout = d.wires.vout
  /\ PollOf(L!HighOf(d.wires), d.wires.host, d.assist, e.wires.host, e.assist)

LEMMA HostSet ==
  ASSUME NEW d, Pair(d), NEW l, NEW e, e = L!Host(d, l)
  PROVE  Pair(e) /\ e.assist = d.assist /\ e.wires.vout = d.wires.vout /\ e.wires.host = l
BY DEF Pair, L!Host, WireFields, AssistFields

LEMMA AssistSet ==
  ASSUME NEW d, Pair(d), NEW a, DOMAIN a = AssistFields, NEW e, e = [d EXCEPT !.assist = a]
  PROVE  Pair(e) /\ e.assist = a /\ e.wires = d.wires
BY DEF Pair, WireFields, AssistFields

LEMMA GivingGoes ==
  ASSUME NEW d, Pair(d), d.assist.on, d.assist.sending,
         d.assist.bit \in 0..Bits, NEW e, e = L!Giving(d)
  PROVE  GoesTo(d, e)
<1> DEFINE high == L!HighOf(d.wires)
           c == d.assist
           a == [c EXCEPT !.ready = FALSE]
           taken == [a EXCEPT !.bit = @ + 1]
           sent == [a EXCEPT !.sending = FALSE, !.ready = TRUE, !.bit = 0]
           line == L!LineOf(L!BitOf(a.out, a.bit))
           on(x) == [d EXCEPT !.assist = x]
<1>1. DOMAIN c = AssistFields
  BY DEF Pair
<1>2. Same(a, c) /\ a.bit = c.bit /\ a.out = c.out
  BY <1>1 DEF Same, Has, AssistFields
<1>3. Has(taken, c, c.receiving, c.read, c.sending, c.bit + 1, c.working, c.in)
  BY <1>1 DEF Has, AssistFields
<1>4. Has(sent, c, c.receiving, c.read, FALSE, 0, c.working, c.in)
  BY <1>1 DEF Has, AssistFields
<1>5. a.bit \in Int /\ Bits \in Int /\ (a.bit < Bits <=> ~(a.bit >= Bits))
  BY <1>2, BaseIs
<1>6. high = {} => e = L!Host(on(IF d.wires.host = {} THEN a ELSE taken), {})
  BY LinesAre DEF L!Giving
<1>7. high = L!Lines /\ a.bit >= Bits => e = on(sent)
  BY <1>5, LinesAre DEF L!Giving
<1>8. high = L!Lines /\ a.bit < Bits => e = L!Host(on(a), line)
  BY <1>5, LinesAre DEF L!Giving
<1>9. high \notin {{}, L!Lines} => e = on(a)
  BY LinesAre DEF L!Giving
<1>10. \A x : DOMAIN x = AssistFields => Pair(on(x)) /\ on(x).assist = x /\ on(x).wires = d.wires
  BY AssistSet
<1>11. DOMAIN a = AssistFields /\ DOMAIN taken = AssistFields /\ DOMAIN sent = AssistFields
  BY <1>2, <1>3, <1>4 DEF Same, Has
<1> HIDE DEF a, taken, sent, line, on
<1>12. CASE high = {} /\ d.wires.host = {}
  BY <1>2, <1>6, <1>10, <1>11, <1>12, HostSet DEF GoesTo, PollOf, c
<1>13. CASE high = {} /\ d.wires.host # {}
  <2>1. Pair(e) /\ e.assist = taken /\ e.wires.vout = d.wires.vout /\ e.wires.host = {}
    BY <1>6, <1>10, <1>11, <1>13, HostSet
  <2>2. Gave(high, d.wires.host, c, e.wires.host, e.assist)
    BY <1>3, <1>13, <2>1 DEF Gave
  <2> QED BY <2>1, <2>2 DEF GoesTo, PollOf
<1>14. CASE high = L!Lines /\ a.bit >= Bits
  <2>1. Pair(e) /\ e.assist = sent /\ e.wires = d.wires
    BY <1>7, <1>10, <1>11, <1>14
  <2>2. Gave(high, d.wires.host, c, e.wires.host, e.assist)
    BY <1>2, <1>4, <1>14, <2>1 DEF Gave
  <2> QED BY <2>1, <2>2 DEF GoesTo, PollOf
<1>15. CASE high = L!Lines /\ a.bit < Bits
  <2>1. Pair(e) /\ e.assist = a /\ e.wires.vout = d.wires.vout /\ e.wires.host = line
    BY <1>8, <1>10, <1>11, <1>15, HostSet
  <2>2. Gave(high, d.wires.host, c, e.wires.host, e.assist)
    BY <1>2, <1>15, <2>1 DEF Gave, line
  <2> QED BY <2>1, <2>2 DEF GoesTo, PollOf
<1>16. CASE high \notin {{}, L!Lines}
  <2>1. Pair(e) /\ e.assist = a /\ e.wires = d.wires
    BY <1>9, <1>10, <1>11, <1>16
  <2> QED BY <1>2, <2>1 DEF GoesTo, PollOf
<1> QED BY <1>5, <1>12, <1>13, <1>14, <1>15, <1>16

LEMMA LatchGoes ==
  ASSUME NEW d, Pair(d), NEW e, e = L!LatchedOnce(d)
  PROVE  Pair(e) /\ e.wires = d.wires /\ (e.assist = d.assist \/ TakenOver(e.assist, d.assist))
<1>1. CASE d.assist.read
  BY <1>1 DEF L!LatchedOnce
<1>2. CASE ~d.assist.read
  <2> DEFINE a == L!Latched(d.assist)
  <2>1. e = [d EXCEPT !.assist = a]
    BY <1>2 DEF L!LatchedOnce, Pair
  <2>2. DOMAIN a = AssistFields /\ TakenOver(a, d.assist)
    BY <1>2 DEF L!Latched, Pair, TakenOver, Has, AssistFields
  <2> HIDE DEF a
  <2> QED BY <2>1, <2>2, AssistSet
<1> QED BY <1>1, <1>2

LEMMA TakingGoes ==
  ASSUME NEW d, Pair(d), d.assist.on, ~d.assist.sending,
         d.assist.bit \in 0..Bits, NEW e, e = L!Taking(d)
  PROVE  GoesTo(d, e)
<1> DEFINE high == L!HighOf(d.wires)
           c == d.assist
           a == [c EXCEPT !.ready = @ /\ high = L!Lines]
           idle == [a EXCEPT !.ready = @ \/ a.bit = 0]
           b == [a EXCEPT !.bit = IF a.receiving THEN @ ELSE 0, !.receiving = TRUE]
           bit == [b EXCEPT !.working = (@ \div 2) + (L!Base \div 2) * L!BitOn(high), !.bit = @ + 1]
           on(x) == [d EXCEPT !.assist = x]
           counted == IF c.receiving THEN c.bit ELSE 0
           shifted == (c.working \div 2) + (L!Base \div 2) * L!BitOn(high)
<1>1. DOMAIN c = AssistFields
  BY DEF Pair
<1>2. Same(a, c) /\ a.bit = c.bit /\ a.read = c.read
  BY <1>1 DEF Same, Has, AssistFields
<1>3. Same(idle, c)
  BY <1>1 DEF Same, Has, AssistFields
<1>4. Has(b, c, TRUE, c.read, c.sending, counted, c.working, c.in)
  BY <1>1 DEF Has, AssistFields
<1>5. Has(bit, c, TRUE, c.read, c.sending, counted + 1, shifted, c.in)
  BY <1>1 DEF Has, AssistFields
<1>6. a.bit \in Int /\ Bits \in Int /\ (a.bit < Bits <=> ~(a.bit >= Bits))
  BY <1>2, BaseIs
<1>7. high = {} => e = on(a)
  BY <1>6, LinesAre DEF L!Taking
<1>8. high = L!Lines /\ a.bit >= Bits => e = L!LatchedOnce(on(a))
  BY <1>6, LinesAre DEF L!Taking
<1>9. high = L!Lines /\ a.bit < Bits => e = on(idle)
  BY <1>6, LinesAre DEF L!Taking
<1>10. high \notin {{}, L!Lines} /\ a.bit >= Bits => e = L!LatchedOnce(L!Host(on(a), {}))
  BY <1>6, LinesAre DEF L!Taking
<1>11. high \notin {{}, L!Lines} /\ a.bit < Bits /\ d.wires.host = {} => e = L!Host(on(bit), high)
  BY <1>6, LinesAre DEF L!Taking
<1>12. high \notin {{}, L!Lines} /\ a.bit < Bits /\ d.wires.host # {} => e = L!Host(on(b), {})
  BY <1>6, LinesAre DEF L!Taking
<1>13. \A x : DOMAIN x = AssistFields => Pair(on(x)) /\ on(x).assist = x /\ on(x).wires = d.wires
  BY AssistSet
<1>14. DOMAIN a = AssistFields /\ DOMAIN idle = AssistFields /\ DOMAIN b = AssistFields
       /\ DOMAIN bit = AssistFields
  BY <1>2, <1>3, <1>4, <1>5 DEF Same, Has
<1> HIDE DEF a, idle, b, bit, on, shifted, counted
<1>15. \A x : TakenOver(x, a) => TakenOver(x, c)
  BY <1>2 DEF TakenOver, Same, Has
<1>16. CASE high = {}
  <2>1. Pair(e) /\ e.assist = a /\ e.wires = d.wires
    BY <1>7, <1>13, <1>14, <1>16
  <2> QED BY <1>2, <2>1 DEF GoesTo, PollOf
<1>17. CASE high = L!Lines /\ a.bit >= Bits
  <2>1. Pair(on(a)) /\ on(a).assist = a /\ on(a).wires = d.wires
    BY <1>13, <1>14
  <2>2. Pair(e) /\ e.wires = d.wires /\ (e.assist = a \/ TakenOver(e.assist, a))
    BY <1>8, <1>17, <2>1, LatchGoes
  <2>3. e.assist = a => Same(e.assist, c)
    BY <1>2
  <2>4. TakenOver(e.assist, a) => Took(high, d.wires.host, c, e.wires.host, e.assist)
    BY <1>2, <1>15, <1>17, <2>2 DEF Took
  <2> QED BY <2>2, <2>3, <2>4 DEF GoesTo, PollOf
<1>18. CASE high = L!Lines /\ a.bit < Bits
  <2>1. Pair(e) /\ e.assist = idle /\ e.wires = d.wires
    BY <1>9, <1>13, <1>14, <1>18
  <2> QED BY <1>3, <2>1 DEF GoesTo, PollOf
<1>19. CASE high \notin {{}, L!Lines} /\ a.bit >= Bits
  <2> DEFINE h == L!Host(on(a), {})
  <2>1. Pair(h) /\ h.assist = a /\ h.wires.vout = d.wires.vout /\ h.wires.host = {}
    BY <1>13, <1>14, HostSet
  <2>2. e = L!LatchedOnce(h)
    BY <1>10, <1>19
  <2> HIDE DEF h
  <2>3. Pair(e) /\ e.wires = h.wires /\ (e.assist = a \/ TakenOver(e.assist, a))
    BY <2>1, <2>2, LatchGoes
  <2>4. Took(high, d.wires.host, c, e.wires.host, e.assist)
    BY <1>2, <1>15, <1>19, <2>1, <2>3 DEF Took
  <2> QED BY <2>1, <2>3, <2>4 DEF GoesTo, PollOf
<1>20. CASE high \notin {{}, L!Lines} /\ a.bit < Bits /\ d.wires.host = {}
  <2>1. Pair(e) /\ e.assist = bit /\ e.wires.vout = d.wires.vout /\ e.wires.host = high
    BY <1>11, <1>13, <1>14, <1>20, HostSet
  <2>2. Took(high, d.wires.host, c, e.wires.host, e.assist)
    BY <1>2, <1>5, <1>20, <2>1 DEF Took, counted, shifted
  <2> QED BY <2>1, <2>2 DEF GoesTo, PollOf
<1>21. CASE high \notin {{}, L!Lines} /\ a.bit < Bits /\ d.wires.host # {}
  <2>1. Pair(e) /\ e.assist = b /\ e.wires.vout = d.wires.vout /\ e.wires.host = {}
    BY <1>12, <1>13, <1>14, <1>21, HostSet
  <2>2. Took(high, d.wires.host, c, e.wires.host, e.assist)
    BY <1>2, <1>4, <1>21, <2>1 DEF Took, counted
  <2> QED BY <2>1, <2>2 DEF GoesTo, PollOf
<1> QED BY <1>6, <1>16, <1>17, <1>18, <1>19, <1>20, <1>21

(* A poll by an instruction that leaves the wires w and the assist a. *)
LEMMA PolledGoes ==
  ASSUME NEW w, DOMAIN w = WireFields, NEW a, DOMAIN a = AssistFields,
         a.bit \in 0..Bits, NEW v, v = L!Polled(w, a).wires, NEW b, b = L!Polled(w, a).assist
  PROVE  /\ DOMAIN v = WireFields /\ v.vout = w.vout
         /\ PollOf(L!HighOf(w), w.host, a, v.host, b)
<1> DEFINE c == [a EXCEPT !.skip = (@ - 1 + Wrap) % Wrap]
           d == [wires |-> w, assist |-> c]
           e == CASE ~c.on -> d [] c.on /\ c.sending -> L!Giving(d) [] c.on /\ ~c.sending -> L!Taking(d)
           f == [e EXCEPT !.assist.skip = a.factor]
<1>1. DOMAIN c = AssistFields /\ Same(c, a)
  BY DEF Same, Has, AssistFields
<1>2. Pair(d) /\ d.wires = w /\ d.assist = c
  BY <1>1 DEF Pair
<1>3. L!Polled(w, a) = IF d.assist.skip = 0 THEN f ELSE d
  <2>1. a.on = c.on /\ a.sending = c.sending
    BY <1>1 DEF Same, Has
  <2> QED BY <2>1 DEF L!Polled
<1>4. \A high, host, v1, b1 : PollOf(high, host, c, v1, b1) => PollOf(high, host, a, v1, b1)
  BY <1>1 DEF PollOf, Gave, Took, TakenOver, Same, Has
<1> HIDE DEF c, d, f
<1>5. c.on = a.on /\ c.bit = a.bit
  BY <1>1 DEF Same, Has
<1>6. Pair(e) /\ e.wires.vout = w.vout /\ PollOf(L!HighOf(w), w.host, c, e.wires.host, e.assist)
  <2>1. CASE ~c.on
    BY <1>1, <1>2, <2>1 DEF PollOf, Same, Has
  <2>2. CASE c.on /\ c.sending
    <3>1. e = L!Giving(d) /\ a.on /\ c.bit = a.bit
      BY <1>1, <2>2 DEF Same, Has
    <3> QED BY <1>2, <1>5, <2>2, <3>1, GivingGoes DEF GoesTo
  <2>3. CASE c.on /\ ~c.sending
    <3>1. e = L!Taking(d) /\ a.on /\ c.bit = a.bit
      BY <1>1, <2>3 DEF Same, Has
    <3> QED BY <1>2, <1>5, <2>3, <3>1, TakingGoes DEF GoesTo
  <2> QED BY <2>1, <2>2, <2>3
<1> HIDE DEF e
<1>7. Pair(f) /\ f.wires = e.wires /\ Same(f.assist, e.assist)
  <2>1. f = [e EXCEPT !.assist = [e.assist EXCEPT !.skip = a.factor]]
    BY <1>6 DEF f, Pair
  <2>2. DOMAIN [e.assist EXCEPT !.skip = a.factor] = AssistFields
        /\ Same([e.assist EXCEPT !.skip = a.factor], e.assist)
    BY <1>6 DEF Pair, Same, Has, AssistFields
  <2> QED BY <1>6, <2>1, <2>2, AssistSet
<1>8. \A high, host, v1, b1, b2 :
        PollOf(high, host, a, v1, b1) /\ Same(b2, b1) => PollOf(high, host, a, v1, b2)
  BY DEF PollOf, Gave, Took, TakenOver, Same, Has
<1>9. PollOf(L!HighOf(w), w.host, a, w.host, c)
  BY <1>1 DEF PollOf
<1> QED BY <1>2, <1>3, <1>4, <1>6, <1>7, <1>8, <1>9 DEF Pair

(***************************************************************************)
(* A poll keeps the two sides in step.                                     *)
(***************************************************************************)
Polls(w, a, v, b) ==
  DOMAIN v = WireFields /\ v.vout = w.vout /\ PollOf(L!HighOf(w), w.host, a, v.host, b)

LEMMA PacketIs ==
  ASSUME NEW request \in Requests
  PROVE  L!PacketOf(request) \in Seq(LinkBytes) /\ Len(L!PacketOf(request)) \in Nat \ {0}
<1>1. L!PacketOf(request) \in Seq(LinkBytes) \ {<<>>}
  BY LinkAssumption DEF L!LinkOK, LinkBytes
<1> HIDE DEF LinkBytes
<1> QED BY <1>1, EmptySeq, LenProperties

\* What the places say of the assist, whether it is on or not.
Alike(b, a) ==
  /\ b.out = a.out /\ b.receiving = a.receiving /\ b.read = a.read /\ b.sending = a.sending
  /\ b.bit = a.bit /\ b.working = a.working /\ b.in = a.in

LEMMA AlikeKeeps ==
  ASSUME NEW a, NEW b, Alike(b, a)
  PROVE  /\ \A p, g, q : Delivered(a, p, g, q) => Delivered(b, p, g, q)
         /\ \A g, q, m, k : Taken(a, g, q, m, k) => Taken(b, g, q, m, k)
         /\ \A g, q, m, k : TakenUpTo(a, g, q, m, k) => TakenUpTo(b, g, q, m, k)
         /\ \A g, q, k : Gives(a, g, q, k) => Gives(b, g, q, k)
         /\ \A p : Answer(a, p) = Answer(b, p)
<1>1. \A g, q, m, k : Taken(a, g, q, m, k) => Taken(b, g, q, m, k)
  BY DEF Alike, Taken
<1>2. \A g, q, m, k : TakenUpTo(a, g, q, m, k) => TakenUpTo(b, g, q, m, k)
  BY <1>1 DEF TakenUpTo
<1> QED BY <1>1, <1>2 DEF Alike, Delivered, Gives, Answer

LEMMA SameKeeps ==
  ASSUME NEW a, NEW b, Same(b, a)
  PROVE  /\ \A p, g, q : Delivered(a, p, g, q) => Delivered(b, p, g, q)
         /\ \A g, q, m, k : Taken(a, g, q, m, k) => Taken(b, g, q, m, k)
         /\ \A g, q, m, k : TakenUpTo(a, g, q, m, k) => TakenUpTo(b, g, q, m, k)
         /\ \A g, q, k : Gives(a, g, q, k) => Gives(b, g, q, k)
         /\ \A p : Answer(a, p) = Answer(b, p)
<1>1. Alike(b, a)
  BY DEF Same, Has, Alike
<1> QED BY <1>1, AlikeKeeps

LEMMA SameTyped ==
  ASSUME NEW w, NEW a, NEW p, NEW g, Typed(w, a, p, g),
         NEW v, DOMAIN v = WireFields, v.host \subseteq L!Lines, NEW b, Same(b, a)
  PROVE  Typed(v, b, p, g)
<1>1. /\ DOMAIN b = AssistFields /\ b.on = a.on /\ b.receiving = a.receiving /\ b.read = a.read
      /\ b.sending = a.sending /\ b.bit = a.bit /\ b.working = a.working
  BY DEF Same, Has
<1> QED BY <1>1 DEF Typed

(* A byte of which all bits are taken is handed to the program. *)
LEMMA LatchKeeps ==
  ASSUME NEW w, NEW a, NEW p, NEW g, Typed(w, a, p, g), NEW q \in Seq(LinkBytes),
         Delivered(a, p, g, q), NEW m \in Nat, Taken(a, g, q, m, Bits),
         NEW v, DOMAIN v = WireFields, v.host \subseteq L!Lines, NEW b, TakenOver(b, a)
  PROVE  Typed(v, b, p, g) /\ Delivered(b, p, g, q) /\ Taken(b, g, q, m + 1, 0)
<1>1. ~a.read /\ Has(b, a, FALSE, TRUE, a.sending, 0, a.working, a.working)
  BY DEF TakenOver
<1>2. 0 \in 0..Bits /\ a.working \in LinkBytes
  BY BaseIs DEF Typed
<1>3. Typed(v, b, p, g)
  <2>1. /\ DOMAIN b = AssistFields /\ b.on = a.on /\ b.receiving = FALSE /\ b.read = TRUE
        /\ b.sending = a.sending /\ b.bit = 0 /\ b.working = a.working
    BY <1>1 DEF Has
  <2> QED BY <1>2, <2>1 DEF Typed
<1>4. /\ ~a.sending /\ Len(g.read) = m /\ m < Len(q) /\ HasBits(a.working, q[m + 1], Bits)
  <2>1. g.read \in Seq(LinkBytes)
    BY DEF Typed
  <2>2. Len(g.read) \in Nat
    BY <2>1, LenProperties
  <2> QED BY <1>1, <2>2, BaseIs DEF Taken
<1>5. a.working = q[m + 1]
  <2>1. m + 1 \in 1..Len(q)
    BY <1>4, LenProperties
  <2>2. q[m + 1] \in LinkBytes
    BY <2>1, ElementOfSeq
  <2> QED BY <1>2, <1>4, <2>2, AllBits
<1>6. b.read /\ b.in = q[m + 1] /\ ~b.sending /\ b.bit = 0 /\ ~b.receiving
  BY <1>1, <1>4, <1>5 DEF Has
<1>7. Delivered(b, p, g, q)
  BY <1>4, <1>6 DEF Delivered
<1>8. Taken(b, g, q, m + 1, 0)
  BY <1>4, <1>6 DEF Taken
<1> QED BY <1>3, <1>7, <1>8

(* Nothing is handed over but what is whole. *)
LEMMA UpToKeeps ==
  ASSUME NEW w, NEW a, NEW p, NEW g, Typed(w, a, p, g), NEW q \in Seq(LinkBytes),
         Delivered(a, p, g, q), NEW m \in Nat, NEW k \in 0..(Bits - 1), TakenUpTo(a, g, q, m, k),
         a.bit >= Bits,
         NEW v, DOMAIN v = WireFields, v.host \subseteq L!Lines, NEW b, TakenOver(b, a)
  PROVE  Typed(v, b, p, g) /\ Delivered(b, p, g, q) /\ TakenUpTo(b, g, q, m, k)
<1>1. ~Taken(a, g, q, m, k)
  <2>1. Bits \in Int
    BY BaseIs
  <2>2. a.bit # k
    BY <2>1 DEF Typed
  <2> QED BY <2>2 DEF Taken
<1>2. k = 0 /\ m > 0 /\ Taken(a, g, q, m - 1, Bits)
  BY <1>1 DEF TakenUpTo
<1>3. m - 1 \in Nat /\ (m - 1) + 1 = m
  BY <1>2
<1>4. Typed(v, b, p, g) /\ Delivered(b, p, g, q) /\ Taken(b, g, q, (m - 1) + 1, 0)
  BY <1>2, <1>3, LatchKeeps
<1> QED BY <1>2, <1>3, <1>4 DEF TakenUpTo

LEMMA AlikePlace ==
  ASSUME NEW w, NEW a, NEW p, NEW g, NEW q, Place(w, a, p, g, q),
         NEW v, v.vout = w.vout, v.host = w.host, NEW b, Alike(b, a)
  PROVE  Place(v, b, p, g, q)
<1>1. Settled(w, a, p, g, q) => Settled(v, b, p, g, q)
  BY DEF Alike, Settled
<1>2. Blocked(w, a, p, g) => Blocked(v, b, p, g)
  BY DEF Alike, Blocked
<1>3. Sends(w, a, p, g, q) => Sends(v, b, p, g, q)
  BY AlikeKeeps DEF Sends
<1>4. AnsweredEarly(w, a, p, g, q) => AnsweredEarly(v, b, p, g, q)
  BY AlikeKeeps DEF Alike, AnsweredEarly
<1>5. Listens(w, a, p, g, q) => Listens(v, b, p, g, q)
  BY AlikeKeeps DEF Alike, Listens
<1> QED BY <1>1, <1>2, <1>3, <1>4, <1>5 DEF Place

LEMMA SamePlace ==
  ASSUME NEW w, NEW a, NEW p, NEW g, NEW q, Agrees(w, a, p, g, q),
         NEW v, DOMAIN v = WireFields, v.vout = w.vout, v.host = w.host, NEW b, Same(b, a)
  PROVE  Agrees(v, b, p, g, q)
<1>1. v.host \subseteq L!Lines
  BY DEF Agrees, Typed
<1>2. Typed(v, b, p, g) /\ Delivered(b, p, g, q)
  BY <1>1, SameTyped, SameKeeps DEF Agrees
<1>3. Alike(b, a)
  BY DEF Same, Has, Alike
<1> QED BY <1>2, <1>3, AlikePlace DEF Agrees

(* When the lines are free, and nothing is left to send or to hand over. *)
LEMMA SettledPoll ==
  ASSUME NEW w, NEW a, NEW p, NEW g, NEW q \in Seq(LinkBytes), Len(q) > 0,
         Agrees(w, a, p, g, q), Settled(w, a, p, g, q), NEW v, NEW b, Polls(w, a, v, b)
  PROVE  Agrees(v, b, p, g, q)
<1>1. L!HighOf(w) = L!Lines /\ w.vout = {} /\ w.host = {} /\ L!Lines # {}
  BY LinesAre DEF Settled, L!HighOf
<1>2. DOMAIN v = WireFields /\ v.vout = {}
  BY <1>1 DEF Polls
<1>3. CASE v.host = w.host /\ Same(b, a)
  BY <1>1, <1>2, <1>3, SamePlace
<1>4. CASE a.sending /\ Gave(L!HighOf(w), w.host, a, v.host, b)
  <2>1. a.bit = Bits /\ ~(a.bit < Bits)
    BY <1>4, BaseIs DEF Settled
  <2>2. v.host = {} /\ Has(b, a, a.receiving, a.read, FALSE, 0, a.working, a.in)
    BY <1>1, <1>4, <2>1 DEF Gave
  <2>3. /\ DOMAIN b = AssistFields /\ b.on = a.on /\ b.receiving = a.receiving /\ b.read = a.read
        /\ b.sending = FALSE /\ b.bit = 0 /\ b.working = a.working /\ b.in = a.in
    BY <2>2 DEF Has
  <2>4. Typed(v, b, p, g)
    <3>1. 0 \in 0..Bits /\ v.host \subseteq L!Lines
      BY <2>2, BaseIs
    <3> QED BY <1>2, <2>3, <3>1 DEF Agrees, Typed
  <2>5. Delivered(b, p, g, q)
    BY <2>3 DEF Agrees, Delivered
  <2>6. Settled(v, b, p, g, q)
    BY <1>2, <2>2, <2>3 DEF Settled
  <2> QED BY <2>4, <2>5, <2>6 DEF Agrees, Place
<1>5. CASE ~a.sending /\ Took(L!HighOf(w), w.host, a, v.host, b)
  <2>1. a.bit = 0 /\ ~(a.bit >= Bits)
    BY <1>5, BaseIs DEF Settled
  <2> QED BY <1>1, <1>5, <2>1 DEF Took
<1> QED BY <1>3, <1>4, <1>5 DEF Polls, PollOf

(* An answer of which the end is unseen keeps a new packet from its first bit. *)
LEMMA BlockedPoll ==
  ASSUME NEW w, NEW a, NEW p, NEW g, NEW q \in Seq(LinkBytes), Len(q) > 0,
         Agrees(w, a, p, g, q), Blocked(w, a, p, g), NEW v, NEW b, Polls(w, a, v, b)
  PROVE  Agrees(v, b, p, g, q)
<1>1. w.host = {} /\ a.sending /\ DOMAIN v = WireFields /\ v.vout = w.vout
  BY DEF Blocked, Polls
<1>2. CASE v.host = w.host /\ Same(b, a)
  BY <1>1, <1>2, SamePlace
<1>3. CASE Gave(L!HighOf(w), w.host, a, v.host, b)
  <2>1. a.bit = Bits /\ ~(a.bit < Bits)
    BY BaseIs DEF Blocked
  <2>2. L!HighOf(w) = L!Lines
    BY <1>1, <1>3, <2>1 DEF Gave
  <2>3. p.at = "send" /\ w.vout = {}
    <3>1. w.vout \notin Line
      BY <1>1, <2>2, LinesAre DEF L!HighOf
    <3> QED BY <3>1 DEF Blocked, Line
  <2>4. v.host = {} /\ Has(b, a, a.receiving, a.read, FALSE, 0, a.working, a.in)
    BY <1>1, <1>3, <2>1 DEF Gave
  <2>5. /\ DOMAIN b = AssistFields /\ b.on = a.on /\ b.receiving = a.receiving /\ b.read = a.read
        /\ b.sending = FALSE /\ b.bit = 0 /\ b.working = a.working /\ b.in = a.in
    BY <2>4 DEF Has
  <2>6. Typed(v, b, p, g)
    <3>1. 0 \in 0..Bits /\ v.host \subseteq L!Lines
      BY <2>4, BaseIs
    <3> QED BY <1>1, <2>5, <3>1 DEF Agrees, Typed
  <2>7. Delivered(b, p, g, q)
    BY <2>5 DEF Agrees, Delivered
  <2>8. Taken(b, g, q, 0, 0)
    <3>1. Len(g.read) = 0 /\ ~a.read /\ ~a.receiving
      BY EmptySeq DEF Blocked
    <3> QED BY <2>5, <3>1 DEF Taken
  <2>9. Sends(v, b, p, g, q)
    BY <1>1, <2>3, <2>4, <2>8 DEF Blocked, Sends, TakenUpTo
  <2> QED BY <2>6, <2>7, <2>9 DEF Agrees, Place
<1> QED BY <1>1, <1>2, <1>3 DEF Polls, PollOf

LEMMA SendsTyped ==
  ASSUME NEW w, NEW a, NEW p, NEW g, NEW q \in Seq(LinkBytes), Typed(w, a, p, g), p.sent < Len(q)
  PROVE  /\ q[p.sent + 1] \in LinkBytes /\ p.sent \in Nat /\ p.bit \in 0..(Bits - 1)
         /\ p.bit \in Int /\ Bits \in Int /\ a.bit \in Int /\ a.working \in LinkBytes
         /\ Mine(p, q) \in Line
<1>1. p.sent \in Nat /\ p.bit \in 0..(Bits - 1) /\ a.bit \in 0..Bits /\ a.working \in LinkBytes
  BY DEF Typed
<1>2. Bits \in Int
  BY BaseIs
<1>3. p.sent + 1 \in 1..Len(q)
  BY <1>1, LenProperties
<1>4. q[p.sent + 1] \in LinkBytes
  BY <1>3, ElementOfSeq
<1>5. L!BitOf(q[p.sent + 1], p.bit) \in {0, 1}
  BY <1>1, <1>4, OneBit
<1> QED BY <1>1, <1>2, <1>4, <1>5, LinesAre DEF Mine

(* No bit is offered, and all of a byte may be handed over. *)
LEMMA IdlePoll ==
  ASSUME NEW w, NEW a, NEW p, NEW g, NEW q \in Seq(LinkBytes), Typed(w, a, p, g),
         Delivered(a, p, g, q), w.vout = {}, w.host = {}, NEW m \in Nat, NEW k \in 0..(Bits - 1),
         TakenUpTo(a, g, q, m, k), NEW v, NEW b, Polls(w, a, v, b)
  PROVE  Typed(v, b, p, g) /\ Delivered(b, p, g, q) /\ TakenUpTo(b, g, q, m, k) /\ v.host = {}
<1>1. DOMAIN v = WireFields /\ L!HighOf(w) = L!Lines /\ ~a.sending
  BY LinesAre DEF Polls, L!HighOf, TakenUpTo, Taken
<1>2. CASE v.host = w.host /\ Same(b, a)
  <2>1. v.host \subseteq L!Lines
    BY <1>2
  <2> QED BY <1>1, <1>2, <2>1, SameTyped, SameKeeps
<1>3. CASE Took(L!HighOf(w), w.host, a, v.host, b)
  <2>1. a.bit >= Bits /\ v.host = {} /\ TakenOver(b, a)
    BY <1>1, <1>3 DEF Took
  <2>2. v.host \subseteq L!Lines
    BY <2>1
  <2> QED BY <1>1, <2>1, <2>2, UpToKeeps
<1> QED BY <1>1, <1>2, <1>3 DEF Polls, PollOf

(* A bit is taken and acknowledged on the other line. *)
LEMMA SentPoll ==
  ASSUME NEW w, NEW a, NEW p, NEW g, NEW q \in Seq(LinkBytes), Typed(w, a, p, g),
         Delivered(a, p, g, q), p.sent < Len(q), w.vout = Mine(p, q), w.host = {},
         TakenUpTo(a, g, q, p.sent, p.bit), NEW v, NEW b, Polls(w, a, v, b)
  PROVE  /\ Typed(v, b, p, g) /\ Delivered(b, p, g, q)
         /\ \/ v.host = {} /\ TakenUpTo(b, g, q, p.sent, p.bit)
            \/ v.host = L!Lines \ Mine(p, q) /\ Taken(b, g, q, p.sent, p.bit + 1)
<1> DEFINE line == Mine(p, q)
           byte == q[p.sent + 1]
<1>1. /\ byte \in LinkBytes /\ p.sent \in Nat /\ p.bit \in 0..(Bits - 1) /\ p.bit \in Int
      /\ Bits \in Int /\ a.bit \in Int /\ a.working \in LinkBytes /\ line \in Line
  BY SendsTyped
<1>2. L!HighOf(w) = L!Lines \ line /\ L!BitOn(L!Lines \ line) = L!BitOf(byte, p.bit) /\ L!Lines \ line \subseteq L!Lines
  <2>1. L!BitOf(byte, p.bit) \in {0, 1}
    BY <1>1, OneBit
  <2>2. L!BitOn(L!Lines \ line) = L!BitOf(byte, p.bit)
    BY <2>1, LinesAre DEF Mine
  <2>3. L!HighOf(w) = L!Lines \ (line \cup {})
    BY DEF L!HighOf
  <2> HIDE DEF line
  <2> QED BY <1>1, <2>2, <2>3, LinesAre
<1>3. DOMAIN v = WireFields /\ ~a.sending
  BY DEF Polls, TakenUpTo, Taken
<1> HIDE DEF line, byte
<1>4. CASE v.host = w.host /\ Same(b, a)
  <2>1. v.host \subseteq L!Lines
    BY <1>4
  <2> QED BY <1>3, <1>4, <2>1, SameTyped, SameKeeps
<1>5. CASE a.bit >= Bits /\ v.host = {} /\ (Same(b, a) \/ TakenOver(b, a))
  <2>1. v.host \subseteq L!Lines
    BY <1>5
  <2>2. CASE Same(b, a)
    BY <1>3, <1>5, <2>1, <2>2, SameTyped, SameKeeps
  <2>3. CASE TakenOver(b, a)
    BY <1>1, <1>3, <1>5, <2>1, <2>3, UpToKeeps
  <2> QED BY <1>5, <2>2, <2>3
<1>6. CASE /\ a.on /\ a.bit < Bits /\ v.host = L!Lines \ line
           /\ Has(b, a, TRUE, a.read, a.sending, (IF a.receiving THEN a.bit ELSE 0) + 1,
                  (a.working \div 2) + (L!Base \div 2) * L!BitOn(L!Lines \ line), a.in)
  <2> DEFINE n == (a.working \div 2) + (L!Base \div 2) * L!BitOn(L!Lines \ line)
  <2>1. Taken(a, g, q, p.sent, p.bit)
    <3>1. ~Taken(a, g, q, p.sent - 1, Bits)
      <4>1. a.bit # Bits
        BY <1>1, <1>6
      <4> QED BY <4>1 DEF Taken
    <3> QED BY <3>1 DEF TakenUpTo
  <2>2. a.bit = p.bit /\ (a.receiving <=> p.bit > 0) /\ Len(g.read) + (IF a.read THEN 1 ELSE 0) = p.sent
    BY <2>1 DEF Taken
  <2>3. HasBits(a.working, byte, p.bit)
    <3>1. CASE p.bit = 0
      BY <1>1, <3>1, NoBits
    <3>2. CASE p.bit > 0
      BY <2>1, <3>2 DEF Taken, byte
    <3> QED BY <1>1, <3>1, <3>2
  <2>4. n = (a.working \div 2) + (L!Base \div 2) * L!BitOf(byte, p.bit)
    BY <1>2
  <2>5. n \in LinkBytes /\ HasBits(n, byte, p.bit + 1)
    BY <1>1, <2>3, <2>4, NextBit
  <2>6. (IF a.receiving THEN a.bit ELSE 0) + 1 = p.bit + 1
    BY <1>1, <2>2
  <2>7. Has(b, a, TRUE, a.read, a.sending, p.bit + 1, n, a.in)
    BY <1>6, <2>6
  <2> HIDE DEF n
  <2>8. /\ DOMAIN b = AssistFields /\ b.on = a.on /\ b.receiving = TRUE /\ b.read = a.read
        /\ b.sending = a.sending /\ b.bit = p.bit + 1 /\ b.working = n /\ b.in = a.in
    BY <2>7 DEF Has
  <2>9. Typed(v, b, p, g)
    <3>1. p.bit + 1 \in 0..Bits
      BY <1>1
    <3> QED BY <1>2, <1>3, <1>6, <2>5, <2>8, <3>1 DEF Typed
  <2>10. Delivered(b, p, g, q)
    BY <2>8 DEF Delivered
  <2>11. Taken(b, g, q, p.sent, p.bit + 1)
    <3>1. p.bit + 1 > 0
      BY <1>1
    <3> QED BY <1>3, <2>2, <2>5, <2>8, <3>1 DEF Taken, byte
  <2> QED BY <1>6, <2>9, <2>10, <2>11 DEF line
<1>7. CASE a.on /\ ~a.sending /\ Took(L!HighOf(w), w.host, a, v.host, b)
  <2>1. L!HighOf(w) \notin {{}, L!Lines}
    BY <1>1, <1>2, LinesAre
  <2> QED BY <1>2, <1>5, <1>6, <1>7, <2>1 DEF Took
<1> QED BY <1>3, <1>4, <1>7 DEF Polls, PollOf

(* All lines are low: the assist waits. *)
LEMMA LowPoll ==
  ASSUME NEW w, NEW a, NEW v, NEW b, L!HighOf(w) = {}, ~a.sending, Polls(w, a, v, b)
  PROVE  v.host = w.host /\ Same(b, a)
BY LinesAre DEF Polls, PollOf, Took

(* The bit is released, and the assist releases its line. *)
LEMMA ReleasedPoll ==
  ASSUME NEW w, NEW a, NEW p, NEW g, NEW q \in Seq(LinkBytes), Typed(w, a, p, g),
         Delivered(a, p, g, q), p.sent < Len(q), w.vout = {}, w.host \in {{}, L!Lines \ Mine(p, q)},
         Taken(a, g, q, p.sent, p.bit + 1), NEW v, NEW b, Polls(w, a, v, b)
  PROVE  /\ Typed(v, b, p, g) /\ Delivered(b, p, g, q)
         /\ \/ v.host \in {{}, L!Lines \ Mine(p, q)} /\ Taken(b, g, q, p.sent, p.bit + 1)
            \/ v.host = {} /\ p.bit + 1 = Bits /\ Taken(b, g, q, p.sent + 1, 0)
<1> DEFINE line == Mine(p, q)
<1>1. /\ p.sent \in Nat /\ p.bit \in 0..(Bits - 1) /\ p.bit \in Int
      /\ Bits \in Int /\ a.bit \in Int /\ a.working \in LinkBytes /\ line \in Line
  BY SendsTyped
<1> HIDE DEF line
<1>2. /\ L!Lines \ line \in Line /\ L!Lines \ (L!Lines \ line) = line /\ L!Lines \ line \subseteq L!Lines
      /\ {} \notin Line /\ L!Lines \notin Line /\ L!Lines \ ({} \cup {}) = L!Lines /\ L!Lines # {}
  BY <1>1, LinesAre
<1>3. L!Lines \ ({} \cup (L!Lines \ line)) = line
  <2>1. L!Lines \ ({} \cup (L!Lines \ line)) = L!Lines \ (L!Lines \ line)
    BY <1>2, LinesAre
  <2> QED BY <1>2, <2>1
<1>4. /\ DOMAIN v = WireFields /\ ~a.sending /\ a.bit = p.bit + 1 /\ a.receiving = TRUE
      /\ w.host \in {{}, L!Lines \ line}
  <2>1. p.bit + 1 > 0
    BY <1>1
  <2>2. a.receiving \in BOOLEAN
    BY DEF Typed
  <2> QED BY <2>1, <2>2 DEF Polls, Taken, line
<1>5. a.bit >= Bits => p.bit + 1 = Bits
  BY <1>1, <1>4
<1>6. CASE Same(b, a) /\ v.host \in {{}, L!Lines \ line}
  <2>1. v.host \subseteq L!Lines
    BY <1>2, <1>6
  <2> QED BY <1>4, <1>6, <2>1, SameTyped, SameKeeps DEF line
<1>7. CASE TakenOver(b, a) /\ p.bit + 1 = Bits /\ v.host = {}
  <2>1. v.host \subseteq L!Lines
    BY <1>7
  <2>2. Taken(a, g, q, p.sent, Bits)
    BY <1>7
  <2> QED BY <1>1, <1>4, <1>7, <2>1, <2>2, LatchKeeps
<1>8. CASE Took(L!HighOf(w), w.host, a, v.host, b)
  <2>1. CASE w.host = {}
    <3>1. L!HighOf(w) = L!Lines
      BY <1>2, <2>1 DEF L!HighOf
    <3>2. a.bit >= Bits /\ v.host = w.host /\ TakenOver(b, a)
      BY <1>8, <3>1 DEF Took
    <3> QED BY <1>5, <1>7, <2>1, <3>2
  <2>2. CASE w.host = L!Lines \ line
    <3>1. L!HighOf(w) \notin {{}, L!Lines} /\ w.host # {}
      BY <1>1, <1>2, <1>3, <2>2 DEF L!HighOf
    <3>2. CASE a.bit >= Bits /\ v.host = {} /\ (Same(b, a) \/ TakenOver(b, a))
      BY <1>5, <1>6, <1>7, <3>2
    <3>3. CASE /\ v.host = {}
               /\ Has(b, a, TRUE, a.read, a.sending, IF a.receiving THEN a.bit ELSE 0,
                      a.working, a.in)
      <4>1. Same(b, a)
        BY <1>4, <3>3 DEF Same
      <4> QED BY <1>6, <3>3, <4>1
    <3> QED BY <1>8, <3>1, <3>2, <3>3 DEF Took
  <2> QED BY <1>4, <2>1, <2>2
<1>9. CASE v.host = w.host /\ Same(b, a)
  BY <1>4, <1>6, <1>9
<1> QED BY <1>4, <1>8, <1>9 DEF Polls, PollOf

LEMMA SendsPoll ==
  ASSUME NEW w, NEW a, NEW p, NEW g, NEW q \in Seq(LinkBytes), Len(q) > 0,
         Agrees(w, a, p, g, q), Sends(w, a, p, g, q), NEW v, NEW b, Polls(w, a, v, b)
  PROVE  Agrees(v, b, p, g, q)
<1>1. /\ Typed(w, a, p, g) /\ Delivered(a, p, g, q) /\ DOMAIN v = WireFields /\ v.vout = w.vout
      /\ p.sent < Len(q) /\ p.got = <<>> /\ g.answered = 0
  BY DEF Agrees, Sends, Polls
<1>2. p.sent \in Nat /\ p.bit \in 0..(Bits - 1) /\ Mine(p, q) \in Line
  BY <1>1, SendsTyped
<1>3. SUFFICES Typed(v, b, p, g) /\ Delivered(b, p, g, q) /\ Sends(v, b, p, g, q)
  BY DEF Agrees, Place
<1>4. CASE p.at = "send" /\ w.vout = {} /\ w.host = {} /\ TakenUpTo(a, g, q, p.sent, p.bit)
  <2>1. /\ Typed(v, b, p, g) /\ Delivered(b, p, g, q) /\ v.host = {}
        /\ TakenUpTo(b, g, q, p.sent, p.bit)
    BY <1>1, <1>2, <1>4, IdlePoll
  <2> QED BY <1>1, <1>4, <2>1 DEF Sends
<1>5. CASE p.at = "sent" /\ w.vout = Mine(p, q) /\ w.host = {} /\ TakenUpTo(a, g, q, p.sent, p.bit)
  <2>1. /\ Typed(v, b, p, g) /\ Delivered(b, p, g, q)
        /\ \/ v.host = {} /\ TakenUpTo(b, g, q, p.sent, p.bit)
           \/ v.host = L!Lines \ Mine(p, q) /\ Taken(b, g, q, p.sent, p.bit + 1)
    BY <1>1, <1>5, SentPoll
  <2> QED BY <1>1, <1>5, <2>1 DEF Sends
<1>6. CASE /\ p.at = "sent" /\ w.vout = Mine(p, q) /\ w.host = L!Lines \ Mine(p, q)
           /\ Taken(a, g, q, p.sent, p.bit + 1)
  <2>1. L!HighOf(w) = {} /\ ~a.sending
    BY <1>2, <1>6, LinesAre DEF L!HighOf, Taken
  <2>2. v.host = w.host /\ Same(b, a)
    BY <2>1, LowPoll
  <2>3. Typed(v, b, p, g) /\ Delivered(b, p, g, q) /\ Taken(b, g, q, p.sent, p.bit + 1)
    <3>1. v.host \subseteq L!Lines
      BY <1>1, <2>2 DEF Typed
    <3> QED BY <1>1, <1>6, <2>2, <3>1, SameTyped, SameKeeps
  <2> QED BY <1>1, <1>6, <2>2, <2>3 DEF Sends
<1>7. CASE /\ p.at = "released" /\ w.vout = {} /\ w.host \in {{}, L!Lines \ Mine(p, q)}
           /\ Taken(a, g, q, p.sent, p.bit + 1)
  <2>1. /\ Typed(v, b, p, g) /\ Delivered(b, p, g, q)
        /\ \/ v.host \in {{}, L!Lines \ Mine(p, q)} /\ Taken(b, g, q, p.sent, p.bit + 1)
           \/ v.host = {} /\ p.bit + 1 = Bits /\ Taken(b, g, q, p.sent + 1, 0)
    BY <1>1, <1>7, ReleasedPoll
  <2> QED BY <1>1, <1>7, <2>1 DEF Sends
<1>8. CASE /\ p.at = "released" /\ w.vout = {} /\ w.host = {}
           /\ p.bit + 1 = Bits /\ Taken(a, g, q, p.sent + 1, 0)
  <2>1. p.sent + 1 \in Nat /\ 0 \in 0..(Bits - 1) /\ TakenUpTo(a, g, q, p.sent + 1, 0)
    BY <1>2, <1>8, BaseIs DEF TakenUpTo
  <2>2. ~(a.bit >= Bits) /\ ~a.sending
    BY <1>8, BaseIs DEF Taken
  <2>3. L!HighOf(w) = L!Lines /\ L!Lines # {}
    BY <1>8, LinesAre DEF L!HighOf
  <2>4. v.host = w.host /\ Same(b, a)
    BY <2>2, <2>3 DEF Polls, PollOf, Took
  <2>5. Typed(v, b, p, g) /\ Delivered(b, p, g, q) /\ Taken(b, g, q, p.sent + 1, 0)
    <3>1. v.host \subseteq L!Lines
      BY <1>1, <2>4 DEF Typed
    <3> QED BY <1>1, <1>8, <2>4, <3>1, SameTyped, SameKeeps
  <2> QED BY <1>1, <1>8, <2>4, <2>5 DEF Sends
<1> QED BY <1>4, <1>5, <1>6, <1>7, <1>8 DEF Sends

LEMMA AnswerTyped ==
  ASSUME NEW w, NEW a, NEW p, NEW g, Typed(w, a, p, g), NEW q, NEW k, Gives(a, g, q, k)
  PROVE  a.out \in LinkBytes /\ \A i \in 0..(Bits - 1) : L!LineOf(L!BitOf(a.out, i)) \in Line
<1>1. g.reply \in Seq(LinkBytes) /\ g.answered \in 1..Len(g.reply) /\ a.out = g.reply[g.answered]
  <2>1. g.reply \in Seq(LinkBytes) /\ g.answered \in 0..Len(g.reply)
    BY DEF Typed
  <2>2. Len(g.reply) \in Nat
    BY <2>1, LenProperties
  <2> QED BY <2>1, <2>2 DEF Gives
<1>2. a.out \in LinkBytes
  BY <1>1, ElementOfSeq
<1> QED BY <1>2, OneBit, LinesAre

(* The answer is offered before the link has seen that its last bit is taken. *)
LEMMA AnsweredPoll ==
  ASSUME NEW w, NEW a, NEW p, NEW g, NEW q \in Seq(LinkBytes), Len(q) > 0,
         Agrees(w, a, p, g, q), AnsweredEarly(w, a, p, g, q), NEW v, NEW b, Polls(w, a, v, b)
  PROVE  Agrees(v, b, p, g, q)
<1> DEFINE line == L!LineOf(L!BitOf(a.out, 0))
<1>1. /\ Typed(w, a, p, g) /\ Delivered(a, p, g, q) /\ DOMAIN v = WireFields /\ v.vout = w.vout
      /\ w.vout = {} /\ w.host \in {{}, line} /\ a.sending /\ a.bit = 0 /\ Gives(a, g, q, 0)
  BY DEF Agrees, AnsweredEarly, Polls, Gives
<1>2. line \in Line /\ ~(0 >= Bits) /\ 0 < Bits
  BY <1>1, AnswerTyped, BaseIs
<1>3. CASE v.host = w.host /\ Same(b, a)
  BY <1>1, <1>3, SamePlace
<1>4. CASE Gave(L!HighOf(w), w.host, a, v.host, b)
  <2>1. L!HighOf(w) # {}
    BY <1>1, <1>2, LinesAre DEF L!HighOf
  <2>2. v.host = line /\ Same(b, a)
    BY <1>1, <1>2, <1>4, <2>1 DEF Gave
  <2> HIDE DEF line
  <2>3. v.host \subseteq L!Lines
    BY <1>2, <2>2, LinesAre
  <2>4. Typed(v, b, p, g) /\ Delivered(b, p, g, q) /\ Gives(b, g, q, 0) /\ b.out = a.out
    BY <1>1, <2>2, <2>3, SameTyped, SameKeeps DEF Same, Has
  <2>5. AnsweredEarly(v, b, p, g, q)
    BY <1>1, <2>2, <2>4 DEF AnsweredEarly, line
  <2> QED BY <2>4, <2>5 DEF Agrees, Place
<1> QED BY <1>1, <1>3, <1>4 DEF Polls, PollOf

LEMMA ListensPoll ==
  ASSUME NEW w, NEW a, NEW p, NEW g, NEW q \in Seq(LinkBytes), Len(q) > 0,
         Agrees(w, a, p, g, q), Listens(w, a, p, g, q), NEW v, NEW b, Polls(w, a, v, b)
  PROVE  Agrees(v, b, p, g, q)
<1>1. /\ Typed(w, a, p, g) /\ Delivered(a, p, g, q) /\ DOMAIN v = WireFields /\ v.vout = w.vout
      /\ p.sent = Len(q) /\ p.sent \in Nat /\ p.bit \in 0..(Bits - 1) /\ p.bit \in Int /\ Bits \in Int
      /\ 0 \in 0..(Bits - 1) /\ ~(0 >= Bits) /\ 0 < Bits
  BY BaseIs DEF Agrees, Listens, Polls, Typed
<1>2. CASE v.host = w.host /\ Same(b, a)
  BY <1>1, <1>2, SamePlace
<1>3. SUFFICES ASSUME ~(v.host = w.host /\ Same(b, a))
               PROVE Typed(v, b, p, g) /\ Delivered(b, p, g, q) /\ Listens(v, b, p, g, q)
  BY <1>2 DEF Agrees, Place
<1>4. /\ a.sending => Gave(L!HighOf(w), w.host, a, v.host, b)
      /\ ~a.sending => Took(L!HighOf(w), w.host, a, v.host, b)
  BY <1>3 DEF Polls, PollOf
<1>5. CASE /\ p.at = "listen" /\ w.vout = {} /\ w.host = {} /\ p.bit = 0
           /\ g.answered = Len(p.got) /\ TakenUpTo(a, g, q, p.sent, 0)
  <2>1. /\ Typed(v, b, p, g) /\ Delivered(b, p, g, q) /\ v.host = {}
        /\ TakenUpTo(b, g, q, p.sent, 0)
    BY <1>1, <1>5, IdlePoll
  <2> QED BY <1>1, <1>5, <2>1 DEF Listens
<1>6. CASE /\ p.at = "listen" /\ w.vout = {} /\ w.host = {} /\ p.bit = 0
           /\ g.answered = Len(p.got) /\ Gives(a, g, q, Bits)
  <2>1. L!HighOf(w) = L!Lines /\ L!Lines # {}
    BY <1>6, LinesAre DEF L!HighOf
  <2>2. a.sending /\ a.bit = Bits /\ ~a.read /\ ~a.receiving /\ HasAll(g, q) /\ g.answered > 0
    BY <1>6 DEF Gives
  <2>3. v.host = {} /\ Has(b, a, a.receiving, a.read, FALSE, 0, a.working, a.in)
    <3>1. ~(a.bit < Bits)
      BY <1>1, <2>2
    <3> QED BY <1>4, <1>6, <2>1, <2>2, <3>1 DEF Gave
  <2>4. /\ DOMAIN b = AssistFields /\ b.on = a.on /\ b.receiving = a.receiving /\ b.read = a.read
        /\ b.sending = FALSE /\ b.bit = 0 /\ b.working = a.working /\ b.in = a.in
    BY <2>3 DEF Has
  <2>5. Typed(v, b, p, g)
    <3>1. 0 \in 0..Bits /\ v.host \subseteq L!Lines
      BY <2>3, BaseIs
    <3> QED BY <1>1, <2>4, <3>1 DEF Typed
  <2>6. Delivered(b, p, g, q)
    BY <1>1, <2>4 DEF Delivered
  <2>7. Taken(b, g, q, p.sent, 0)
    BY <1>1, <2>2, <2>4 DEF Taken, HasAll
  <2> QED BY <1>1, <1>6, <2>3, <2>5, <2>6, <2>7 DEF Listens, TakenUpTo
<1>7. CASE /\ p.at = "listen" /\ w.vout = {} /\ w.host \in {{}, Answer(a, p)}
           /\ g.answered = Len(p.got) + 1 /\ Gives(a, g, q, p.bit) /\ HasBits(p.byte, a.out, p.bit)
  <2> DEFINE line == Answer(a, p)
  <2>1. line \in Line /\ a.sending /\ a.bit = p.bit
    BY <1>1, <1>7, AnswerTyped DEF Answer, Gives
  <2> HIDE DEF line
  <2>2. L!HighOf(w) # {} /\ w.host \in {{}, line}
    BY <1>7, <2>1, LinesAre DEF L!HighOf, line
  <2>3. v.host = line /\ Same(b, a)
    <3>1. ~(a.bit >= Bits)
      BY <1>1, <2>1
    <3> QED BY <1>4, <2>1, <2>2, <3>1 DEF Gave, line, Answer
  <2>4. v.host \subseteq L!Lines
    BY <2>1, <2>3, LinesAre
  <2>5. /\ Typed(v, b, p, g) /\ Delivered(b, p, g, q) /\ Gives(b, g, q, p.bit) /\ b.out = a.out
        /\ Answer(b, p) = Answer(a, p)
    BY <1>1, <1>7, <2>3, <2>4, SameTyped, SameKeeps DEF Same, Has
  <2>6. v.host \in {{}, Answer(b, p)} /\ HasBits(p.byte, b.out, p.bit)
    BY <1>7, <2>3, <2>5 DEF line
  <2> QED BY <1>1, <1>7, <2>5, <2>6 DEF Listens
<1>8. CASE /\ p.at = "heard" /\ w.vout = L!Lines \ Answer(a, p) /\ w.host = Answer(a, p)
           /\ g.answered = Len(p.got) + 1 /\ HasBits(p.byte, a.out, p.bit + 1)
           /\ Gives(a, g, q, p.bit)
  <2> DEFINE line == Answer(a, p)
  <2>1. /\ line \in Line /\ a.sending /\ a.bit = p.bit /\ ~a.read /\ ~a.receiving /\ HasAll(g, q)
        /\ g.answered > 0 /\ a.out = g.reply[g.answered]
    BY <1>1, <1>8, AnswerTyped DEF Answer, Gives
  <2> HIDE DEF line
  <2>2. L!HighOf(w) = {} /\ L!Lines # {}
    BY <1>8, <2>1, LinesAre DEF L!HighOf, line
  <2>3. v.host = {} /\ Has(b, a, a.receiving, a.read, a.sending, a.bit + 1, a.working, a.in)
    BY <1>4, <2>1, <2>2 DEF Gave
  <2>4. /\ DOMAIN b = AssistFields /\ b.on = a.on /\ b.receiving = a.receiving /\ b.read = a.read
        /\ b.sending = a.sending /\ b.bit = p.bit + 1 /\ b.working = a.working /\ b.in = a.in
        /\ b.out = a.out
    BY <2>1, <2>3 DEF Has
  <2>5. Typed(v, b, p, g)
    <3>1. p.bit + 1 \in 0..Bits /\ v.host \subseteq L!Lines
      BY <1>1, <2>3
    <3> QED BY <1>1, <2>4, <3>1 DEF Typed
  <2>6. Delivered(b, p, g, q)
    BY <1>1, <2>4 DEF Delivered
  <2>7. Gives(b, g, q, p.bit + 1)
    BY <2>1, <2>4 DEF Gives
  <2>8. v.vout = L!Lines \ Answer(b, p) /\ HasBits(p.byte, b.out, p.bit + 1)
    BY <1>1, <1>8, <2>4 DEF Answer
  <2> QED BY <1>1, <1>8, <2>3, <2>5, <2>6, <2>7, <2>8 DEF Listens
<1>9. CASE /\ p.at = "heard" /\ w.vout = L!Lines \ Answer(a, p) /\ w.host = {}
           /\ g.answered = Len(p.got) + 1 /\ HasBits(p.byte, a.out, p.bit + 1)
           /\ Gives(a, g, q, p.bit + 1)
  <2> DEFINE line == Answer(a, p)
  <2>1. line \in Line /\ a.sending
    <3>1. L!LineOf(L!BitOf(a.out, p.bit)) \in Line
      BY <1>1, <1>9, AnswerTyped
    <3> QED BY <1>9, <3>1 DEF Answer, Gives
  <2> HIDE DEF line
  <2>2. L!HighOf(w) \notin {{}, L!Lines}
    <3>1. L!HighOf(w) = L!Lines \ ((L!Lines \ line) \cup {})
      BY <1>9 DEF L!HighOf, line
    <3>2. L!Lines \ line \in Line
      BY <2>1, LinesAre
    <3>3. L!Lines \ ((L!Lines \ line) \cup {}) = L!Lines \ (L!Lines \ line)
      BY <3>2, LinesAre
    <3> QED BY <2>1, <3>1, <3>3, LinesAre
  <2> QED BY <1>4, <2>1, <2>2 DEF Gave
<1> QED BY <1>5, <1>6, <1>7, <1>8, <1>9 DEF Listens

LEMMA PollKeeps ==
  ASSUME NEW w, NEW a, NEW p, NEW g, NEW q \in Seq(LinkBytes), Len(q) > 0,
         Agrees(w, a, p, g, q), NEW v, NEW b, Polls(w, a, v, b)
  PROVE  Agrees(v, b, p, g, q)
<1>1. Place(w, a, p, g, q)
  BY DEF Agrees
<1> QED BY <1>1, SettledPoll, BlockedPoll, SendsPoll, AnsweredPoll, ListensPoll DEF Place

(***************************************************************************)
(* The program of the calculator.                                          *)
(***************************************************************************)
Stays(p2, p) ==
  /\ DOMAIN p2 = LinkFields /\ p2.request = p.request
  /\ p2.at = p.at /\ p2.bit = p.bit /\ p2.byte = p.byte /\ p2.sent = p.sent /\ p2.got = p.got

LEMMA StaysHere ==
  ASSUME NEW w, NEW a, NEW p, NEW g, NEW q, Agrees(w, a, p, g, q), NEW p2, Stays(p2, p)
  PROVE  Agrees(w, a, p2, g, q)
<1>1. Typed(w, a, p2, g)
  BY DEF Agrees, Typed, Stays
<1>2. Delivered(a, p2, g, q)
  BY DEF Agrees, Delivered, Stays
<1>3. Settled(w, a, p, g, q) => Settled(w, a, p2, g, q)
  BY DEF Settled, Stays
<1>4. Blocked(w, a, p, g) => Blocked(w, a, p2, g)
  BY DEF Blocked, Stays
<1>5. Mine(p2, q) = Mine(p, q) /\ Answer(a, p2) = Answer(a, p)
  BY DEF Mine, Answer, Stays
<1>6. Sends(w, a, p, g, q) => Sends(w, a, p2, g, q)
  BY <1>5 DEF Sends, Stays
<1>7. AnsweredEarly(w, a, p, g, q) => AnsweredEarly(w, a, p2, g, q)
  BY DEF AnsweredEarly, Stays
<1>8. Listens(w, a, p, g, q) => Listens(w, a, p2, g, q)
  BY <1>5 DEF Listens, Stays
<1> QED BY <1>1, <1>2, <1>3, <1>4, <1>6, <1>7, <1>8 DEF Agrees, Place

(* An instruction that leaves the two sides in step is followed by a poll. *)
LEMMA ExecutesKeeps ==
  ASSUME NEW w, NEW a, NEW turn, L!Executes(w, a, turn), NEW g, NEW q \in Seq(LinkBytes), Len(q) > 0,
         Agrees(w, a, pc, g, q)
  PROVE  Agrees(wires', assist', pc', g, q)
<1>1. DOMAIN w = WireFields /\ DOMAIN a = AssistFields /\ a.bit \in 0..Bits /\ DOMAIN pc = LinkFields
  BY DEF Agrees, Typed
<1>2. wires' = L!Polled(w, a).wires /\ assist' = L!Polled(w, a).assist /\ pc' = [pc EXCEPT !.turn = turn]
  BY DEF L!Executes
<1>3. Polls(w, a, wires', assist')
  BY <1>1, <1>2, PolledGoes DEF Polls
<1>4. Agrees(wires', assist', pc, g, q)
  BY <1>3, PollKeeps
<1>5. Stays(pc', pc)
  BY <1>1, <1>2 DEF Stays, LinkFields
<1> QED BY <1>4, <1>5, StaysHere

LEMMA RequestIs ==
  ASSUME NEW w, NEW a, NEW g, Agrees(w, a, pc, g, L!Packet)
  PROVE  L!Packet \in Seq(LinkBytes) /\ Len(L!Packet) \in Nat \ {0} /\ Len(L!Packet) > 0
<1>1. pc.request \in Requests
  BY DEF Agrees, Typed
<1> QED BY <1>1, PacketIs DEF L!Packet

LEMMA PlainKeeps ==
  ASSUME NEW turn, L!Plain(turn), Agrees(wires, assist, pc, prog, L!Packet)
  PROVE  Agrees(wires', assist', pc', prog', L!Packet)
<1>1. L!Executes(wires, assist, turn) /\ prog' = prog
  BY DEF L!Plain
<1> QED BY <1>1, RequestIs, ExecutesKeeps

(* The program reads what it is shown. *)
LEMMA ReadKeeps ==
  ASSUME L!InPort0A, assist.read, DOMAIN prog = ProgFields,
         Agrees(wires, assist, pc, prog, L!Packet)
  PROVE  Agrees(wires', assist', pc', prog', L!Packet)
<1> DEFINE q == L!Packet
           a == [assist EXCEPT !.read = FALSE]
           n == Len(prog.read)
<1>1. q \in Seq(LinkBytes) /\ Len(q) \in Nat /\ Len(q) > 0 /\ assist.read /\ L!Executes(wires, a, L!Ended)
  BY RequestIs DEF L!InPort0A
<1>2. Typed(wires, assist, pc, prog) /\ Delivered(assist, pc, prog, q)
  BY DEF Agrees
<1> HIDE DEF q
<1>3. /\ prog.read \in Seq(LinkBytes) /\ n \in Nat /\ n < Len(q) /\ assist.in = q[n + 1]
      /\ DOMAIN assist = AssistFields /\ assist.in \in LinkBytes
  <2>1. prog.read \in Seq(LinkBytes) /\ n < Len(q) /\ assist.in = q[n + 1] /\ DOMAIN assist = AssistFields
    BY <1>1, <1>2 DEF Typed, Delivered
  <2>2. n \in Nat
    BY <2>1, LenProperties
  <2>3. n + 1 \in 1..Len(q)
    BY <1>1, <2>1, <2>2
  <2> QED BY <1>1, <2>1, <2>2, <2>3, ElementOfSeq
<1>4. prog.answered = 0
  <2>1. prog.answered \in Nat /\ ~(prog.answered > 0)
    BY <1>1, <1>2, <1>3, LenProperties DEF Typed, Delivered, HasAll
  <2> QED BY <2>1
<1>5. /\ DOMAIN a = AssistFields /\ a.read = FALSE /\ ~a.read /\ a.on = assist.on /\ a.out = assist.out
      /\ a.receiving = assist.receiving /\ a.sending = assist.sending /\ a.bit = assist.bit
      /\ a.working = assist.working
  BY <1>3 DEF AssistFields
<1> HIDE DEF a
<1>6. L!Running /\ (Sends(wires, assist, pc, prog, q) \/ Listens(wires, assist, pc, prog, q))
  <2>1. Place(wires, assist, pc, prog, q)
    BY DEF Agrees, q
  <2>2. Sends(wires, assist, pc, prog, q) \/ Listens(wires, assist, pc, prog, q)
    BY <1>1, <2>1 DEF Place, Settled, Blocked, AnsweredEarly, Gives
  <2>3. pc.at \in {"send", "sent", "released", "listen", "heard"}
    BY <2>2 DEF Sends, Listens
  <2> QED BY <2>2, <2>3 DEF L!Running, L!Over
<1>7. /\ prog'.read = Append(prog.read, assist.in) /\ prog'.answered = 0 /\ prog'.reply = prog.reply
  <2>1. n <= Len(L!Packet)
    BY <1>1, <1>3 DEF q
  <2> QED BY <1>3, <1>4, <1>6, <2>1 DEF L!InPort0A, ProgFields
<1>8. /\ prog'.read \in Seq(LinkBytes) /\ Len(prog'.read) = n + 1
      /\ \A i \in 1..n : prog'.read[i] = prog.read[i]
      /\ prog'.read[n + 1] = assist.in
  BY <1>3, <1>7, AppendProperties
<1>9. Typed(wires, a, pc, prog')
  BY <1>2, <1>4, <1>5, <1>7, <1>8 DEF Typed
<1>10. Delivered(a, pc, prog', q)
  <2>1. \A i \in 1..(n + 1) : prog'.read[i] = q[i]
    <3>1. \A i \in 1..n : prog.read[i] = q[i]
      BY <1>2 DEF Delivered
    <3>2. prog'.read[n + 1] = q[n + 1]
      BY <1>3, <1>7, <1>8, AppendProperties
    <3>3. \A i \in 1..(n + 1) : i \in 1..n \/ i = n + 1
      BY <1>3
    <3> QED BY <1>8, <3>1, <3>2, <3>3
  <2>2. n + 1 <= Len(q)
    BY <1>1, <1>3
  <2>3. Len(pc.got) <= prog'.answered /\ \A i \in 1..Len(pc.got) : pc.got[i] = prog'.reply[i]
    BY <1>2, <1>4, <1>7 DEF Delivered
  <2> QED BY <1>5, <1>7, <1>8, <2>1, <2>2, <2>3 DEF Delivered
<1>11. \A m, k : Taken(assist, prog, q, m, k) => Taken(a, prog', q, m, k)
  <2>1. Len(prog.read) + (IF assist.read THEN 1 ELSE 0) = n + 1
    BY <1>1
  <2>2. Len(prog'.read) + (IF a.read THEN 1 ELSE 0) = n + 1
    BY <1>3, <1>5, <1>8
  <2> HIDE DEF n
  <2> QED BY <1>5, <2>1, <2>2 DEF Taken
<1>12. \A m, k : TakenUpTo(assist, prog, q, m, k) => TakenUpTo(a, prog', q, m, k)
  BY <1>11 DEF TakenUpTo
<1>13. \A k : ~Gives(assist, prog, q, k)
  BY <1>1 DEF Gives
<1>14. Sends(wires, a, pc, prog', q) \/ Listens(wires, a, pc, prog', q)
  BY <1>4, <1>6, <1>7, <1>11, <1>12, <1>13 DEF Sends, Listens
<1>15. Agrees(wires, a, pc, prog', q)
  BY <1>9, <1>10, <1>14 DEF Agrees, Place
<1> QED BY <1>1, <1>15, ExecutesKeeps DEF q

\* Neither counts how often a program switched the assist.
LEMMA ProgKeeps ==
  ASSUME NEW w, NEW a, NEW p, NEW q, NEW g, NEW g2,
         g2.read = g.read, g2.answered = g.answered, g2.reply = g.reply
  PROVE  /\ Delivered(a, p, g, q) => Delivered(a, p, g2, q)
         /\ Place(w, a, p, g, q) => Place(w, a, p, g2, q)
<1>1. HasAll(g2, q) = HasAll(g, q)
  BY DEF HasAll
<1>2. \A m, k : Taken(a, g, q, m, k) => Taken(a, g2, q, m, k)
  BY DEF Taken
<1>3. \A m, k : TakenUpTo(a, g, q, m, k) => TakenUpTo(a, g2, q, m, k)
  BY <1>2 DEF TakenUpTo
<1>4. \A k : Gives(a, g, q, k) => Gives(a, g2, q, k)
  BY <1>1 DEF Gives
<1>5. Settled(w, a, p, g, q) => Settled(w, a, p, g2, q)
  BY <1>1 DEF Settled
<1>6. Blocked(w, a, p, g) => Blocked(w, a, p, g2)
  BY DEF Blocked
<1>7. Sends(w, a, p, g, q) => Sends(w, a, p, g2, q)
  BY <1>2, <1>3 DEF Sends
<1>8. AnsweredEarly(w, a, p, g, q) => AnsweredEarly(w, a, p, g2, q)
  BY <1>4 DEF AnsweredEarly
<1>9. Listens(w, a, p, g, q) => Listens(w, a, p, g2, q)
  BY <1>3, <1>4 DEF Listens
<1>10. Delivered(a, p, g, q) => Delivered(a, p, g2, q)
  BY <1>1 DEF Delivered
<1> QED BY <1>5, <1>6, <1>7, <1>8, <1>9, <1>10 DEF Place

(* An access to a port that finds no byte to give up changes nothing that is sent. *)
LEMMA AccessKeeps ==
  ASSUME NEW a, L!Executes(wires, a, L!Ended), Same(a, assist),
         prog'.read = prog.read, prog'.answered = prog.answered, prog'.reply = prog.reply,
         Agrees(wires, assist, pc, prog, L!Packet)
  PROVE  Agrees(wires', assist', pc', prog', L!Packet)
<1>1. DOMAIN wires = WireFields
  BY DEF Agrees, Typed
<1>2. Agrees(wires, assist, pc, prog', L!Packet)
  BY ProgKeeps DEF Agrees, Typed
<1>3. Agrees(wires, a, pc, prog', L!Packet)
  BY <1>1, <1>2, SamePlace
<1> QED BY <1>3, RequestIs, ExecutesKeeps

LEMMA NothingRead ==
  ASSUME L!InPort0A \/ L!OutPort0A, ~assist.read, Agrees(wires, assist, pc, prog, L!Packet),
         DOMAIN prog = ProgFields
  PROVE  Agrees(wires', assist', pc', prog', L!Packet)
<1> DEFINE a == [assist EXCEPT !.read = FALSE]
<1>1. DOMAIN assist = AssistFields /\ assist.read \in BOOLEAN
  BY DEF Agrees, Typed
<1>2. Same(a, assist)
  BY <1>1 DEF Same, Has, AssistFields
<1>3. L!Executes(wires, a, L!Ended)
  BY DEF L!InPort0A, L!OutPort0A
<1>4. prog'.read = prog.read /\ prog'.answered = prog.answered /\ prog'.reply = prog.reply
  <2>1. L!InPort0A => prog' = [prog EXCEPT !.read = prog.read]
    BY DEF L!InPort0A
  <2>2. L!OutPort0A => prog' = prog
    BY DEF L!OutPort0A
  <2> QED BY <2>1, <2>2 DEF ProgFields
<1> HIDE DEF a
<1> QED BY <1>2, <1>3, <1>4, AccessKeeps

LEMMA LookKeeps ==
  ASSUME L!InPort0D, Agrees(wires, assist, pc, prog, L!Packet)
  PROVE  Agrees(wires', assist', pc', prog', L!Packet)
<1> DEFINE a == [assist EXCEPT !.ready = FALSE]
<1>1. DOMAIN assist = AssistFields
  BY DEF Agrees, Typed
<1>2. Same(a, assist)
  BY <1>1 DEF Same, Has, AssistFields
<1>3. L!Executes(wires, a, L!Ended) /\ prog' = prog
  BY DEF L!InPort0D
<1> HIDE DEF a
<1> QED BY <1>2, <1>3, AccessKeeps

(* A program that interferes is told by what it has lost. *)
LEMMA Interfered ==
  ASSUME L!Interferes, DOMAIN prog = ProgFields
  PROVE  DOMAIN prog' = ProgFields /\ prog'.lost = TRUE
BY DEF L!Interferes, ProgFields

(* The program answers, which it does when it has read the packet. *)
LEMMA AnswerKeeps ==
  ASSUME L!OutPort0D, ~prog'.lost, DOMAIN prog = ProgFields, Agrees(wires, assist, pc, prog, L!Packet)
  PROVE  Agrees(wires', assist', pc', prog', L!Packet)
<1> DEFINE q == L!Packet
           byte == prog.reply[prog.answered + 1]
           a == [assist EXCEPT !.out = byte, !.ready = FALSE, !.sending = TRUE, !.bit = 0]
<1>0. L!Answers(byte) /\ L!Executes(wires, a, L!Ended) /\ prog' = [prog EXCEPT !.answered = @ + 1]
  <2>1. PICK b \in 0..(L!Base - 1) :
          /\ L!Executes(wires, [assist EXCEPT !.out = b, !.ready = FALSE, !.sending = TRUE,
                                              !.bit = 0], L!Ended)
          /\ \/ L!Answers(b) /\ prog' = [prog EXCEPT !.answered = @ + 1]
             \/ ~L!Answers(b) /\ L!Interferes
    BY DEF L!OutPort0D
  <2>2. L!Answers(b) /\ prog' = [prog EXCEPT !.answered = @ + 1]
    BY <2>1, Interfered
  <2>3. b = byte
    BY <2>2 DEF L!Answers
  <2> QED BY <2>1, <2>2, <2>3
<1>1. /\ q \in Seq(LinkBytes) /\ Len(q) \in Nat /\ Len(q) > 0 /\ ~assist.sending
      /\ L!Executes(wires, a, L!Ended) /\ HasAll(prog, q) /\ prog.answered < Len(prog.reply) /\ L!Running
  BY <1>0, RequestIs DEF L!Answers, HasAll
<1>2. Typed(wires, assist, pc, prog) /\ Delivered(assist, pc, prog, q)
  BY DEF Agrees
<1>3. /\ prog'.read = prog.read /\ prog'.answered = prog.answered + 1 /\ prog'.reply = prog.reply
  BY <1>0 DEF ProgFields
<1>4. /\ prog.answered \in Nat /\ Len(prog.reply) \in Nat /\ prog.answered + 1 \in 1..Len(prog.reply)
      /\ prog.reply \in Seq(LinkBytes) /\ byte \in LinkBytes
  <2>1. prog.reply \in Seq(LinkBytes) /\ prog.answered \in 0..Len(prog.reply)
    BY <1>2 DEF Typed
  <2>2. Len(prog.reply) \in Nat
    BY <2>1, LenProperties
  <2>3. prog.answered + 1 \in 1..Len(prog.reply)
    BY <1>1, <2>1, <2>2
  <2> QED BY <2>1, <2>2, <2>3, ElementOfSeq
<1> HIDE DEF q, byte
<1>5. /\ DOMAIN a = AssistFields /\ a.read = assist.read /\ a.on = assist.on /\ a.out = byte
      /\ a.receiving = assist.receiving /\ a.sending = TRUE /\ a.sending /\ a.bit = 0
      /\ a.working = assist.working /\ a.in = assist.in
  BY <1>2 DEF AssistFields, Typed
<1> HIDE DEF a
<1>6. ~assist.read
  <2>1. HasAll(prog, q) => ~(Len(prog.read) < Len(q))
    BY <1>1 DEF HasAll
  <2> QED BY <1>1, <1>2, <2>1 DEF Delivered
<1>7. prog'.answered \in 0..Len(prog'.reply) /\ 0 \in 0..Bits /\ HasAll(prog', q)
  BY <1>1, <1>3, <1>4, BaseIs DEF HasAll
<1>8. Typed(wires, a, pc, prog')
  BY <1>1, <1>2, <1>3, <1>5, <1>7 DEF Typed
<1>9. Delivered(a, pc, prog', q)
  <2>1. Len(pc.got) <= prog.answered + 1
    <3>1. Len(pc.got) \in Nat /\ Len(pc.got) <= prog.answered
      BY <1>2, LenProperties DEF Typed, Delivered
    <3> QED BY <1>4, <3>1
  <2> QED BY <1>2, <1>3, <1>5, <1>7, <2>1 DEF Delivered
<1>10. assist.receiving = FALSE => Gives(a, prog', q, 0)
  <2>1. a.out = prog'.reply[prog'.answered] /\ prog'.answered > 0
    BY <1>3, <1>4, <1>5 DEF byte
  <2> QED BY <1>5, <1>6, <1>7, <2>1 DEF Gives
<1>11. \A m \in Nat : \A k : Taken(assist, prog, q, m, k) => m = Len(q) /\ (assist.receiving <=> k > 0)
                                                      /\ ~(k > 0)
  <2>1. \A m \in Nat : Len(prog.read) + (IF assist.read THEN 1 ELSE 0) = m => m = Len(q)
    BY <1>1, <1>6 DEF HasAll
  <2>2. ~(Len(q) < Len(q))
    BY <1>1
  <2>3. ASSUME NEW m \in Nat, NEW k, Taken(assist, prog, q, m, k)
        PROVE  m = Len(q) /\ (assist.receiving <=> k > 0) /\ ~(k > 0)
    <3>1. m = Len(q) /\ (assist.receiving <=> k > 0) /\ (k > 0 => m < Len(q))
      BY <2>1, <2>3 DEF Taken
    <3> QED BY <2>2, <3>1
  <2> QED BY <2>3
<1>12. pc.sent \in Nat /\ pc.sent + 1 \in Nat /\ pc.bit + 1 > 0 /\ assist.receiving \in BOOLEAN
  BY <1>2 DEF Typed
<1>13. \A k \in 0..(Bits - 1) : TakenUpTo(assist, prog, q, pc.sent, k) =>
          (pc.sent = Len(q) /\ Taken(assist, prog, q, pc.sent, k)) \/ pc.sent = Len(q) + 1
  <2>1. pc.sent > 0 => pc.sent - 1 \in Nat
    BY <1>12
  <2>2. pc.sent > 0 /\ Taken(assist, prog, q, pc.sent - 1, Bits) => pc.sent = Len(q) + 1
    BY <1>1, <1>11, <1>12, <2>1
  <2> QED BY <1>11, <1>12, <2>2 DEF TakenUpTo
<1>14. Place(wires, assist, pc, prog, q)
  BY DEF Agrees, q
<1>15. CASE Sends(wires, assist, pc, prog, q)
  <2>1. pc.sent < Len(q) /\ pc.got = <<>> /\ prog.answered = 0 /\ pc.bit \in 0..(Bits - 1)
    BY <1>2, <1>15 DEF Sends, Typed
  <2>2. ~TakenUpTo(assist, prog, q, pc.sent, pc.bit) /\ ~Taken(assist, prog, q, pc.sent, pc.bit + 1)
    BY <1>1, <1>11, <1>12, <1>13, <2>1
  <2>3. /\ pc.at = "released" /\ wires.vout = {} /\ wires.host = {}
        /\ pc.bit + 1 = Bits /\ Taken(assist, prog, q, pc.sent + 1, 0)
    BY <1>15, <2>2 DEF Sends
  <2>4. pc.sent + 1 = Len(q) /\ assist.receiving = FALSE
    BY <1>11, <1>12, <2>3
  <2>5. AnsweredEarly(wires, a, pc, prog', q)
    BY <1>3, <1>10, <2>1, <2>3, <2>4 DEF AnsweredEarly
  <2> QED BY <1>1, <1>5, <1>8, <1>9, <2>5, ExecutesKeeps DEF Agrees, Place, q
<1>16. CASE Listens(wires, assist, pc, prog, q)
  <2>1. /\ pc.at = "listen" /\ wires.vout = {} /\ wires.host = {} /\ pc.bit = 0 /\ pc.sent = Len(q)
        /\ prog.answered = Len(pc.got) /\ TakenUpTo(assist, prog, q, pc.sent, 0)
    BY <1>1, <1>16 DEF Listens, Gives
  <2>2. Taken(assist, prog, q, pc.sent, 0)
    <3>1. 0 \in 0..(Bits - 1)
      BY BaseIs
    <3> QED BY <1>1, <1>13, <2>1, <3>1
  <2>3. assist.receiving = FALSE
    BY <1>11, <1>12, <2>2
  <2>4. HasBits(pc.byte, a.out, 0)
    <3>1. pc.byte \in LinkBytes
      BY <1>2 DEF Typed
    <3> QED BY <1>4, <1>5, <3>1, NoBits
  <2>5. Listens(wires, a, pc, prog', q)
    BY <1>3, <1>10, <2>1, <2>3, <2>4 DEF Listens
  <2> QED BY <1>1, <1>5, <1>8, <1>9, <2>5, ExecutesKeeps DEF Agrees, Place, q
<1>17. ~Settled(wires, assist, pc, prog, q) /\ ~Blocked(wires, assist, pc, prog)
       /\ ~AnsweredEarly(wires, assist, pc, prog, q)
  BY <1>1 DEF Settled, Blocked, AnsweredEarly, Gives, L!Running, L!Over
<1> QED BY <1>14, <1>15, <1>16, <1>17 DEF Place

(* Switched on or, when it is at no byte, off, the assist keeps its place. *)
LEMMA SwitchKeeps ==
  ASSUME L!OutPort8, DOMAIN prog = ProgFields, ~prog'.lost, Agrees(wires, assist, pc, prog, L!Packet)
  PROVE  Agrees(wires', assist', pc', prog', L!Packet)
<1>1. PICK on \in BOOLEAN :
        /\ L!Executes(wires, IF on THEN [assist EXCEPT !.on = TRUE, !.factor = PollEvery]
                    ELSE [assist EXCEPT !.on = FALSE, !.receiving = FALSE, !.read = FALSE,
                                        !.ready = TRUE, !.sending = FALSE, !.factor = 0], L!Ended)
        /\ prog' = [prog EXCEPT !.switches = @ + 1,
                      !.lost = @ \/ (~on /\ (assist.sending \/ assist.receiving \/ assist.read))]
  BY DEF L!OutPort8
<1> DEFINE b == [assist EXCEPT !.on = TRUE, !.factor = PollEvery]
           c == [assist EXCEPT !.on = FALSE, !.receiving = FALSE, !.read = FALSE,
                               !.ready = TRUE, !.sending = FALSE, !.factor = 0]
           a == IF on THEN b ELSE c
<1>2. Typed(wires, assist, pc, prog) /\ Delivered(assist, pc, prog, L!Packet)
      /\ Place(wires, assist, pc, prog, L!Packet)
  BY DEF Agrees
<1>3. /\ DOMAIN assist = AssistFields /\ assist.sending \in BOOLEAN /\ assist.receiving \in BOOLEAN
      /\ assist.read \in BOOLEAN
  BY <1>2 DEF Typed
<1>4. prog'.read = prog.read /\ prog'.answered = prog.answered /\ prog'.reply = prog.reply
  BY <1>1 DEF ProgFields
<1>5. ~on => ~assist.sending /\ ~assist.receiving /\ ~assist.read
  BY <1>1 DEF ProgFields
<1>6. DOMAIN b = AssistFields /\ b.on = TRUE /\ Alike(b, assist)
  BY <1>3 DEF Alike, AssistFields
<1>7. DOMAIN c = AssistFields /\ (~on => Alike(c, assist))
  BY <1>3, <1>5 DEF Alike, AssistFields
<1> HIDE DEF b, c
<1>8. DOMAIN a = AssistFields /\ Alike(a, assist)
  BY <1>6, <1>7
<1> HIDE DEF a
<1>9. Typed(wires, a, pc, prog')
  BY <1>2, <1>4, <1>8 DEF Typed, Alike
<1>10. Delivered(a, pc, prog, L!Packet) /\ Place(wires, a, pc, prog, L!Packet)
  BY <1>2, <1>8, AlikeKeeps, AlikePlace
<1>11. Agrees(wires, a, pc, prog', L!Packet)
  BY <1>4, <1>9, <1>10, ProgKeeps DEF Agrees
<1>12. L!Executes(wires, a, L!Ended)
  BY <1>1 DEF a, b, c
<1> QED BY <1>11, <1>12, RequestIs, ExecutesKeeps

(* To write to port 0 the lines that are pulled already interferes with nothing. *)
LEMMA PullKeeps ==
  ASSUME L!OutPort0, DOMAIN prog = ProgFields, ~prog'.lost, Agrees(wires, assist, pc, prog, L!Packet)
  PROVE  Agrees(wires', assist', pc', prog', L!Packet)
<1>1. PICK lines \in SUBSET L!Lines :
        /\ L!Executes([wires EXCEPT !.host = lines], assist, L!Ended)
        /\ IF lines = wires.host THEN UNCHANGED prog ELSE L!Interferes
  BY DEF L!OutPort0
<1> DEFINE w == [wires EXCEPT !.host = lines]
<1>2. DOMAIN wires = WireFields /\ DOMAIN assist = AssistFields
  BY DEF Agrees, Typed
<1>3. lines = wires.host /\ prog' = prog
  BY <1>1, Interfered
<1>4. DOMAIN w = WireFields /\ w.vout = wires.vout /\ w.host = wires.host
  BY <1>2, <1>3 DEF WireFields
<1> HIDE DEF w
<1>5. Same(assist, assist)
  BY <1>2 DEF Same, Has
<1>6. Agrees(w, assist, pc, prog', L!Packet)
  BY <1>3, <1>4, <1>5, SamePlace
<1> QED BY <1>1, <1>6, RequestIs, ExecutesKeeps DEF w

(***************************************************************************)
(* The virtual link.                                                       *)
(***************************************************************************)
LEMMA BeginKeeps ==
  ASSUME L!Begin, DOMAIN prog = ProgFields, ~prog.lost, Agrees(wires, assist, pc, prog, L!Packet)
  PROVE  Agrees(wires', assist', pc', prog', L!Packet')
<1>1. PICK request \in Requests, reply \in Replies :
        /\ wires' = [wires EXCEPT !.vout = {}]
        /\ pc' = [pc EXCEPT !.at = "send", !.request = request, !.begun = @ + 1, !.bit = 0,
                            !.byte = 0, !.sent = 0, !.got = <<>>, !.waited = 0, !.turn = "link"]
        /\ prog' = [prog EXCEPT !.read = <<>>, !.answered = 0, !.reply = reply]
        /\ (L!Over \/ pc.at = "idle") /\ assist' = assist
  BY DEF L!Begin
<1>2. Typed(wires, assist, pc, prog) /\ Place(wires, assist, pc, prog, L!Packet)
  BY DEF Agrees
<1>3. DOMAIN wires = WireFields /\ DOMAIN pc = LinkFields
  BY <1>2 DEF Typed
<1>4. /\ wires'.vout = {} /\ wires'.host = wires.host /\ DOMAIN wires' = WireFields
  BY <1>1, <1>3 DEF WireFields
<1>5. /\ DOMAIN pc' = LinkFields /\ pc'.at = "send" /\ pc'.request = request /\ pc'.bit = 0
      /\ pc'.byte = 0 /\ pc'.sent = 0 /\ pc'.got = <<>>
  BY <1>1, <1>3 DEF LinkFields
<1>6. prog'.read = <<>> /\ prog'.answered = 0 /\ prog'.reply = reply
  BY <1>1 DEF ProgFields
<1> DEFINE q == L!Packet'
<1>7. q = L!PacketOf(request)
  BY <1>5 DEF L!Packet
<1> HIDE DEF q
<1>8. q \in Seq(LinkBytes) /\ Len(q) \in Nat /\ 0 < Len(q)
  BY <1>7, PacketIs
<1>9. Settled(wires, assist, pc, prog, L!Packet)
  <2>1. pc.at \in {"idle", "done", "checksum", "timeout", "error"}
    BY <1>1 DEF L!Over
  <2> QED BY <1>2, <2>1 DEF Place, Blocked, Sends, AnsweredEarly, Listens
<1>10. /\ wires.host = {} /\ ~assist.receiving /\ ~assist.read
       /\ assist.bit = IF assist.sending THEN Bits ELSE 0
  BY <1>9 DEF Settled
<1>11. Typed(wires', assist', pc', prog')
  <2>1. reply \in Seq(LinkBytes) /\ 0 \in 0..Len(reply)
    <3>1. reply \in Seq(LinkBytes)
      BY LinkAssumption DEF L!LinkOK, LinkBytes
    <3>2. Len(reply) \in Nat
      BY <3>1, LenProperties
    <3> QED BY <3>1, <3>2
  <2>2. 0 \in 0..(Bits - 1) /\ 0 \in LinkBytes /\ 0 \in Nat /\ <<>> \in Seq(LinkBytes)
    BY BaseIs DEF LinkBytes
  <2> QED BY <1>1, <1>2, <1>4, <1>5, <1>6, <2>1, <2>2 DEF Typed
<1>12. Len(<<>>) = 0
  BY EmptySeq
<1>13. Delivered(assist', pc', prog', q)
  <2>1. Len(prog'.read) = 0 /\ Len(pc'.got) = 0 /\ prog'.answered = 0 /\ ~assist'.read
    BY <1>1, <1>5, <1>6, <1>10, <1>12
  <2>2. 0 <= Len(q) /\ 0 <= 0 /\ ~(0 > 0) /\ \A i \in 1..0 : FALSE
    BY <1>8
  <2> QED BY <2>1, <2>2 DEF Delivered
<1>14. CASE assist.sending
  <2>1. Blocked(wires', assist', pc', prog')
    BY <1>1, <1>4, <1>5, <1>6, <1>10, <1>14 DEF Blocked
  <2> QED BY <1>11, <1>13, <2>1 DEF Agrees, Place, q
<1>15. CASE ~assist.sending
  <2>1. Taken(assist', prog', q, 0, 0)
    BY <1>1, <1>6, <1>10, <1>12, <1>15 DEF Taken
  <2>2. Sends(wires', assist', pc', prog', q)
    BY <1>4, <1>5, <1>6, <1>8, <1>10, <2>1 DEF Sends, TakenUpTo
  <2> QED BY <1>11, <1>13, <2>2 DEF Agrees, Place, q
<1> QED BY <1>14, <1>15

LEMMA SendKeeps ==
  ASSUME L!SendBit, Agrees(wires, assist, pc, prog, L!Packet)
  PROVE  Agrees(wires', assist', pc', prog', L!Packet)
<1> DEFINE q == L!Packet
           line == L!LineOf(L!BitOf(q[pc.sent + 1], pc.bit))
<1>1. /\ pc.at = "send" /\ wires' = [wires EXCEPT !.vout = line]
      /\ pc' = [pc EXCEPT !.at = "sent", !.waited = 0] /\ assist' = assist /\ prog' = prog
  BY DEF L!SendBit, L!Looks, L!Pull
<1>2. Typed(wires, assist, pc, prog) /\ Delivered(assist, pc, prog, q)
      /\ Place(wires, assist, pc, prog, q) /\ q \in Seq(LinkBytes) /\ Len(q) > 0
  BY RequestIs DEF Agrees
<1> HIDE DEF q
<1>3. /\ wires'.vout = line /\ wires'.host = wires.host /\ DOMAIN wires' = WireFields
  BY <1>1, <1>2 DEF WireFields, Typed
<1>4. /\ DOMAIN pc' = LinkFields /\ pc'.at = "sent" /\ pc'.request = pc.request /\ pc'.bit = pc.bit
      /\ pc'.byte = pc.byte /\ pc'.sent = pc.sent /\ pc'.got = pc.got
  BY <1>1, <1>2 DEF LinkFields, Typed
<1>5. Mine(pc', q) = line
  BY <1>4 DEF Mine
<1>6. Typed(wires', assist', pc', prog') /\ Delivered(assist', pc', prog', q)
  BY <1>1, <1>2, <1>3, <1>4 DEF Typed, Delivered
<1>7. CASE Sends(wires, assist, pc, prog, q)
  <2>1. /\ wires.host = {} /\ TakenUpTo(assist, prog, q, pc.sent, pc.bit)
        /\ pc.sent < Len(q) /\ pc.got = <<>> /\ prog.answered = 0
    BY <1>1, <1>7 DEF Sends
  <2>2. Sends(wires', assist', pc', prog', q)
    BY <1>1, <1>3, <1>4, <1>5, <2>1 DEF Sends
  <2> QED BY <1>6, <2>2 DEF Agrees, Place, q
<1>8. CASE Blocked(wires, assist, pc, prog)
  <2>1. line \in {{1}, {2}}
    <3>1. pc.sent < Len(q)
      BY <1>2, <1>8 DEF Blocked
    <3>2. Mine(pc, q) \in Line
      BY <1>2, <3>1, SendsTyped
    <3> QED BY <3>2 DEF Line, Mine
  <2> HIDE DEF line
  <2>2. Blocked(wires', assist', pc', prog')
    BY <1>1, <1>3, <1>4, <1>8, <2>1 DEF Blocked
  <2> QED BY <1>6, <2>2 DEF Agrees, Place, q
<1> QED BY <1>1, <1>2, <1>7, <1>8 DEF Place, Settled, AnsweredEarly, Listens

\* A wait that goes on changes no more than its count and whose turn it is.
GoesOn ==
  \/ pc' = [pc EXCEPT !.waited = @ + 1, !.turn = "calc"] /\ UNCHANGED <<wires, assist, prog>>
  \/ prog' = [prog EXCEPT !.lost = TRUE]

LEMMA WaitKeeps ==
  ASSUME GoesOn, DOMAIN prog = ProgFields, ~prog'.lost, Agrees(wires, assist, pc, prog, L!Packet)
  PROVE  Agrees(wires', assist', pc', prog', L!Packet)
<1>1. CASE pc' = [pc EXCEPT !.waited = @ + 1, !.turn = "calc"] /\ UNCHANGED <<wires, assist, prog>>
  <2>1. DOMAIN pc = LinkFields
    BY DEF Agrees, Typed
  <2>2. Stays(pc', pc)
    BY <1>1, <2>1 DEF Stays, LinkFields
  <2> QED BY <1>1, <2>2, StaysHere
<1>2. CASE prog' = [prog EXCEPT !.lost = TRUE]
  BY <1>2 DEF ProgFields
<1> QED BY <1>1, <1>2 DEF GoesOn

LEMMA AcknowledgedKeeps ==
  ASSUME L!Acknowledged, DOMAIN prog = ProgFields, ~prog'.lost,
         Agrees(wires, assist, pc, prog, L!Packet)
  PROVE  Agrees(wires', assist', pc', prog', L!Packet)
<1> DEFINE q == L!Packet
           on == /\ L!Pull({})
                 /\ pc' = [pc EXCEPT !.at = "released", !.waited = 0]
                 /\ UNCHANGED <<assist, prog>>
<1>1. pc.at = "sent" /\ L!Wait(L!High = {}, on)
  BY DEF L!Acknowledged, L!Looks
<1>2. SUFFICES ASSUME L!High = {}, on PROVE Agrees(wires', assist', pc', prog', q)
  <2> HIDE DEF on
  <2>1. (L!High = {} /\ on) \/ GoesOn
    BY <1>1 DEF L!Wait, GoesOn
  <2> QED BY <2>1, WaitKeeps
<1>3. /\ wires' = [wires EXCEPT !.vout = {}] /\ assist' = assist /\ prog' = prog
      /\ pc' = [pc EXCEPT !.at = "released", !.waited = 0]
  BY <1>2 DEF L!Pull
<1>4. Typed(wires, assist, pc, prog) /\ Delivered(assist, pc, prog, q)
      /\ Place(wires, assist, pc, prog, q) /\ q \in Seq(LinkBytes)
  BY RequestIs DEF Agrees
<1> HIDE DEF q, on
<1>5. /\ wires'.vout = {} /\ wires'.host = wires.host /\ DOMAIN wires' = WireFields
  BY <1>3, <1>4 DEF WireFields, Typed
<1>6. /\ DOMAIN pc' = LinkFields /\ pc'.at = "released" /\ pc'.request = pc.request
      /\ pc'.bit = pc.bit /\ pc'.byte = pc.byte /\ pc'.sent = pc.sent /\ pc'.got = pc.got
  BY <1>3, <1>4 DEF LinkFields, Typed
<1>7. Mine(pc', q) = Mine(pc, q)
  BY <1>6 DEF Mine
<1>8. Typed(wires', assist', pc', prog') /\ Delivered(assist', pc', prog', q)
  BY <1>3, <1>4, <1>5, <1>6 DEF Typed, Delivered
<1>9. wires.vout \in Line => wires.host # {}
  BY <1>2, LinesAre DEF L!High, L!HighOf
<1>10. Sends(wires, assist, pc, prog, q)
  <2>1. ~Blocked(wires, assist, pc, prog)
    BY <1>1, <1>9 DEF Blocked, Line
  <2> QED BY <1>1, <1>4, <2>1 DEF Place, Settled, AnsweredEarly, Listens
<1>11. pc.sent < Len(q) /\ pc.got = <<>> /\ prog.answered = 0
  BY <1>10 DEF Sends
<1>12. wires.vout = Mine(pc, q) => wires.host # {}
  BY <1>4, <1>9, <1>11, SendsTyped
<1>13. wires.host = L!Lines \ Mine(pc, q) /\ Taken(assist, prog, q, pc.sent, pc.bit + 1)
  BY <1>1, <1>10, <1>12 DEF Sends
<1>14. Sends(wires', assist', pc', prog', q)
  BY <1>3, <1>5, <1>6, <1>7, <1>11, <1>13 DEF Sends
<1> QED BY <1>8, <1>14 DEF Agrees, Place, q

LEMMA FreeKeeps ==
  ASSUME L!Free, DOMAIN prog = ProgFields, ~prog'.lost, Agrees(wires, assist, pc, prog, L!Packet)
  PROVE  Agrees(wires', assist', pc', prog', L!Packet)
<1> DEFINE q == L!Packet
           more == [pc EXCEPT !.bit = @ + 1, !.at = "send"]
           over == [pc EXCEPT !.bit = 0, !.sent = @ + 1, !.waited = 0,
                              !.at = IF pc.sent + 1 < Len(q) THEN "send" ELSE "listen"]
           on == /\ pc' = IF pc.bit + 1 < Bits THEN more ELSE over
                 /\ UNCHANGED <<wires, assist, prog>>
<1>1. pc.at = "released" /\ L!Wait(L!High = L!Lines, on)
  BY DEF L!Free, L!Looks
<1>2. SUFFICES ASSUME L!High = L!Lines, on PROVE Agrees(wires', assist', pc', prog', q)
  <2> HIDE DEF on
  <2>1. (L!High = L!Lines /\ on) \/ GoesOn
    BY <1>1 DEF L!Wait, GoesOn
  <2> QED BY <2>1, WaitKeeps
<1>3. /\ wires' = wires /\ assist' = assist /\ prog' = prog
      /\ pc' = IF pc.bit + 1 < Bits THEN more ELSE over
  BY <1>2
<1>4. Typed(wires, assist, pc, prog) /\ Delivered(assist, pc, prog, q)
      /\ Place(wires, assist, pc, prog, q) /\ q \in Seq(LinkBytes) /\ Len(q) \in Nat
  BY RequestIs DEF Agrees
<1>5. /\ DOMAIN more = LinkFields /\ more.at = "send" /\ more.request = pc.request
      /\ more.bit = pc.bit + 1 /\ more.byte = pc.byte /\ more.sent = pc.sent /\ more.got = pc.got
  BY <1>4 DEF LinkFields, Typed
<1>6. /\ DOMAIN over = LinkFields /\ over.at = (IF pc.sent + 1 < Len(q) THEN "send" ELSE "listen")
      /\ over.request = pc.request
      /\ over.bit = 0 /\ over.byte = pc.byte /\ over.sent = pc.sent + 1 /\ over.got = pc.got
  BY <1>4 DEF LinkFields, Typed
<1> HIDE DEF q, on, more, over
<1>7. /\ Bits \in Int /\ 0 \in 0..(Bits - 1) /\ pc.bit \in 0..(Bits - 1) /\ pc.sent \in Nat
      /\ pc.byte \in LinkBytes
  <2>1. Bits \in 1..8
    BY BaseIs
  <2>2. Bits \in Int /\ 0 \in 0..(Bits - 1)
    BY <2>1
  <2>3. Typed(wires, assist, pc, prog)
    BY <1>4
  <2>4. pc.bit \in 0..(Bits - 1) /\ pc.sent \in Nat /\ pc.byte \in LinkBytes
    BY ONLY <2>3 DEF Typed
  <2> QED BY <2>2, <2>4
<1>8. pc.bit + 1 < Bits \/ pc.bit + 1 = Bits
  BY <1>7
<1>9. Typed(wires', assist', pc', prog')
  <2>1. CASE pc.bit + 1 < Bits
    <3>1. pc.bit + 1 \in 0..(Bits - 1)
      BY <1>7, <2>1
    <3> QED BY <1>3, <1>4, <1>5, <2>1, <3>1 DEF Typed
  <2>2. CASE pc.bit + 1 = Bits
    <3>1. pc' = over /\ pc.sent + 1 \in Nat
      BY <1>3, <1>7, <2>2
    <3> QED BY <1>3, <1>4, <1>6, <1>7, <3>1 DEF Typed
  <2> QED BY <1>8, <2>1, <2>2
<1>10. Delivered(assist', pc', prog', q)
  <2>1. pc'.got = pc.got
    BY <1>3, <1>5, <1>6
  <2> QED BY <1>3, <1>4, <2>1 DEF Delivered
<1>11. \A l \in Line : wires.vout = {} => wires.host # l
  BY <1>2, LinesAre DEF L!High, L!HighOf
<1>12. CASE Sends(wires, assist, pc, prog, q)
  <2>1. pc.sent < Len(q) /\ pc.got = <<>> /\ prog.answered = 0 /\ wires.vout = {}
    BY <1>1, <1>12 DEF Sends
  <2>2. wires.host # L!Lines \ Mine(pc, q)
    <3>1. Mine(pc, q) \in Line
      BY <1>4, <2>1, SendsTyped
    <3>2. L!Lines \ Mine(pc, q) \in Line
      BY <3>1, LinesAre
    <3> QED BY <1>11, <2>1, <3>2
  <2>3. /\ wires.host = {}
        /\ \/ Taken(assist, prog, q, pc.sent, pc.bit + 1)
           \/ pc.bit + 1 = Bits /\ Taken(assist, prog, q, pc.sent + 1, 0)
    BY <1>1, <1>12, <2>2 DEF Sends
  <2>4. CASE pc.bit + 1 < Bits
    <3>1. pc' = more /\ pc.bit + 1 # Bits
      BY <1>3, <1>7, <2>4
    <3>2. TakenUpTo(assist, prog, q, pc.sent, pc.bit + 1)
      BY <2>3, <3>1 DEF TakenUpTo
    <3>3. Sends(wires', assist', pc', prog', q)
      BY <1>3, <1>5, <2>1, <2>3, <3>1, <3>2 DEF Sends
    <3> QED BY <1>9, <1>10, <3>3 DEF Agrees, Place, q
  <2>5. CASE pc.bit + 1 = Bits
    <3>1. pc' = over /\ pc.sent + 1 > 0 /\ (pc.sent + 1) - 1 = pc.sent
      BY <1>3, <1>7, <2>5
    <3>2. TakenUpTo(assist, prog, q, pc.sent + 1, 0)
      BY <2>3, <2>5, <3>1 DEF TakenUpTo
    <3>3. CASE pc.sent + 1 < Len(q)
      <4>1. Sends(wires', assist', pc', prog', q)
        BY <1>3, <1>6, <2>1, <2>3, <3>1, <3>2, <3>3 DEF Sends
      <4> QED BY <1>9, <1>10, <4>1 DEF Agrees, Place, q
    <3>4. CASE ~(pc.sent + 1 < Len(q))
      <4>1. pc.sent + 1 = Len(q) /\ Len(pc.got) = 0
        BY <1>4, <1>7, <2>1, <3>4, EmptySeq
      <4>2. Listens(wires', assist', pc', prog', q)
        BY <1>3, <1>6, <2>1, <2>3, <3>1, <3>2, <3>4, <4>1 DEF Listens
      <4> QED BY <1>9, <1>10, <4>2 DEF Agrees, Place, q
    <3> QED BY <3>3, <3>4
  <2> QED BY <1>8, <2>4, <2>5
<1>13. CASE AnsweredEarly(wires, assist, pc, prog, q)
  <2>1. /\ wires.vout = {} /\ wires.host \in {{}, L!LineOf(L!BitOf(assist.out, 0))}
        /\ pc.bit + 1 = Bits /\ pc.sent + 1 = Len(q) /\ pc.got = <<>> /\ prog.answered = 1
        /\ Gives(assist, prog, q, 0)
    BY <1>13 DEF AnsweredEarly
  <2>2. assist.out \in LinkBytes /\ L!LineOf(L!BitOf(assist.out, 0)) \in Line
    BY <1>4, <1>7, <2>1, AnswerTyped
  <2>3. wires.host = {}
    BY <1>11, <2>1, <2>2
  <2>4. pc' = over /\ ~(pc.sent + 1 < Len(q)) /\ Len(pc.got) = 0
    BY <1>3, <1>4, <1>7, <2>1, EmptySeq
  <2>5. HasBits(pc.byte, assist.out, 0)
    BY <1>7, <2>2, NoBits
  <2>6. Listens(wires', assist', pc', prog', q)
    BY <1>3, <1>6, <2>1, <2>3, <2>4, <2>5 DEF Listens
  <2> QED BY <1>9, <1>10, <2>6 DEF Agrees, Place, q
<1> QED BY <1>1, <1>4, <1>12, <1>13 DEF Place, Settled, Blocked, Listens

LEMMA ListenKeeps ==
  ASSUME L!Listen, DOMAIN prog = ProgFields, ~prog'.lost, Agrees(wires, assist, pc, prog, L!Packet)
  PROVE  Agrees(wires', assist', pc', prog', L!Packet)
<1> DEFINE q == L!Packet
           byte == (pc.byte \div 2) + (L!Base \div 2) * L!BitOn(L!High)
           on == /\ L!Pull(L!High)
                 /\ pc' = [pc EXCEPT !.byte = (@ \div 2) + (L!Base \div 2) * L!BitOn(L!High),
                                     !.at = "heard", !.waited = 0]
                 /\ UNCHANGED <<assist, prog>>
<1>1. pc.at = "listen" /\ L!High # {} /\ L!Wait(L!High # L!Lines, on)
  BY DEF L!Listen, L!Looks
<1>2. SUFFICES ASSUME L!High # L!Lines, on PROVE Agrees(wires', assist', pc', prog', q)
  <2> HIDE DEF on
  <2>1. (L!High # L!Lines /\ on) \/ GoesOn
    BY <1>1 DEF L!Wait, GoesOn
  <2> QED BY <2>1, WaitKeeps
<1>3. /\ wires' = [wires EXCEPT !.vout = L!High] /\ assist' = assist /\ prog' = prog
      /\ pc' = [pc EXCEPT !.byte = byte, !.at = "heard", !.waited = 0]
  BY <1>2 DEF L!Pull
<1>4. Typed(wires, assist, pc, prog) /\ Delivered(assist, pc, prog, q)
      /\ Place(wires, assist, pc, prog, q)
  BY DEF Agrees
<1> HIDE DEF q, on
<1>5. /\ wires'.vout = L!High /\ wires'.host = wires.host /\ DOMAIN wires' = WireFields
  BY <1>3, <1>4 DEF WireFields, Typed
<1>6. /\ DOMAIN pc' = LinkFields /\ pc'.at = "heard" /\ pc'.request = pc.request
      /\ pc'.bit = pc.bit /\ pc'.byte = byte /\ pc'.sent = pc.sent /\ pc'.got = pc.got
  BY <1>3, <1>4 DEF LinkFields, Typed
<1>7. pc.byte \in LinkBytes /\ pc.bit \in 0..(Bits - 1) /\ assist.bit \in 0..Bits
  BY <1>4 DEF Typed
<1>8. ~(wires.vout = {} /\ wires.host = {})
  BY <1>2, LinesAre DEF L!High, L!HighOf
<1>9. /\ wires.vout = {} /\ wires.host = Answer(assist, pc)
      /\ prog.answered = Len(pc.got) + 1 /\ Gives(assist, prog, q, pc.bit)
      /\ HasBits(pc.byte, assist.out, pc.bit) /\ pc.sent = Len(q)
  <2>1. Listens(wires, assist, pc, prog, q)
    BY <1>1, <1>4 DEF Place, Settled, Blocked, Sends, AnsweredEarly
  <2> QED BY <1>1, <1>8, <2>1 DEF Listens
<1>10. assist.out \in LinkBytes /\ Answer(assist, pc) \in Line
  BY <1>4, <1>7, <1>9, AnswerTyped DEF Answer
<1>11. L!High = L!Lines \ Answer(assist, pc)
  BY <1>9, <1>10, LinesAre DEF L!High, L!HighOf
<1>12. L!BitOn(L!High) = L!BitOf(assist.out, pc.bit)
  <2>1. L!BitOf(assist.out, pc.bit) \in {0, 1}
    BY <1>7, <1>10, OneBit
  <2> QED BY <1>11, <2>1, LinesAre DEF Answer
<1>13. byte \in LinkBytes /\ HasBits(byte, assist.out, pc.bit + 1)
  <2>1. byte = (pc.byte \div 2) + (L!Base \div 2) * L!BitOf(assist.out, pc.bit)
    BY <1>12
  <2> HIDE DEF byte
  <2> QED BY <1>7, <1>9, <1>10, <2>1, NextBit
<1> HIDE DEF byte
<1>14. Typed(wires', assist', pc', prog') /\ Delivered(assist', pc', prog', q)
  BY <1>3, <1>4, <1>5, <1>6, <1>13 DEF Typed, Delivered
<1>15. Answer(assist', pc') = Answer(assist, pc)
  BY <1>3, <1>6 DEF Answer
<1>16. Listens(wires', assist', pc', prog', q)
  BY <1>3, <1>5, <1>6, <1>9, <1>11, <1>13, <1>15 DEF Listens
<1> QED BY <1>14, <1>16 DEF Agrees, Place, q

LEMMA HeardKeeps ==
  ASSUME L!Heard, DOMAIN prog = ProgFields, ~prog'.lost, Agrees(wires, assist, pc, prog, L!Packet)
  PROVE  Agrees(wires', assist', pc', prog', L!Packet)
<1> DEFINE q == L!Packet
           got == Append(pc.got, pc.byte)
           whole == Len(got) = L!Needed(got)
           more == [pc EXCEPT !.bit = @ + 1, !.at = "listen", !.waited = 0]
           over == [pc EXCEPT !.bit = 0, !.got = got, !.byte = 0, !.waited = 0,
                              !.at = IF ~whole THEN "listen"
                                     ELSE IF L!Sound(got) THEN "done" ELSE "checksum",
                              !.turn = IF whole THEN "calc" ELSE @]
           on == /\ L!Pull({})
                 /\ pc' = IF pc.bit + 1 < Bits THEN more ELSE over
                 /\ UNCHANGED <<assist, prog>>
<1>1. pc.at = "heard" /\ L!Wait(L!High # {}, on)
  BY DEF L!Heard, L!Looks
<1>2. SUFFICES ASSUME L!High # {}, on PROVE Agrees(wires', assist', pc', prog', q)
  <2> HIDE DEF on
  <2>1. (L!High # {} /\ on) \/ GoesOn
    BY <1>1 DEF L!Wait, GoesOn
  <2> QED BY <2>1, WaitKeeps
<1>3. /\ wires' = [wires EXCEPT !.vout = {}] /\ assist' = assist /\ prog' = prog
      /\ pc' = IF pc.bit + 1 < Bits THEN more ELSE over
  BY <1>2 DEF L!Pull
<1>4. Typed(wires, assist, pc, prog) /\ Delivered(assist, pc, prog, q)
      /\ Place(wires, assist, pc, prog, q)
  BY DEF Agrees
<1>5. /\ wires'.vout = {} /\ wires'.host = wires.host /\ DOMAIN wires' = WireFields
  BY <1>3, <1>4 DEF WireFields, Typed
<1> HIDE DEF q, on, got, whole
<1>6. /\ DOMAIN more = LinkFields /\ more.at = "listen" /\ more.request = pc.request
      /\ more.bit = pc.bit + 1 /\ more.byte = pc.byte /\ more.sent = pc.sent /\ more.got = pc.got
  BY <1>4 DEF LinkFields, Typed
<1>7. /\ DOMAIN over = LinkFields /\ over.at \in {"listen", "done", "checksum"}
      /\ over.request = pc.request
      /\ over.bit = 0 /\ over.byte = 0 /\ over.sent = pc.sent /\ over.got = got
  BY <1>4 DEF LinkFields, Typed
<1> HIDE DEF more, over
<1>8. /\ Bits \in Int /\ 0 \in 0..(Bits - 1) /\ 0 \in LinkBytes /\ pc.bit \in 0..(Bits - 1)
      /\ pc.byte \in LinkBytes /\ pc.got \in Seq(LinkBytes)
  <2>1. Bits \in 1..8 /\ L!Base \in Nat \ {0}
    BY BaseIs
  <2>2. Bits \in Int /\ 0 \in 0..(Bits - 1) /\ 0 \in LinkBytes
    BY <2>1 DEF LinkBytes
  <2>3. Typed(wires, assist, pc, prog)
    BY <1>4
  <2>4. pc.bit \in 0..(Bits - 1) /\ pc.byte \in LinkBytes /\ pc.got \in Seq(LinkBytes)
    BY ONLY <2>3 DEF Typed
  <2> QED BY <2>2, <2>4
<1>9. Listens(wires, assist, pc, prog, q)
  BY <1>1, <1>4 DEF Place, Settled, Blocked, Sends, AnsweredEarly
<1>10. /\ wires.vout = L!Lines \ Answer(assist, pc) /\ prog.answered = Len(pc.got) + 1
       /\ HasBits(pc.byte, assist.out, pc.bit + 1) /\ pc.sent = Len(q)
       /\ \/ wires.host = Answer(assist, pc) /\ Gives(assist, prog, q, pc.bit)
          \/ wires.host = {} /\ Gives(assist, prog, q, pc.bit + 1)
  BY <1>1, <1>9 DEF Listens
<1>11. assist.out \in LinkBytes /\ Answer(assist, pc) \in Line
  BY <1>4, <1>8, <1>10, AnswerTyped DEF Answer
<1>12. wires.host = {} /\ Gives(assist, prog, q, pc.bit + 1)
  <2>1. wires.host # Answer(assist, pc)
    BY <1>2, <1>10, <1>11, LinesAre DEF L!High, L!HighOf
  <2> QED BY <1>10, <2>1
<1>13. CASE pc.bit + 1 < Bits
  <2>1. pc' = more /\ pc.bit + 1 \in 0..(Bits - 1)
    BY <1>3, <1>8, <1>13
  <2>2. Typed(wires', assist', pc', prog') /\ Delivered(assist', pc', prog', q)
    BY <1>3, <1>4, <1>5, <1>6, <2>1 DEF Typed, Delivered
  <2>3. Listens(wires', assist', pc', prog', q)
    BY <1>3, <1>5, <1>6, <1>10, <1>12, <2>1 DEF Listens
  <2> QED BY <2>2, <2>3 DEF Agrees, Place, q
<1>14. CASE pc.bit + 1 = Bits
  <2>1. pc' = over
    BY <1>3, <1>8, <1>14
  <2>2. pc.byte = assist.out
    BY <1>8, <1>10, <1>11, <1>14, AllBits
  <2>3. /\ got \in Seq(LinkBytes) /\ Len(got) = Len(pc.got) + 1 /\ Len(pc.got) \in Nat
        /\ \A i \in 1..Len(pc.got) : got[i] = pc.got[i]
        /\ got[Len(pc.got) + 1] = pc.byte
    BY <1>8, AppendProperties, LenProperties DEF got
  <2>4. /\ assist.out = prog.reply[Len(pc.got) + 1] /\ HasAll(prog, q) /\ assist.sending
        /\ assist.bit = Bits /\ ~assist.read /\ ~assist.receiving /\ Gives(assist, prog, q, Bits)
    BY <1>10, <1>12, <1>14 DEF Gives
  <2>5. Typed(wires', assist', pc', prog')
    BY <1>3, <1>4, <1>5, <1>7, <1>8, <2>1, <2>3 DEF Typed
  <2>6. Delivered(assist', pc', prog', q)
    <3>1. \A i \in 1..Len(pc.got) : pc.got[i] = prog.reply[i]
      BY <1>4 DEF Delivered
    <3>2. \A i \in 1..Len(got) : i \in 1..Len(pc.got) \/ i = Len(pc.got) + 1
      BY <2>3
    <3>3. got[Len(pc.got) + 1] = prog.reply[Len(pc.got) + 1]
      BY <2>2, <2>3, <2>4
    <3>4. \A i \in 1..Len(got) : got[i] = prog.reply[i]
      BY <2>3, <3>1, <3>2, <3>3
    <3>5. Len(got) <= prog.answered
      BY <1>10, <2>3
    <3> QED BY <1>3, <1>4, <1>7, <2>1, <3>4, <3>5 DEF Delivered
  <2>7. CASE over.at = "listen"
    <3>1. Listens(wires', assist', pc', prog', q)
      BY <1>3, <1>5, <1>7, <1>10, <1>12, <2>1, <2>3, <2>4, <2>7 DEF Listens
    <3> QED BY <2>5, <2>6, <3>1 DEF Agrees, Place, q
  <2>8. CASE over.at \in {"done", "checksum"}
    <3>1. Settled(wires', assist', pc', prog', q)
      BY <1>3, <1>5, <1>12, <2>1, <2>4, <2>8 DEF Settled
    <3> QED BY <2>5, <2>6, <3>1 DEF Agrees, Place, q
  <2> QED BY <1>7, <2>7, <2>8
<1>15. pc.bit + 1 < Bits \/ pc.bit + 1 = Bits
  BY <1>8
<1> QED BY <1>13, <1>14, <1>15

(***************************************************************************)
(* The invariant, and what it says of the bytes.                           *)
(***************************************************************************)
LinkHolds == LinkInv(wires, assist, pc, prog)

LEMMA LinkStarts == L!Init => LinkHolds
<1> SUFFICES ASSUME L!Init PROVE LinkHolds
  OBVIOUS
<1>1. pc.request \in Requests
  BY LinkAssumption DEF L!Init, L!LinkOK
<1> DEFINE q == L!Packet
<1>2. q \in Seq(LinkBytes) /\ Len(q) \in Nat
  BY <1>1, PacketIs DEF L!Packet
<1> HIDE DEF q
<1>3. Len(<<>>) = 0 /\ <<>> \in Seq(LinkBytes) /\ 0 \in 0..(Bits - 1) /\ 0 \in LinkBytes
      /\ 0 \in 0..Bits
  BY EmptySeq, BaseIs DEF LinkBytes
<1>4. DOMAIN prog = ProgFields /\ prog.lost = FALSE
      /\ prog.read = <<>> /\ prog.answered = 0 /\ prog.reply = <<>>
  BY DEF L!Init, ProgFields
<1>5. /\ DOMAIN assist = AssistFields /\ ~assist.sending /\ ~assist.receiving /\ ~assist.read
      /\ assist.bit = 0 /\ assist.sending = FALSE /\ assist.receiving = FALSE /\ assist.read = FALSE
      /\ assist.working = 0
  BY DEF L!Init, AssistFields
<1>6. /\ DOMAIN pc = LinkFields /\ pc.at = "idle" /\ pc.bit = 0 /\ pc.byte = 0 /\ pc.sent = 0
      /\ pc.got = <<>>
  BY DEF L!Init, LinkFields
<1>7. DOMAIN wires = WireFields /\ wires.vout = {} /\ wires.host = {}
  BY DEF L!Init, WireFields
<1>8. Typed(wires, assist, pc, prog)
  <2>1. 0 \in 0..Len(prog.reply) /\ 0 \in Nat /\ wires.host \subseteq L!Lines
    BY <1>3, <1>4, <1>7
  <2> QED BY <1>1, <1>3, <1>4, <1>5, <1>6, <1>7, <2>1 DEF Typed
<1>9. Delivered(assist, pc, prog, q)
  <2>1. 0 <= Len(q) /\ 0 <= 0 /\ ~(0 > 0) /\ \A i \in 1..0 : FALSE
    BY <1>2
  <2> QED BY <1>3, <1>4, <1>5, <1>6, <2>1 DEF Delivered
<1>10. Settled(wires, assist, pc, prog, q)
  BY <1>4, <1>5, <1>6, <1>7 DEF Settled
<1> QED BY <1>4, <1>8, <1>9, <1>10 DEF LinkHolds, LinkInv, Agrees, Place, L!Packet, q

(* What is abandoned stays so, and the errors abandon a byte. *)
LEMMA LostStays ==
  ASSUME DOMAIN prog = ProgFields, prog.lost \in BOOLEAN, [L!Next]_(L!vars)
  PROVE  DOMAIN prog' = ProgFields /\ prog'.lost \in BOOLEAN /\ (prog.lost => prog'.lost)
<1>1. \/ prog' = prog \/ prog' = [prog EXCEPT !.lost = TRUE]
      \/ \E reply : prog' = [prog EXCEPT !.read = <<>>, !.answered = 0, !.reply = reply]
      \/ \E read : prog' = [prog EXCEPT !.read = read]
      \/ prog' = [prog EXCEPT !.answered = @ + 1]
      \/ \E lost \in BOOLEAN : prog' = [prog EXCEPT !.switches = @ + 1, !.lost = @ \/ lost]
      \/ prog' = [prog EXCEPT !.switches = @ + 1, !.lost = TRUE]
  <2>1. L!Begin => \E reply : prog' = [prog EXCEPT !.read = <<>>, !.answered = 0, !.reply = reply]
    BY DEF L!Begin
  <2>2. L!LinkStep => prog' = prog \/ prog' = [prog EXCEPT !.lost = TRUE]
    BY DEF L!LinkStep, L!SendBit, L!Acknowledged, L!Free, L!ListenError, L!Listen, L!Heard, L!Wait
  <2>3. (\E turn : L!Plain(turn)) => prog' = prog
    BY DEF L!Plain
  <2>4. L!InPort0A => \E read : prog' = [prog EXCEPT !.read = read]
    BY DEF L!InPort0A
  <2>5. L!OutPort0D => prog' = [prog EXCEPT !.answered = @ + 1] \/ L!Interferes
    BY DEF L!OutPort0D
  <2>6. L!OutPort8 => \E lost \in BOOLEAN : prog' = [prog EXCEPT !.switches = @ + 1, !.lost = @ \/ lost]
    <3>1. ASSUME L!OutPort8
          PROVE  \E on \in BOOLEAN :
                   prog' = [prog EXCEPT !.switches = @ + 1,
                             !.lost = @ \/ (~on /\ (assist.sending \/ assist.receiving \/ assist.read))]
      BY <3>1 DEF L!OutPort8
    <3> QED BY <3>1
  <2>7. L!OutPort0 \/ L!OutPort0A \/ L!InPort0D => prog' = prog \/ L!Interferes
    BY DEF L!OutPort0, L!OutPort0A, L!InPort0D
  <2>8. L!Interferes => prog' = [prog EXCEPT !.switches = @ + 1, !.lost = TRUE]
    BY DEF L!Interferes
  <2> QED BY <2>1, <2>2, <2>3, <2>4, <2>5, <2>6, <2>7, <2>8 DEF L!Next, L!Calculator, L!vars
<1> QED BY <1>1 DEF ProgFields


LEMMA RequestStays ==
  ASSUME DOMAIN pc = LinkFields, L!LinkStep \/ L!Calculator
  PROVE  L!Packet' = L!Packet
<1>1. L!LinkStep => pc'.request = pc.request
  <2>1. L!SendBit => pc'.request = pc.request
    BY DEF L!SendBit, LinkFields
  <2>2. L!Acknowledged => pc'.request = pc.request
    BY DEF L!Acknowledged, L!Wait, LinkFields
  <2>3. L!Free => pc'.request = pc.request
    BY DEF L!Free, L!Wait, LinkFields
  <2>4. L!ListenError => pc'.request = pc.request
    BY DEF L!ListenError, LinkFields
  <2>5. L!Listen => pc'.request = pc.request
    BY DEF L!Listen, L!Wait, LinkFields
  <2>6. L!Heard => pc'.request = pc.request
    BY DEF L!Heard, L!Wait, LinkFields
  <2> QED BY <2>1, <2>2, <2>3, <2>4, <2>5, <2>6 DEF L!LinkStep
<1>2. L!Calculator => \E w, a, turn : L!Executes(w, a, turn)
  <2>1. \A turn : L!Plain(turn) => L!Executes(wires, assist, turn)
    BY DEF L!Plain
  <2>2. L!InPort0A => \E w, a, turn : L!Executes(w, a, turn)
    BY DEF L!InPort0A
  <2>3. L!OutPort0D => \E w, a, turn : L!Executes(w, a, turn)
    BY DEF L!OutPort0D
  <2>4. L!OutPort8 => \E w, a, turn : L!Executes(w, a, turn)
    BY DEF L!OutPort8
  <2>5. L!OutPort0 => \E w, a, turn : L!Executes(w, a, turn)
    BY DEF L!OutPort0
  <2>6. L!OutPort0A => \E w, a, turn : L!Executes(w, a, turn)
    BY DEF L!OutPort0A
  <2>7. L!InPort0D => \E w, a, turn : L!Executes(w, a, turn)
    BY DEF L!InPort0D
  <2> QED BY <2>1, <2>2, <2>3, <2>4, <2>5, <2>6, <2>7 DEF L!Calculator
<1>3. \A w, a, turn : L!Executes(w, a, turn) => pc'.request = pc.request
  BY DEF L!Executes, LinkFields
<1> QED BY <1>1, <1>2, <1>3 DEF L!Packet

LEMMA LinkKeeps == LinkHolds /\ [L!Next]_(L!vars) => LinkHolds'
<1> SUFFICES ASSUME LinkHolds, [L!Next]_(L!vars) PROVE LinkHolds'
  OBVIOUS
<1>1. DOMAIN prog = ProgFields /\ prog.lost \in BOOLEAN
      /\ (~prog.lost => Agrees(wires, assist, pc, prog, L!Packet))
  BY DEF LinkHolds, LinkInv, L!Packet
<1>2. DOMAIN prog' = ProgFields /\ prog'.lost \in BOOLEAN /\ (prog.lost => prog'.lost)
  BY <1>1, LostStays
<1>3. SUFFICES ASSUME ~prog'.lost PROVE Agrees(wires', assist', pc', prog', L!Packet')
  BY <1>2 DEF LinkHolds, LinkInv, L!Packet
<1>4. ~prog.lost /\ Agrees(wires, assist, pc, prog, L!Packet) /\ DOMAIN pc = LinkFields
  BY <1>1, <1>2, <1>3 DEF Agrees, Typed
<1>5. CASE L!Begin
  BY <1>1, <1>4, <1>5, BeginKeeps
<1>6. CASE L!LinkStep
  <2>1. L!Packet' = L!Packet
    BY <1>4, <1>6, RequestStays
  <2>2. L!ListenError => prog'.lost
    BY <1>1 DEF L!ListenError, ProgFields
  <2>3. Agrees(wires', assist', pc', prog', L!Packet)
    BY <1>1, <1>3, <1>4, <1>6, <2>2, SendKeeps, AcknowledgedKeeps, FreeKeeps, ListenKeeps, HeardKeeps
       DEF L!LinkStep
  <2> QED BY <2>1, <2>3
<1>7. CASE L!Calculator
  <2>1. L!Packet' = L!Packet
    BY <1>4, <1>7, RequestStays
  <2>2. Agrees(wires', assist', pc', prog', L!Packet)
    <3>1. CASE L!InPort0A \/ L!OutPort0A
      <4>1. L!OutPort0A => ~assist.read
        BY <1>1, <1>3, Interfered DEF L!OutPort0A
      <4> QED BY <1>1, <1>4, <3>1, <4>1, ReadKeeps, NothingRead
    <3>2. CASE L!InPort0D
      BY <1>4, <3>2, LookKeeps
    <3>3. CASE (\E turn : L!Plain(turn)) \/ L!OutPort0D \/ L!OutPort8 \/ L!OutPort0
      BY <1>1, <1>3, <1>4, <3>3, PlainKeeps, AnswerKeeps, SwitchKeeps, PullKeeps
    <3> QED BY <1>7, <3>1, <3>2, <3>3 DEF L!Calculator
  <2> QED BY <2>1, <2>2
<1>8. CASE UNCHANGED L!vars
  BY <1>4, <1>8 DEF L!vars, L!Packet
<1> QED BY <1>5, <1>6, <1>7, <1>8 DEF L!Next

LEMMA BytesFollow == LinkHolds => L!BytesInOrder
<1> SUFFICES ASSUME LinkHolds, ~prog.lost PROVE L!BytesInOrder
  BY DEF L!BytesInOrder
<1> DEFINE q == L!Packet
<1>1. Agrees(wires, assist, pc, prog, L!Packet)
  BY DEF LinkHolds, LinkInv, L!Packet
<1>2. q \in Seq(LinkBytes) /\ Len(q) \in Nat
  BY <1>1, RequestIs
<1>3. Typed(wires, assist, pc, prog) /\ Delivered(assist, pc, prog, q)
      /\ Place(wires, assist, pc, prog, q)
  BY <1>1 DEF Agrees
<1> HIDE DEF q
<1>4. /\ prog.read \in Seq(LinkBytes) /\ pc.got \in Seq(LinkBytes) /\ prog.reply \in Seq(LinkBytes)
      /\ Len(prog.read) \in Nat /\ Len(pc.got) \in Nat /\ Len(prog.reply) \in Nat
      /\ prog.answered \in 0..Len(prog.reply)
  <2>1. /\ prog.read \in Seq(LinkBytes) /\ pc.got \in Seq(LinkBytes) /\ prog.reply \in Seq(LinkBytes)
        /\ prog.answered \in 0..Len(prog.reply)
    BY <1>3 DEF Typed
  <2> QED BY <2>1, LenProperties
<1>5. \A s, t \in Seq(LinkBytes) :
         Len(s) <= Len(t) /\ (\A i \in 1..Len(s) : s[i] = t[i]) => L!IsPrefix(s, t)
  <2> TAKE s, t \in Seq(LinkBytes)
  <2> SUFFICES ASSUME Len(s) <= Len(t), \A i \in 1..Len(s) : s[i] = t[i] PROVE L!IsPrefix(s, t)
    OBVIOUS
  <2>1. Len(s) \in Nat /\ Len(t) \in Nat
    BY LenProperties
  <2>2. SubSeq(s, 1, Len(s)) = SubSeq(t, 1, Len(s))
    BY <2>1, SubSeqProperties
  <2> QED BY <2>2 DEF L!IsPrefix
<1>6. L!IsPrefix(prog.read, q)
  BY <1>2, <1>3, <1>4, <1>5 DEF Delivered
<1>7. L!IsPrefix(pc.got, prog.reply)
  <2>1. Len(pc.got) <= Len(prog.reply) /\ \A i \in 1..Len(pc.got) : pc.got[i] = prog.reply[i]
    BY <1>3, <1>4 DEF Delivered
  <2> QED BY <1>4, <1>5, <2>1
<1>8. ASSUME pc.at = "done" PROVE prog.read = q /\ wires.vout = {}
  <2>1. Settled(wires, assist, pc, prog, q)
    BY <1>3, <1>8 DEF Place, Blocked, Sends, AnsweredEarly, Listens
  <2>2. wires.vout = {} /\ Len(prog.read) = Len(q)
    BY <1>8, <2>1 DEF Settled, HasAll
  <2>3. \A i \in 1..Len(q) : prog.read[i] = q[i]
    BY <1>3, <2>2 DEF Delivered
  <2>4. prog.read = q
    BY <1>2, <1>4, <2>2, <2>3, SeqEqual
  <2> QED BY <2>2, <2>4
<1> QED BY <1>6, <1>7, <1>8 DEF L!BytesInOrder, q

(* Each side reads what the other sent, from the first byte on and in order, for every  *)
(* packet and answer, every width of a byte up to eight bits and every length of a      *)
(* timeout, as long as no byte is abandoned and the program does not interfere, which   *)
(* nothing in the assist keeps it from: the bits of a byte are counted on both sides,   *)
(* and neither counts one that the other does not.  The program may do all else at any  *)
(* time: look at both ports, switch the assist on and, between bytes, off, and leave a  *)
(* byte unread or unsent for any number of instructions.                                *)
THEOREM BytesAreInOrder == Spec => []BytesInOrder
<1>1. Init => LinkHolds
  BY LinkStarts DEF Init
<1>2. LinkHolds /\ [Next]_vars => LinkHolds'
  <2> SUFFICES ASSUME LinkHolds, [Next]_vars PROVE LinkHolds'
    OBVIOUS
  <2>1. [L!Next]_(L!vars)
    BY DEF Next, vars, link, L!vars, Processor, Standard, Crystal, Asking, Link, Display, Save,
           OfTimers, OfLink, OfLcd, OfSave
  <2> QED BY <2>1, LinkKeeps
<1>3. LinkHolds => BytesInOrder
  BY BytesFollow DEF BytesInOrder
<1> QED BY <1>1, <1>2, <1>3, PTL DEF Spec

(***************************************************************************)
(* The chunks of a save file.  Rows of fields first: where each field      *)
(* ends, the bytes of all of them in a row, and that a field read where it *)
(* ends is the field written.                                              *)
(***************************************************************************)
LEMMA LeastIsThere ==
  ASSUME NEW T, T \subseteq Nat, T # {}
  PROVE  \E n \in T : \A m \in T : n <= m
<1>1. PICK n \in T : \A m \in T : <<m, n>> \notin OpToRel(<, Nat)
  BY WFMin, NatLessThanWellFounded
<1>2. ASSUME NEW m \in T PROVE n <= m
  <2>1. m \in Nat /\ n \in Nat /\ ~(m < n)
    BY <1>1 DEF OpToRel
  <2> QED BY <2>1
<1> QED BY <1>2

IsRow(fields) == Len(fields) \in Nat /\ \A k \in 1..Len(fields) : fields[k].width \in Nat

LEMMA EndsAre ==
  ASSUME NEW fields, IsRow(fields)
  PROVE  /\ \A k \in 0..Len(fields) : S!Ends(fields)[k] \in Nat
         /\ S!Ends(fields)[0] = 0
         /\ \A k \in 1..Len(fields) : S!Ends(fields)[k] = S!Ends(fields)[k - 1] + fields[k].width
<1> DEFINE n == Len(fields)
           IsEnd(f, m) == f = [k \in 0..m |-> IF k = 0 THEN 0 ELSE f[k - 1] + fields[k].width]
           There(m) == \E f : IsEnd(f, m)
           Missing == {m \in 0..n : ~There(m)}
<1>0. n \in Nat
  BY DEF IsRow
<1> HIDE DEF n
<1>1. There(0)
  <2> DEFINE f == [k \in 0..0 |-> 0]
  <2>1. f = [k \in 0..0 |-> IF k = 0 THEN 0 ELSE f[k - 1] + fields[k].width]
    OBVIOUS
  <2> HIDE DEF f
  <2> QED BY <2>1
<1>2. ASSUME NEW m \in Nat, There(m) PROVE There(m + 1)
  <2>1. PICK f : IsEnd(f, m)
    BY <1>2
  <2> DEFINE g == [k \in 0..(m + 1) |-> IF k <= m THEN f[k] ELSE f[m] + fields[m + 1].width]
  <2>2. ASSUME NEW k \in 0..(m + 1)
        PROVE  g[k] = IF k = 0 THEN 0 ELSE g[k - 1] + fields[k].width
    <3>1. CASE k = 0
      <4>1. f[0] = 0
        BY <2>1
      <4> QED BY <3>1, <4>1
    <3>2. CASE k # 0 /\ k <= m
      <4>1. f[k] = f[k - 1] + fields[k].width
        BY <2>1, <3>2
      <4>2. k - 1 \in 0..(m + 1) /\ k - 1 <= m
        BY <3>2
      <4> QED BY <3>2, <4>1, <4>2
    <3>3. CASE k = m + 1
      <4>1. k - 1 = m /\ m \in 0..(m + 1) /\ ~(m + 1 <= m)
        BY <3>3
      <4> QED BY <3>3, <4>1
    <3> QED BY <3>1, <3>2, <3>3
  <2>3. g = [k \in 0..(m + 1) |-> IF k = 0 THEN 0 ELSE g[k - 1] + fields[k].width]
    BY <2>2
  <2> QED BY <2>3
<1> HIDE DEF There
<1>3. Missing = {}
  <2> SUFFICES ASSUME Missing # {} PROVE FALSE
    OBVIOUS
  <2>1. PICK m \in Missing : \A i \in Missing : m <= i
    <3>1. Missing \subseteq Nat
      OBVIOUS
    <3> HIDE DEF Missing
    <3> QED BY <3>1, LeastIsThere
  <2>2. m \in 0..n /\ ~There(m)
    BY <2>1
  <2>3. m # 0
    BY <1>1, <2>2, Zenon
  <2>4. m - 1 \in 0..n /\ m - 1 \in Nat /\ ~(m <= m - 1) /\ (m - 1) + 1 = m
    BY <1>0, <2>2, <2>3
  <2>5. There(m - 1)
    BY <2>1, <2>4
  <2> QED BY <1>2, <2>2, <2>4, <2>5
<1> DEFINE end == S!Ends(fields)
<1>4. IsEnd(end, n)
  <2>1. \E f : IsEnd(f, n)
    <3>1. n \in 0..n
      BY <1>0
    <3> QED BY <1>3, <3>1 DEF There
  <2>2. end = CHOOSE f : IsEnd(f, n)
    BY DEF S!Ends, n
  <2> QED BY <2>1, <2>2
<1> HIDE DEF end
<1>5. end[0] = 0 /\ \A k \in 1..n : end[k] = end[k - 1] + fields[k].width
  <2>1. \A k \in 0..n : end[k] = IF k = 0 THEN 0 ELSE end[k - 1] + fields[k].width
    BY <1>4
  <2>2. end[0] = 0
    <3>1. 0 \in 0..n
      BY <1>0
    <3> QED BY <2>1, <3>1
  <2>3. ASSUME NEW k \in 1..n PROVE end[k] = end[k - 1] + fields[k].width
    <3>1. k \in 0..n /\ k # 0
      BY <1>0
    <3> QED BY <2>1, <3>1
  <2> QED BY <2>2, <2>3
<1> DEFINE Wrong == {k \in 0..n : end[k] \notin Nat}
<1>6. Wrong = {}
  <2> SUFFICES ASSUME Wrong # {} PROVE FALSE
    OBVIOUS
  <2>1. PICK m \in Wrong : \A i \in Wrong : m <= i
    <3>1. Wrong \subseteq Nat
      OBVIOUS
    <3> HIDE DEF Wrong
    <3> QED BY <3>1, LeastIsThere
  <2>2. m \in 1..n /\ end[m] \notin Nat
    <3>1. m \in 0..n /\ end[m] \notin Nat /\ end[0] \in Nat
      BY <1>5, <2>1
    <3> QED BY <3>1
  <2>3. m - 1 \in 0..n /\ ~(m <= m - 1)
    BY <1>0, <2>2
  <2>4. end[m - 1] \in Nat
    BY <2>1, <2>3
  <2>5. fields[m].width \in Nat
    BY <2>2 DEF IsRow, n
  <2> QED BY <1>5, <2>2, <2>4, <2>5
<1> QED BY <1>5, <1>6 DEF end, n

\* The bytes of the first k fields, and of all.
FirstBytes(tag, fields, k) ==
  LET row[i \in 0..Len(fields)] == IF i = 0 THEN <<>> ELSE row[i - 1] \o S!BytesOf(tag, fields[i])
  IN row[k]

LEMMA BytesAre ==
  ASSUME NEW tag, NEW fields, IsRow(fields)
  PROVE  /\ FirstBytes(tag, fields, 0) = <<>>
         /\ \A k \in 1..Len(fields) :
              FirstBytes(tag, fields, k) = FirstBytes(tag, fields, k - 1) \o S!BytesOf(tag, fields[k])
         /\ S!Data(tag, fields) = FirstBytes(tag, fields, Len(fields))
<1> DEFINE n == Len(fields)
           add(s, i) == s \o S!BytesOf(tag, fields[i])
           IsBytes(f, m) == f = [k \in 0..m |-> IF k = 0 THEN <<>> ELSE add(f[k - 1], k)]
           There(m) == \E f : IsBytes(f, m)
           Missing == {m \in 0..n : ~There(m)}
<1>0. n \in Nat
  BY DEF IsRow
<1> HIDE DEF n, add
<1>1. There(0)
  <2> DEFINE f == [k \in 0..0 |-> <<>>]
  <2>1. f = [k \in 0..0 |-> IF k = 0 THEN <<>> ELSE add(f[k - 1], k)]
    OBVIOUS
  <2> HIDE DEF f
  <2> QED BY <2>1
<1>2. ASSUME NEW m \in Nat, There(m) PROVE There(m + 1)
  <2>1. PICK f : IsBytes(f, m)
    BY <1>2
  <2> DEFINE g == [k \in 0..(m + 1) |-> IF k <= m THEN f[k] ELSE add(f[m], m + 1)]
  <2>2. ASSUME NEW k \in 0..(m + 1)
        PROVE  g[k] = IF k = 0 THEN <<>> ELSE add(g[k - 1], k)
    <3>1. CASE k = 0
      <4>1. f[0] = <<>>
        BY <2>1
      <4> QED BY <3>1, <4>1
    <3>2. CASE k # 0 /\ k <= m
      <4>1. f[k] = add(f[k - 1], k)
        BY <2>1, <3>2
      <4>2. k - 1 \in 0..(m + 1) /\ k - 1 <= m
        BY <3>2
      <4> QED BY <3>2, <4>1, <4>2
    <3>3. CASE k = m + 1
      <4>1. k - 1 = m /\ m \in 0..(m + 1) /\ ~(m + 1 <= m)
        BY <3>3
      <4> QED BY <3>3, <4>1
    <3> QED BY <3>1, <3>2, <3>3
  <2>3. g = [k \in 0..(m + 1) |-> IF k = 0 THEN <<>> ELSE add(g[k - 1], k)]
    BY <2>2
  <2> QED BY <2>3
<1> HIDE DEF There
<1>3. Missing = {}
  <2> SUFFICES ASSUME Missing # {} PROVE FALSE
    OBVIOUS
  <2>1. PICK m \in Missing : \A i \in Missing : m <= i
    <3>1. Missing \subseteq Nat
      OBVIOUS
    <3> HIDE DEF Missing
    <3> QED BY <3>1, LeastIsThere
  <2>2. m \in 0..n /\ ~There(m)
    BY <2>1
  <2>3. m # 0
    BY <1>1, <2>2, Zenon
  <2>4. m - 1 \in 0..n /\ m - 1 \in Nat /\ ~(m <= m - 1) /\ (m - 1) + 1 = m
    BY <1>0, <2>2, <2>3
  <2>5. There(m - 1)
    BY <2>1, <2>4
  <2> QED BY <1>2, <2>2, <2>4, <2>5
<1> DEFINE row == CHOOSE f : IsBytes(f, n)
<1>4. IsBytes(row, n)
  <2>1. \E f : IsBytes(f, n)
    <3>1. n \in 0..n
      BY <1>0
    <3> QED BY <1>3, <3>1 DEF There
  <2> QED BY <2>1
<1>5. \A k : FirstBytes(tag, fields, k) = row[k]
  BY DEF FirstBytes, add, n
<1>6. S!Data(tag, fields) = row[n]
  BY DEF S!Data, add, n
<1> HIDE DEF row
<1>7. \A k \in 0..n : row[k] = IF k = 0 THEN <<>> ELSE add(row[k - 1], k)
  BY <1>4
<1> HIDE DEF IsBytes
<1>8. row[0] = <<>>
  <2>1. 0 \in 0..n
    BY <1>0
  <2> QED BY <1>7, <2>1
<1>9. ASSUME NEW k \in 1..n PROVE row[k] = add(row[k - 1], k)
  <2>1. k \in 0..n /\ k # 0
    BY <1>0
  <2> QED BY <1>7, <2>1
<1> QED BY <1>5, <1>6, <1>8, <1>9 DEF n, add

\* Every byte of a row is one of these.
AnyByte(tag, fields) == UNION {{<<S!Name(tag, fields[k]), b>> : b \in 1..fields[k].width} : k \in 1..Len(fields)}

LEMMA BytesOfIs ==
  ASSUME NEW tag, NEW fields, IsRow(fields), NEW k \in 1..Len(fields)
  PROVE  /\ S!BytesOf(tag, fields[k]) \in Seq(AnyByte(tag, fields))
         /\ Len(S!BytesOf(tag, fields[k])) = fields[k].width
<1> DEFINE w == fields[k].width
           any == AnyByte(tag, fields)
           s == S!BytesOf(tag, fields[k])
<1>1. w \in Nat
  BY DEF IsRow
<1>2. s = [b \in 1..w |-> <<S!Name(tag, fields[k]), b>>]
  BY DEF S!BytesOf
<1>3. \A b \in 1..w : <<S!Name(tag, fields[k]), b>> \in any
  BY DEF AnyByte
<1> HIDE DEF any, s, w
<1>4. s \in [1..w -> any]
  BY <1>2, <1>3
<1> QED BY <1>1, <1>4 DEF any, s, w

Begins(tag, fields, k, j) ==
  \A b \in 1..S!Ends(fields)[k] : FirstBytes(tag, fields, j)[b] = FirstBytes(tag, fields, k)[b]

\* The first fields are as long as they end, and a longer row begins with them.
LEMMA BytesGrow ==
  ASSUME NEW tag, NEW fields, IsRow(fields), NEW k \in 0..Len(fields)
  PROVE  \A j \in k..Len(fields) :
           /\ FirstBytes(tag, fields, j) \in Seq(AnyByte(tag, fields))
           /\ Len(FirstBytes(tag, fields, j)) = S!Ends(fields)[j]
           /\ S!Ends(fields)[k] <= S!Ends(fields)[j]
           /\ Begins(tag, fields, k, j)
<1> DEFINE n == Len(fields)
           any == AnyByte(tag, fields)
           row(j) == FirstBytes(tag, fields, j)
           end(j) == S!Ends(fields)[j]
           of(j) == S!BytesOf(tag, fields[j])
           Fine(j) == row(j) \in Seq(any) /\ Len(row(j)) = end(j)
           BeginsSo(j) == end(k) <= end(j) /\ \A b \in 1..end(k) : row(j)[b] = row(k)[b]
<1>a. n \in Nat /\ end(0) = 0 /\ (\A j \in 0..n : end(j) \in Nat)
      /\ \A j \in 1..n : end(j) = end(j - 1) + fields[j].width
  BY EndsAre DEF IsRow
<1>b. row(0) = <<>> /\ \A j \in 1..n : row(j) = row(j - 1) \o of(j)
  BY BytesAre
<1>c. \A j \in 1..n : of(j) \in Seq(any) /\ Len(of(j)) = fields[j].width /\ fields[j].width \in Nat
  BY BytesOfIs DEF IsRow
<1> HIDE DEF n, any, row, end, of
<1>1. /\ n \in Nat /\ \A j \in 0..n : end(j) \in Nat
      /\ end(0) = 0 /\ \A j \in 1..n : end(j) = end(j - 1) + fields[j].width
      /\ row(0) = <<>> /\ \A j \in 1..n : row(j) = row(j - 1) \o of(j)
      /\ \A j \in 1..n : of(j) \in Seq(any) /\ Len(of(j)) = fields[j].width /\ fields[j].width \in Nat
  BY <1>a, <1>b, <1>c
<1>2. Fine(0)
  <2>1. <<>> \in Seq(any) /\ Len(<<>>) = 0
    OBVIOUS
  <2> QED BY <1>a, <1>b, <2>1
<1>3. ASSUME NEW j \in 1..n, Fine(j - 1)
      PROVE  Fine(j) /\ \A b \in 1..end(j - 1) : row(j)[b] = row(j - 1)[b]
  <2>1. row(j) = row(j - 1) \o of(j) /\ of(j) \in Seq(any) /\ Len(of(j)) = fields[j].width
        /\ end(j) = end(j - 1) + fields[j].width
    BY <1>1
  <2> DEFINE s == row(j - 1)
             t == of(j)
  <2>2. s \in Seq(any) /\ Len(s) = end(j - 1) /\ t \in Seq(any)
    BY <1>3, <2>1
  <2> HIDE DEF s, t
  <2>3. s \o t \in Seq(any) /\ Len(s \o t) = Len(s) + Len(t) /\ \A b \in 1..Len(s) : (s \o t)[b] = s[b]
    BY <2>2
  <2> QED BY <2>1, <2>2, <2>3 DEF s, t
<1> HIDE DEF Fine
<1>4. \A j \in 0..n : Fine(j)
  <2> DEFINE Bad == {j \in 0..n : ~Fine(j)}
  <2> SUFFICES ASSUME Bad # {} PROVE FALSE
    OBVIOUS
  <2>1. PICK m \in Bad : \A i \in Bad : m <= i
    <3>1. Bad \subseteq Nat
      OBVIOUS
    <3> HIDE DEF Bad
    <3> QED BY <3>1, LeastIsThere
  <2>2. m \in 0..n /\ ~Fine(m)
    BY <2>1
  <2>3. m # 0
    BY <1>2, <2>2, Zenon
  <2>4. m - 1 \in 0..n /\ ~(m <= m - 1) /\ m \in 1..n
    BY <1>1, <2>2, <2>3
  <2>5. Fine(m - 1)
    BY <2>1, <2>4
  <2> QED BY <1>3, <2>2, <2>4, <2>5
<1>5. ASSUME NEW j \in (k + 1)..n, BeginsSo(j - 1) PROVE BeginsSo(j)
  <2>1. j \in 1..n /\ j - 1 \in 0..n
    BY <1>1
  <2>2. \A b \in 1..end(j - 1) : row(j)[b] = row(j - 1)[b]
    BY <1>3, <1>4, <2>1
  <2>3. end(j - 1) \in Nat /\ end(k) \in Nat /\ end(j) \in Nat /\ end(j - 1) <= end(j)
    <3>1. end(j - 1) \in Nat /\ end(j) \in Nat /\ fields[j].width \in Nat
          /\ end(j) = end(j - 1) + fields[j].width
      BY <1>1, <2>1
    <3>2. end(k) \in Nat
      BY <1>1 DEF n
    <3> QED BY <3>1, <3>2
  <2> QED BY <1>5, <2>2, <2>3
<1>6. BeginsSo(k)
  BY <1>1 DEF n
<1> HIDE DEF BeginsSo
<1>7. \A j \in k..n : BeginsSo(j)
  <2> DEFINE Bad == {j \in k..n : ~BeginsSo(j)}
  <2> SUFFICES ASSUME Bad # {} PROVE FALSE
    OBVIOUS
  <2>1. PICK m \in Bad : \A i \in Bad : m <= i
    <3>1. Bad \subseteq Nat
      BY DEF n
    <3> HIDE DEF Bad
    <3> QED BY <3>1, LeastIsThere
  <2>2. m \in k..n /\ ~BeginsSo(m)
    BY <2>1
  <2>3. m # k
    BY <1>6, <2>2, Zenon
  <2>4. m - 1 \in k..n /\ ~(m <= m - 1) /\ m \in (k + 1)..n
    BY <1>1, <2>2, <2>3
  <2>5. BeginsSo(m - 1)
    BY <2>1, <2>4
  <2> QED BY <1>5, <2>2, <2>4, <2>5
<1>8. \A j \in k..n : j \in 0..n
  BY <1>1 DEF n
<1>9. \A j \in k..n : Begins(tag, fields, k, j)
  BY <1>7 DEF BeginsSo, Begins, row, end
<1> QED BY <1>4, <1>7, <1>8, <1>9 DEF Fine, BeginsSo, n, any, row, end

LEMMA Prefix ==
  ASSUME NEW tag, NEW fields, IsRow(fields), NEW k \in 0..Len(fields), NEW j \in k..Len(fields)
  PROVE  /\ S!Ends(fields)[k] <= S!Ends(fields)[j]
         /\ \A b \in 1..S!Ends(fields)[k] : FirstBytes(tag, fields, j)[b] = FirstBytes(tag, fields, k)[b]
<1>1. S!Ends(fields)[k] <= S!Ends(fields)[j] /\ Begins(tag, fields, k, j)
  BY BytesGrow
<1> QED BY <1>1 DEF Begins

\* A field of which the first bytes of a row are left.
LeftOf(tag, fields, k, left) ==
  [b \in 1..fields[k].width |->
     IF S!Ends(fields)[k - 1] + b <= left THEN S!BytesOf(tag, fields[k])[b] ELSE S!Stray]
Torn(data, left) == [b \in 1..Len(data) |-> IF b <= left THEN data[b] ELSE S!Stray]

\* Fields read from the bytes they were written to come back as far as they are there.
LEMMA ReadsBack ==
  ASSUME NEW tag, NEW fields, IsRow(fields), DOMAIN fields = 1..Len(fields), NEW left
  PROVE  /\ S!FieldsRead(tag, fields, Torn(S!Data(tag, fields), left))
              = {<<S!Name(tag, fields[k]), LeftOf(tag, fields, k, left)>> : k \in DOMAIN fields}
         /\ Len(Torn(S!Data(tag, fields), left)) = S!Ends(fields)[Len(fields)]
         /\ Len(S!Data(tag, fields)) = S!Ends(fields)[Len(fields)]
         /\ \E any : S!Data(tag, fields) \in Seq(any)
<1> DEFINE n == Len(fields)
           any == AnyByte(tag, fields)
           data == S!Data(tag, fields)
           torn == Torn(data, left)
           end(k) == S!Ends(fields)[k]
           of(k) == S!BytesOf(tag, fields[k])
           cut(k) == SubSeq(torn, end(k - 1) + 1, end(k))
           given(k) == LeftOf(tag, fields, k, left)
<1>1. n \in Nat /\ n \in 0..n
  BY DEF IsRow
<1>2. data = FirstBytes(tag, fields, n)
  BY BytesAre
<1>3. data \in Seq(any) /\ Len(data) = end(n)
  BY <1>1, <1>2, BytesGrow
<1>3a. torn \in Seq(any \cup {S!Stray}) /\ Len(torn) = end(n) /\ DOMAIN torn = 1..Len(data)
      /\ \A b \in 1..Len(data) : torn[b] = IF b <= left THEN data[b] ELSE S!Stray
  <2> DEFINE some == any \cup {S!Stray}
             stray == S!Stray
             m == Len(data)
  <2> HIDE DEF data, any, stray
  <2>1. m \in Nat /\ \A b \in 1..m : data[b] \in any
    BY <1>3
  <2>2. torn = [b \in 1..m |-> IF b <= left THEN data[b] ELSE stray]
    BY DEF Torn, stray
  <2>3. \A b \in 1..m : (IF b <= left THEN data[b] ELSE stray) \in some
    BY <2>1 DEF stray
  <2> HIDE DEF some, m
  <2>4. torn \in Seq(some) /\ Len(torn) = m
    BY <2>1, <2>2, <2>3, IsASeq
  <2> QED BY <1>3, <2>2, <2>4 DEF m, some, stray
<1>4. ASSUME NEW k \in 1..n PROVE end(k) <= Len(torn) /\ cut(k) = given(k)
  <2> DEFINE s == FirstBytes(tag, fields, k - 1)
             t == FirstBytes(tag, fields, k)
  <2>1. k \in 0..n /\ k - 1 \in 0..n /\ n \in k..n /\ k - 1 \in (k - 1)..n /\ k \in k..n
    BY <1>1
  <2>2. end(k) <= end(n) /\ \A b \in 1..end(k) : data[b] = t[b]
    <3>1. k \in 0..Len(fields)
      BY <2>1
    <3>2. /\ S!Ends(fields)[k] <= S!Ends(fields)[n]
          /\ \A b \in 1..S!Ends(fields)[k] : FirstBytes(tag, fields, n)[b] = FirstBytes(tag, fields, k)[b]
      BY <2>1, <3>1, Prefix
    <3> HIDE DEF data
    <3> QED BY <1>2, <3>2
  <2>3. s \in Seq(any) /\ Len(s) = end(k - 1)
    BY <2>1, BytesGrow
  <2>4. t = s \o of(k)
    BY BytesAre
  <2>5. of(k) \in Seq(any) /\ Len(of(k)) = fields[k].width
    BY BytesOfIs
  <2>6. end(k - 1) \in Nat /\ end(k) \in Nat /\ fields[k].width \in Nat /\ end(k) = end(k - 1) + fields[k].width
    BY <2>1, EndsAre DEF IsRow
  <2> HIDE DEF s, t, data, torn, any, end, of, n, given
  <2>7. cut(k) = [i \in 1..fields[k].width |-> torn[i + end(k - 1)]]
    <3> DEFINE a == end(k - 1)
               w == fields[k].width
    <3>1. cut(k) = SubSeq(torn, a + 1, a + w) /\ a \in Nat /\ w \in Nat /\ a + w <= Len(torn)
      BY <1>3a, <1>3, <2>2, <2>6
    <3> HIDE DEF a, w, cut
    <3>2. a + 1 \in 1..(Len(torn) + 1) /\ a + w \in ((a + 1) - 1)..Len(torn)
          /\ ((a + w) - (a + 1)) + 1 = w /\ \A i \in 1..w : (a + 1 + i) - 1 = i + a
      BY <1>3a, <1>3, <3>1
    <3> DEFINE c == SubSeq(torn, a + 1, a + w)
    <3>3. c \in Seq(any \cup {S!Stray}) /\ Len(c) = w /\ \A i \in 1..w : c[i] = torn[i + a]
      BY <1>3a, <1>3, <3>1, <3>2, SubSeqProperties
    <3> HIDE DEF c
    <3>4. c = [i \in 1..w |-> torn[i + a]]
      BY <3>3
    <3> QED BY <3>1, <3>4 DEF a, w, c
  <2>8. ASSUME NEW i \in 1..fields[k].width PROVE data[i + end(k - 1)] = of(k)[i]
    <3>1. i + end(k - 1) \in 1..end(k)
      BY <2>6
    <3>2. data[i + end(k - 1)] = t[i + end(k - 1)]
      BY <2>2, <3>1
    <3>3. t[Len(s) + i] = of(k)[i]
      <4> DEFINE c == of(k)
      <4>1. t = s \o c /\ s \in Seq(any) /\ c \in Seq(any) /\ i \in 1..Len(c)
        BY <2>3, <2>4, <2>5
      <4>2. Len(s) \in Nat /\ Len(c) \in Nat /\ t[Len(s) + i] = c[(Len(s) + i) - Len(s)]
        <5> HIDE DEF c
        <5>1. Len(s) \in Nat /\ Len(c) \in Nat
          BY <4>1, LenProperties
        <5>2. Len(s) + i \in 1..(Len(s) + Len(c)) /\ ~(Len(s) + i <= Len(s))
          BY <4>1, <5>1
        <5> QED BY <4>1, <5>1, <5>2, ConcatProperties
      <4> HIDE DEF c
      <4>3. (Len(s) + i) - Len(s) = i
        BY <4>1, <4>2
      <4> QED BY <4>2, <4>3 DEF c
    <3>4. Len(s) + i = i + end(k - 1)
      BY <2>3, <2>6
    <3> QED BY <3>2, <3>3, <3>4
  <2>9. ASSUME NEW i \in 1..fields[k].width
        PROVE  torn[i + end(k - 1)] = IF end(k - 1) + i <= left THEN of(k)[i] ELSE S!Stray
    <3>1. i + end(k - 1) \in 1..Len(data) /\ i + end(k - 1) = end(k - 1) + i
      BY <1>3, <2>2, <2>6
    <3> QED BY <1>3a, <2>8, <3>1
  <2>10. given(k) = [i \in 1..fields[k].width |->
                       IF end(k - 1) + i <= left THEN of(k)[i] ELSE S!Stray]
    BY DEF given, LeftOf, of, end
  <2>11. cut(k) = given(k)
    BY <2>7, <2>9, <2>10
  <2> QED BY <1>3a, <1>3, <2>2, <2>11
<1> HIDE DEF data, torn, end, of, any, cut, given
<1>5. {k \in DOMAIN fields : end(k) <= Len(torn)} = DOMAIN fields
  BY <1>4
<1>6. {<<S!Name(tag, fields[k]), cut(k)>> : k \in DOMAIN fields}
        = {<<S!Name(tag, fields[k]), given(k)>> : k \in DOMAIN fields}
  BY <1>4
<1>7. S!FieldsRead(tag, fields, torn)
        = {<<S!Name(tag, fields[k]), cut(k)>> : k \in {k \in DOMAIN fields : end(k) <= Len(torn)}}
  BY DEF S!FieldsRead, cut, end
<1> QED BY <1>3a, <1>3, <1>5, <1>6, <1>7 DEF data, torn, end, given

(***************************************************************************)
(* The lists of fields are rows, and loaders list what savers list.        *)
(***************************************************************************)
AnyField(names) == [name : names, index : Nat, width : Nat]
Row(fields) == \E names : fields \in Seq(AnyField(names))
Names(names) == \E set : names \in Seq(set)

LEMMA RowsAreRows ==
  ASSUME NEW fields, Row(fields) PROVE IsRow(fields) /\ DOMAIN fields = 1..Len(fields)
<1>1. PICK names : fields \in Seq(AnyField(names))
  BY DEF Row
<1>2. Len(fields) \in Nat /\ DOMAIN fields = 1..Len(fields) /\ \A k \in 1..Len(fields) : fields[k] \in AnyField(names)
  BY <1>1
<1>3. \A f \in AnyField(names) : f.width \in Nat
  BY DEF AnyField
<1> QED BY <1>2, <1>3 DEF IsRow

LEMMA RowsJoin ==
  ASSUME NEW s, NEW t, Row(s), Row(t) PROVE Row(s \o t)
<1>1. PICK a : s \in Seq(AnyField(a))
  BY DEF Row
<1>2. PICK b : t \in Seq(AnyField(b))
  BY DEF Row
<1> DEFINE c == a \cup b
           all == AnyField(c)
<1>3. AnyField(a) \subseteq all /\ AnyField(b) \subseteq all
  BY DEF AnyField
<1> HIDE DEF all
<1>4. s \in Seq(all) /\ t \in Seq(all)
  BY <1>1, <1>2, <1>3
<1>5. s \o t \in Seq(all)
  BY <1>4
<1> QED BY <1>5 DEF Row, all

LEMMA IndexedIsRow ==
  ASSUME NEW width \in Nat, NEW names, Names(names), NEW i \in Nat
  PROVE  Row(S!Indexed(width, names, i))
<1>1. PICK set : names \in Seq(set)
  BY DEF Names
<1> DEFINE n == Len(names)
           s == S!Indexed(width, names, i)
           all == AnyField(set)
<1>2. n \in Nat /\ DOMAIN names = 1..n /\ \A k \in 1..n : names[k] \in set
  BY <1>1
<1>3. s = [k \in 1..n |-> [name |-> names[k], index |-> i, width |-> width]]
  BY <1>2 DEF S!Indexed
<1> HIDE DEF s, n
<1>4. \A k \in 1..n : [name |-> names[k], index |-> i, width |-> width] \in all
  BY <1>2 DEF AnyField
<1> HIDE DEF all
<1>5. s \in [1..n -> all]
  BY <1>3, <1>4
<1>6. s \in Seq(all)
  BY <1>2, <1>5
<1> QED BY <1>6 DEF s, all, Row

LEMMA EachIsRow ==
  ASSUME NEW n \in Nat, NEW row, Row(row) PROVE Row(S!Each(n, row))
<1>0. PICK names : row \in Seq(AnyField(names))
  BY DEF Row
<1> DEFINE m == Len(row)
           s == S!Each(n, row)
           all == AnyField(names)
           of(k) == [row[((k - 1) % m) + 1] EXCEPT !.index = ((k - 1) \div m) + 1]
<1>1. m \in Nat /\ n * m \in Nat
  BY <1>0
<1>2. s = [k \in 1..(n * m) |-> of(k)]
  BY DEF S!Each
<1> HIDE DEF m, s
<1>3. ASSUME NEW k \in 1..(n * m) PROVE of(k) \in all
  <2>1. m > 0
    <3>1. CASE m = 0
      <4>1. n * m = 0
        BY <3>1
      <4> QED BY <4>1
    <3> QED BY <1>1, <3>1
  <2>2. ((k - 1) % m) + 1 \in 1..m /\ ((k - 1) \div m) + 1 \in Nat
    <3> DEFINE x == k - 1
    <3>1. x \in Nat
      BY <1>1
    <3> HIDE DEF x
    <3>2. x % m \in 0..(m - 1) /\ x \div m \in Nat
      BY <1>1, <2>1, <3>1
    <3> QED BY <1>1, <3>2 DEF x
  <2>3. row[((k - 1) % m) + 1] \in all
    BY <1>0, <2>2 DEF m
  <2> QED BY <2>2, <2>3 DEF AnyField
<1> HIDE DEF all, of
<1>4. s \in [1..(n * m) -> all]
  BY <1>2, <1>3
<1>5. s \in Seq(all)
  BY <1>1, <1>4
<1> QED BY <1>5 DEF s, all, Row

LEMMA SaveSizes == Banks = 5 /\ Interrupts \in Nat /\ Memory \in Nat
BY SaveAssumption DEF S!SaveOK

\* SavedFields of a size in a row, for every row of names.
LEMMA TypesAreRows ==
  ASSUME NEW names, Names(names)
  PROVE  /\ Row(S!Chars(names)) /\ Row(S!Shorts(names)) /\ Row(S!Ints(names))
         /\ Row(S!Longs(names)) /\ Row(S!Doubles(names))
BY IndexedIsRow DEF S!Chars, S!Shorts, S!Ints, S!Longs, S!Doubles

LEMMA BlockIsRow == ASSUME NEW name PROVE Row(S!Block(name))
<1>1. <<name>> \in Seq({name})
  OBVIOUS
<1>2. Names(<<name>>)
  BY <1>1 DEF Names
<1> QED BY <1>2, IndexedIsRow, SaveSizes DEF S!Block

\* The lists of names in the savers, by their lengths.
LEMMA Names1 == ASSUME NEW a
  PROVE Names(<<a>>)
<1>1. <<a>> \in Seq({a})
  OBVIOUS
<1> QED BY <1>1 DEF Names

LEMMA Names2 == ASSUME NEW a, NEW b
  PROVE Names(<<a, b>>)
<1>1. <<a, b>> \in Seq({a, b})
  OBVIOUS
<1> QED BY <1>1 DEF Names

LEMMA Names3 == ASSUME NEW a, NEW b, NEW c
  PROVE Names(<<a, b, c>>)
<1>1. <<a, b, c>> \in Seq({a, b, c})
  OBVIOUS
<1> QED BY <1>1 DEF Names

LEMMA Names4 == ASSUME NEW a, NEW b, NEW c, NEW d
  PROVE Names(<<a, b, c, d>>)
<1>1. <<a, b, c, d>> \in Seq({a, b, c, d})
  OBVIOUS
<1> QED BY <1>1 DEF Names

LEMMA Names5 == ASSUME NEW a, NEW b, NEW c, NEW d, NEW e
  PROVE Names(<<a, b, c, d, e>>)
<1>1. <<a, b, c, d, e>> \in Seq({a, b, c, d, e})
  OBVIOUS
<1> QED BY <1>1 DEF Names

LEMMA Names6 == ASSUME NEW a, NEW b, NEW c, NEW d, NEW e, NEW f
  PROVE Names(<<a, b, c, d, e, f>>)
<1>1. <<a, b, c, d, e, f>> \in Seq({a, b, c, d, e, f})
  OBVIOUS
<1> QED BY <1>1 DEF Names

LEMMA Names7 == ASSUME NEW a, NEW b, NEW c, NEW d, NEW e, NEW f, NEW g
  PROVE Names(<<a, b, c, d, e, f, g>>)
<1>1. <<a, b, c, d, e, f, g>> \in Seq({a, b, c, d, e, f, g})
  OBVIOUS
<1> QED BY <1>1 DEF Names

LEMMA Names8 == ASSUME NEW a, NEW b, NEW c, NEW d, NEW e, NEW f, NEW g, NEW h
  PROVE Names(<<a, b, c, d, e, f, g, h>>)
<1>1. <<a, b, c, d, e, f, g, h>> \in Seq({a, b, c, d, e, f, g, h})
  OBVIOUS
<1> QED BY <1>1 DEF Names

LEMMA Names11 == ASSUME NEW a, NEW b, NEW c, NEW d, NEW e, NEW f, NEW g, NEW h, NEW i, NEW j, NEW k
  PROVE Names(<<a, b, c, d, e, f, g, h, i, j, k>>)
<1>1. <<a, b, c, d, e, f, g, h, i, j, k>> \in Seq({a, b, c, d, e, f, g, h, i, j, k})
  OBVIOUS
<1> QED BY <1>1 DEF Names

LEMMA Names20 == ASSUME NEW a, NEW b, NEW c, NEW d, NEW e, NEW f, NEW g, NEW h, NEW i, NEW j, NEW k, NEW l, NEW m, NEW n, NEW o, NEW p, NEW q, NEW r, NEW s, NEW t
  PROVE Names(<<a, b, c, d, e, f, g, h, i, j, k, l, m, n, o, p, q, r, s, t>>)
<1>1. <<a, b, c, d, e, f, g, h, i, j, k, l, m, n, o, p, q, r, s, t>> \in Seq({a, b, c, d, e, f, g, h, i, j, k, l, m, n, o, p, q, r, s, t})
  OBVIOUS
<1> QED BY <1>1 DEF Names

LEMMA CpuIsRow == Row(S!SaveCPU)
BY RowsJoin, TypesAreRows, EachIsRow, BlockIsRow, Names1, Names2, Names3, Names4, Names5, Names6, Names7, Names8, Names11, Names20,
   SaveSizes, Zenon DEF S!SaveCPU

LEMMA MemIsRow == Row(S!SaveMEM)
BY RowsJoin, TypesAreRows, EachIsRow, BlockIsRow, Names1, Names2, Names3, Names4, Names5, Names6, Names7, Names8, Names11, Names20,
   SaveSizes, Zenon DEF S!SaveMEM

LEMMA RemapsIsRow == Row(S!SaveRemaps)
BY RowsJoin, TypesAreRows, EachIsRow, BlockIsRow, Names1, Names2, Names3, Names4, Names5, Names6, Names7, Names8, Names11, Names20,
   SaveSizes, Zenon DEF S!SaveRemaps

LEMMA LimitsIsRow == Row(S!SaveLimits)
BY RowsJoin, TypesAreRows, EachIsRow, BlockIsRow, Names1, Names2, Names3, Names4, Names5, Names6, Names7, Names8, Names11, Names20,
   SaveSizes, Zenon DEF S!SaveLimits

LEMMA TimerIsRow == Row(S!SaveTIMER)
BY RowsJoin, TypesAreRows, EachIsRow, BlockIsRow, Names1, Names2, Names3, Names4, Names5, Names6, Names7, Names8, Names11, Names20,
   SaveSizes, Zenon DEF S!SaveTIMER

LEMMA LcdIsRow == Row(S!SaveLCD)
BY RowsJoin, TypesAreRows, EachIsRow, BlockIsRow, Names1, Names2, Names3, Names4, Names5, Names6, Names7, Names8, Names11, Names20,
   SaveSizes, Zenon DEF S!SaveLCD, S!Times

LEMMA ColorLcdIsRow == Row(S!SaveColorLCD)
BY RowsJoin, TypesAreRows, EachIsRow, BlockIsRow, Names1, Names2, Names3, Names4, Names5, Names6, Names7, Names8, Names11, Names20,
   SaveSizes, Zenon DEF S!SaveColorLCD, S!Times

LEMMA LinkIsRow == Row(S!SaveLINK)
BY RowsJoin, TypesAreRows, EachIsRow, BlockIsRow, Names1, Names2, Names3, Names4, Names5, Names6, Names7, Names8, Names11, Names20,
   SaveSizes, Zenon DEF S!SaveLINK

LEMMA KeypadIsRow == Row(S!SaveKeypad)
BY RowsJoin, TypesAreRows, EachIsRow, BlockIsRow, Names1, Names2, Names3, Names4, Names5, Names6, Names7, Names8, Names11, Names20,
   SaveSizes, Zenon DEF S!SaveKeypad

LEMMA StdIntIsRow == Row(S!SaveSTDINT)
BY RowsJoin, TypesAreRows, EachIsRow, BlockIsRow, Names1, Names2, Names3, Names4, Names5, Names6, Names7, Names8, Names11, Names20,
   SaveSizes, Zenon DEF S!SaveSTDINT

LEMMA AssistIsRow == Row(S!SaveLinkAssist)
BY RowsJoin, TypesAreRows, EachIsRow, BlockIsRow, Names1, Names2, Names3, Names4, Names5, Names6, Names7, Names8, Names11, Names20,
   SaveSizes, Zenon DEF S!SaveLinkAssist

LEMMA ClockIsRow == Row(S!Clock)
BY RowsJoin, TypesAreRows, EachIsRow, BlockIsRow, Names1, Names2, Names3, Names4, Names5, Names6, Names7, Names8, Names11, Names20,
   SaveSizes, Zenon DEF S!Clock

LEMMA DelaysIsRow == Row(S!Delays)
BY RowsJoin, TypesAreRows, EachIsRow, BlockIsRow, Names1, Names2, Names3, Names4, Names5, Names6, Names7, Names8, Names11, Names20,
   SaveSizes, Zenon DEF S!Delays

LEMMA Md5IsRow == Row(S!Md5)
BY RowsJoin, TypesAreRows, EachIsRow, BlockIsRow, Names1, Names2, Names3, Names4, Names5, Names6, Names7, Names8, Names11, Names20,
   SaveSizes, Zenon DEF S!Md5

LEMMA XtalIsRow == Row(S!Xtal)
BY RowsJoin, TypesAreRows, EachIsRow, BlockIsRow, Names1, Names2, Names3, Names4, Names5, Names6, Names7, Names8, Names11, Names20,
   SaveSizes, Zenon DEF S!Xtal

LEMMA UsbIsRow == Row(S!SaveUSB)
BY RowsJoin, TypesAreRows, EachIsRow, BlockIsRow, Names1, Names2, Names3, Names4, Names5, Names6, Names7, Names8, Names11, Names20,
   SaveSizes, Zenon DEF S!SaveUSB

LEMMA AuxIsRow == Row(S!SaveSE_AUX)
BY RowsJoin, ClockIsRow, AssistIsRow, DelaysIsRow, Md5IsRow, XtalIsRow, Zenon DEF S!SaveSE_AUX

Tags == {"CPU", "MEMC", "ROM", "RAM", "RMAP", "RMLM", "TIME", "LCD", "LINK", "KEYS", "STDI", "SEAX", "USB"}

LEMMA SavedIsRow == ASSUME NEW tag \in Tags PROVE Row(S!Saved(tag))
BY CpuIsRow, MemIsRow, RemapsIsRow, LimitsIsRow, TimerIsRow, LcdIsRow, ColorLcdIsRow, LinkIsRow,
   KeypadIsRow, StdIntIsRow, AssistIsRow, UsbIsRow, AuxIsRow, BlockIsRow DEF Tags, S!Saved

\* The loaders of all chunks but the SE's read the fields the savers write.
LEMMA LoadersAreSavers ==
  /\ S!LoadCPU = S!SaveCPU /\ S!LoadMEM = S!SaveMEM /\ S!LoadRemaps = S!SaveRemaps
  /\ S!LoadLimits = S!SaveLimits /\ S!LoadTIMER = S!SaveTIMER /\ S!LoadLCD = S!SaveLCD
  /\ S!LoadColorLCD = S!SaveColorLCD /\ S!LoadLINK = S!SaveLINK /\ S!LoadKeypad = S!SaveKeypad
  /\ S!LoadSTDINT = S!SaveSTDINT /\ S!LoadLinkAssist = S!SaveLinkAssist /\ S!LoadUSB = S!SaveUSB
<1>1. S!LoadCPU = S!SaveCPU
  BY DEF S!LoadCPU, S!SaveCPU
<1>2. S!LoadMEM = S!SaveMEM
  BY SaveSizes DEF S!LoadMEM, S!SaveMEM
<1>3. S!LoadRemaps = S!SaveRemaps /\ S!LoadLimits = S!SaveLimits /\ S!LoadTIMER = S!SaveTIMER
  BY DEF S!LoadRemaps, S!SaveRemaps, S!LoadLimits, S!SaveLimits, S!LoadTIMER, S!SaveTIMER
<1>4. S!LoadLCD = S!SaveLCD
  BY DEF S!LoadLCD, S!SaveLCD, S!Times
<1>5. S!LoadColorLCD = S!SaveColorLCD
  BY DEF S!LoadColorLCD, S!SaveColorLCD, S!Times
<1>6. S!LoadLINK = S!SaveLINK /\ S!LoadKeypad = S!SaveKeypad /\ S!LoadSTDINT = S!SaveSTDINT
  BY DEF S!LoadLINK, S!SaveLINK, S!LoadKeypad, S!SaveKeypad, S!LoadSTDINT, S!SaveSTDINT
<1>7. S!LoadLinkAssist = S!SaveLinkAssist /\ S!LoadUSB = S!SaveUSB
  BY DEF S!LoadLinkAssist, S!SaveLinkAssist, S!LoadUSB, S!SaveUSB
<1> QED BY <1>1, <1>2, <1>3, <1>4, <1>5, <1>6, <1>7

\* The chunk that is loaded in another order than it is saved.
Misread == IF model = "83P" THEN {} ELSE {"SEAX"}

LEMMA LoadedIsSaved == ASSUME NEW tag \in Tags \ Misread PROVE S!Loaded(tag) = S!Saved(tag)
BY LoadersAreSavers DEF Tags, Misread, S!Loaded, S!Saved

\* The fields of a chunk as far as the file has them, and those of a chunk in the slot.
SavedFields(tag) == {<<S!Name(tag, S!Saved(tag)[k]), S!Kept(tag, k)>> : k \in DOMAIN S!Saved(tag)}
InSlot(tag) == {field \in slot : field[1][1] = tag}
LeftIn(tag) == Len(S!Data(tag, S!Saved(tag))) - S!Lost(tag)
Written(tag) == Torn(S!Data(tag, S!Saved(tag)), LeftIn(tag))

LEMMA SavedReadsBack ==
  ASSUME NEW tag \in Tags
  PROVE  /\ S!FieldsRead(tag, S!Saved(tag), Written(tag)) = SavedFields(tag)
         /\ Len(Written(tag)) = S!Ends(S!Saved(tag))[Len(S!Saved(tag))]
         /\ Len(Written(tag)) = Len(S!Data(tag, S!Saved(tag)))
         /\ Len(S!Data(tag, S!Saved(tag))) \in Nat
         /\ \E any : S!Data(tag, S!Saved(tag)) \in Seq(any)
<1> DEFINE f == S!Saved(tag)
           left == LeftIn(tag)
<1>1. IsRow(f) /\ DOMAIN f = 1..Len(f)
  BY SavedIsRow, RowsAreRows
<1>2. \A k : S!Kept(tag, k) = LeftOf(tag, f, k, left)
  BY DEF S!Kept, LeftOf, LeftIn
<1>3. SavedFields(tag) = {<<S!Name(tag, f[k]), LeftOf(tag, f, k, left)>> : k \in DOMAIN f}
  BY <1>2 DEF SavedFields
<1>4. Written(tag) = Torn(S!Data(tag, f), left)
  BY DEF Written
<1> HIDE DEF f, left
<1>5. /\ S!FieldsRead(tag, f, Torn(S!Data(tag, f), left))
              = {<<S!Name(tag, f[k]), LeftOf(tag, f, k, left)>> : k \in DOMAIN f}
      /\ Len(Torn(S!Data(tag, f), left)) = S!Ends(f)[Len(f)]
      /\ Len(S!Data(tag, f)) = S!Ends(f)[Len(f)]
  BY <1>1, ReadsBack
<1>6. PICK any : S!Data(tag, f) \in Seq(any)
  BY <1>1, ReadsBack
<1>7. Len(S!Data(tag, f)) \in Nat
  BY <1>6
<1> QED BY <1>3, <1>4, <1>5, <1>6, <1>7 DEF f

\* Of a file that has lost nothing, all is written.
LEMMA NothingLost ==
  ASSUME NEW tag \in Tags, missing = 0
  PROVE  Written(tag) = S!Data(tag, S!Saved(tag))
<1> DEFINE data == S!Data(tag, S!Saved(tag))
<1>1. PICK any : data \in Seq(any)
  BY SavedReadsBack
<1>2. LeftIn(tag) = Len(data) - 0
  BY DEF LeftIn, S!Lost
<1> HIDE DEF data
<1>3. Len(data) - 0 = Len(data) /\ \A b \in 1..Len(data) : b <= Len(data)
  BY <1>1
<1>4. Torn(data, Len(data)) = [b \in 1..Len(data) |-> data[b]]
  BY <1>3 DEF Torn
<1>5. data = [b \in 1..Len(data) |-> data[b]]
  BY <1>1
<1> QED BY <1>2, <1>3, <1>4, <1>5 DEF Written, data

LEMMA ReadIsOfTag ==
  ASSUME NEW tag, NEW fields, NEW data
  PROVE  \A pair \in S!FieldsRead(tag, fields, data) : pair[1][1] = tag
BY DEF S!FieldsRead, S!Name

(***************************************************************************)
(* The invariant: a chunk of the file is as it was saved, but for the      *)
(* bytes that a cut has lost, or shorter, and while a load goes on the     *)
(* slot has the fields of the chunks read so far, as the file has them,    *)
(* and none of those to come.                                              *)
(***************************************************************************)
Whole(tag) == file[tag] = Written(tag)
Short(tag) == Len(file[tag]) \in Nat /\ Len(file[tag]) < Len(S!Data(tag, S!Saved(tag)))
Skipped(tag) == tag \in Misread \/ (tag = "USB" /\ model # "83P" /\ "SEAX" \notin DOMAIN file)

FileKept == at # "start" => \A tag \in Tags \cap DOMAIN file : Whole(tag) \/ Short(tag)
SlotKept ==
  at \in {"saved", "loaded"} =>
    /\ \A i \in 1..13 : i < next /\ S!Order[i] \in DOMAIN file /\ ~Skipped(S!Order[i])
                          => InSlot(S!Order[i]) = SavedFields(S!Order[i])
    /\ \A i \in 1..13 : next <= i => InSlot(S!Order[i]) = {}
SaveInv ==
  /\ at \in {"start", "saved", "loaded", "failed"} /\ next \in 1..14
  /\ at = "loaded" => next > S!Final
  /\ FileKept /\ SlotKept

LEMMA OrderIsOfTags ==
  /\ \A i \in 1..13 : S!Order[i] \in Tags
  /\ \A tag \in Tags : \E i \in 1..13 : S!Order[i] = tag
  /\ \A tag \in S!Chunks : \E i \in 1..S!Final : S!Order[i] = tag
  /\ S!Final \in 1..13 /\ S!Chunks \subseteq Tags
  /\ S!Order[12] = "SEAX" /\ S!Order[13] = "USB"
<1>1. \A i \in 1..13 : i = 1 \/ i = 2 \/ i = 3 \/ i = 4 \/ i = 5 \/ i = 6 \/ i = 7 \/ i = 8 \/ i = 9
                       \/ i = 10 \/ i = 11 \/ i = 12 \/ i = 13
  OBVIOUS
<1>2. /\ S!Order[1] = "CPU" /\ S!Order[2] = "MEMC" /\ S!Order[3] = "ROM" /\ S!Order[4] = "RAM"
      /\ S!Order[5] = "RMAP" /\ S!Order[6] = "RMLM" /\ S!Order[7] = "TIME" /\ S!Order[8] = "LCD"
      /\ S!Order[9] = "LINK" /\ S!Order[10] = "KEYS" /\ S!Order[11] = "STDI" /\ S!Order[12] = "SEAX"
      /\ S!Order[13] = "USB"
  BY DEF S!Order
<1>3. \A i \in 1..13 : S!Order[i] \in Tags
  BY <1>1, <1>2 DEF Tags
<1>4. ASSUME NEW tag \in Tags PROVE \E i \in 1..13 : S!Order[i] = tag /\ (tag # "USB" => i \in 1..12)
  <2>1. \/ tag = S!Order[1] \/ tag = S!Order[2] \/ tag = S!Order[3] \/ tag = S!Order[4]
        \/ tag = S!Order[5] \/ tag = S!Order[6] \/ tag = S!Order[7] \/ tag = S!Order[8]
        \/ tag = S!Order[9] \/ tag = S!Order[10] \/ tag = S!Order[11] \/ tag = S!Order[12]
        \/ tag = S!Order[13] /\ tag = "USB"
    BY <1>2 DEF Tags
  <2> QED BY <2>1
<1>5. CASE model = "83P"
  <2>1. S!Final = 12
    BY <1>5 DEF S!Final
  <2>2. \A tag \in S!Chunks : tag \in Tags /\ tag # "USB"
    BY <1>5 DEF S!Chunks, Tags
  <2>3. \A tag \in S!Chunks : \E i \in 1..S!Final : S!Order[i] = tag
    BY <1>4, <2>1, <2>2
  <2> QED BY <1>2, <1>3, <1>4, <2>1, <2>2, <2>3
<1>6. CASE model # "83P"
  <2>1. S!Final = 13
    BY <1>6 DEF S!Final
  <2>2. \A tag \in S!Chunks : tag \in Tags
    BY <1>6 DEF S!Chunks, Tags
  <2>3. \A tag \in S!Chunks : \E i \in 1..S!Final : S!Order[i] = tag
    BY <1>4, <2>1, <2>2
  <2> QED BY <1>2, <1>3, <1>4, <2>1, <2>2, <2>3
<1> QED BY <1>5, <1>6

LEMMA OrderIsOnce == \A i, j \in 1..13 : S!Order[i] = S!Order[j] => i = j
<1>1. /\ S!Order[1] = "CPU" /\ S!Order[2] = "MEMC" /\ S!Order[3] = "ROM" /\ S!Order[4] = "RAM"
      /\ S!Order[5] = "RMAP" /\ S!Order[6] = "RMLM" /\ S!Order[7] = "TIME" /\ S!Order[8] = "LCD"
      /\ S!Order[9] = "LINK" /\ S!Order[10] = "KEYS" /\ S!Order[11] = "STDI" /\ S!Order[12] = "SEAX"
      /\ S!Order[13] = "USB"
  BY DEF S!Order
<1>2. \A i \in 1..13 : i = 1 \/ i = 2 \/ i = 3 \/ i = 4 \/ i = 5 \/ i = 6 \/ i = 7 \/ i = 8 \/ i = 9
                       \/ i = 10 \/ i = 11 \/ i = 12 \/ i = 13
  OBVIOUS
<1> QED BY <1>1, <1>2

LEMMA SaveBegins == S!Init => SaveInv
BY DEF S!Init, SaveInv, FileKept, SlotKept

LEMMA SaveRestores == SaveInv => S!RestoredAsSaved
<1> SUFFICES ASSUME SaveInv, at = "loaded",
                    NEW tag \in S!Chunks \ ((IF model = "83P" THEN {} ELSE {"SEAX"})
                                              \cup (IF "SEAX" \in DOMAIN file THEN {} ELSE {"USB"})),
                    tag \in DOMAIN file
             PROVE  InSlot(tag) = SavedFields(tag)
  BY DEF S!RestoredAsSaved, S!Restored, InSlot, SavedFields
<1>1. PICK i \in 1..S!Final : S!Order[i] = tag
  BY OrderIsOfTags
<1>2. S!Final \in 1..13 /\ S!Final < next /\ next \in 1..14
  BY OrderIsOfTags DEF SaveInv
<1>3. i \in 1..13 /\ i < next
  <2> DEFINE f == S!Final
  <2> HIDE DEF f
  <2>1. i \in 1..f /\ f \in 1..13 /\ f < next /\ next \in 1..14
    BY <1>1, <1>2 DEF f
  <2> QED BY <2>1
<1>4. ~Skipped(tag)
  BY DEF Skipped, Misread
<1> QED BY <1>1, <1>3, <1>4 DEF SaveInv, SlotKept

\* What a tag names while the model does not change.
LEMMA ModelKept ==
  ASSUME model' = model
  PROVE  /\ S!Final' = S!Final /\ Misread' = Misread /\ S!Chunks' = S!Chunks
         /\ \A tag : S!Saved(tag)' = S!Saved(tag) /\ S!Data(tag, S!Saved(tag))' = S!Data(tag, S!Saved(tag))
<1>1. \A tag : S!Saved(tag)' = S!Saved(tag)
  BY DEF S!Saved
<1>2. \A tag : S!Data(tag, S!Saved(tag))' = S!Data(tag, S!Saved(tag))
  BY <1>1
<1> QED BY <1>1, <1>2 DEF S!Final, Misread, S!Chunks

LEMMA FileStays ==
  ASSUME model' = model, missing' = missing
  PROVE  \A tag : Written(tag)' = Written(tag) /\ SavedFields(tag)' = SavedFields(tag)
<1>1. \A tag : S!Lost(tag)' = S!Lost(tag)
  BY ModelKept DEF S!Lost
<1>2. \A tag : LeftIn(tag)' = LeftIn(tag)
  BY <1>1, ModelKept DEF LeftIn
<1>3. \A tag : Written(tag)' = Written(tag)
  BY <1>2, ModelKept DEF Written
<1>4. \A tag, k : S!Kept(tag, k)' = S!Kept(tag, k)
  BY <1>1, ModelKept DEF S!Kept
<1>5. \A tag : SavedFields(tag)' = SavedFields(tag)
  BY <1>4, ModelKept DEF SavedFields
<1> QED BY <1>3, <1>5

\* A step that leaves the slot's model, save and fields alone keeps the invariant.
LEMMA SaveUntouched == SaveInv /\ UNCHANGED <<model, file, missing, slot, at, next>> => SaveInv'
<1> SUFFICES ASSUME SaveInv, UNCHANGED <<model, file, missing, slot, at, next>> PROVE SaveInv'
  OBVIOUS
<1>1. FileKept'
  BY FileStays, ModelKept DEF SaveInv, FileKept, Whole, Short
<1>2. SlotKept'
  BY FileStays, ModelKept DEF SaveInv, SlotKept, InSlot, Skipped
<1> QED BY <1>1, <1>2, ModelKept DEF SaveInv

LEMMA SaveSlotKeeps == SaveInv /\ S!SaveSlot => SaveInv'
<1> SUFFICES ASSUME SaveInv, S!SaveSlot PROVE SaveInv'
  OBVIOUS
<1>1. model' = model /\ file' = [tag \in S!Chunks |-> S!Data(tag, S!Saved(tag))]
      /\ at' = "saved" /\ missing' = 0 /\ slot' = {} /\ next' = 1
  BY DEF S!SaveSlot
<1>2. FileKept'
  <2>1. \A tag \in DOMAIN file' : file'[tag] = S!Data(tag, S!Saved(tag))
    BY <1>1
  <2>2. \A tag \in Tags : Written(tag)' = S!Data(tag, S!Saved(tag))
    <3> TAKE tag \in Tags
    <3> DEFINE data == S!Data(tag, S!Saved(tag))
    <3>1. PICK any : data \in Seq(any)
      BY SavedReadsBack
    <3>2. S!Lost(tag)' = 0
      BY <1>1 DEF S!Lost
    <3>3. Written(tag)' = Torn(data, Len(data) - 0)
      <4>1. LeftIn(tag)' = Len(data) - 0
        BY <1>1, <3>2, ModelKept DEF LeftIn
      <4>2. Written(tag)' = Torn(data, LeftIn(tag)')
        BY <1>1, ModelKept DEF Written
      <4> QED BY <4>1, <4>2
    <3> HIDE DEF data
    <3>4. Len(data) - 0 = Len(data) /\ \A b \in 1..Len(data) : b <= Len(data)
      BY <3>1
    <3>5. Torn(data, Len(data)) = [b \in 1..Len(data) |-> data[b]]
      BY <3>4 DEF Torn
    <3>6. data = [b \in 1..Len(data) |-> data[b]]
      BY <3>1
    <3> QED BY <3>3, <3>4, <3>5, <3>6 DEF data
  <2>3. \A tag \in Tags \cap DOMAIN file' : Whole(tag)'
    BY <2>1, <2>2 DEF Whole
  <2> QED BY <2>3 DEF FileKept
<1>3. SlotKept'
  <2>1. \A tag : InSlot(tag)' = {}
    BY <1>1 DEF InSlot
  <2>2. \A i \in 1..13 : ~(i < next')
    BY <1>1
  <2> QED BY <2>1, <2>2 DEF SlotKept
<1> QED BY <1>1, <1>2, <1>3 DEF SaveInv

\* What may become of the file before it is read.
LEMMA FileLosesKeeps ==
  ASSUME SaveInv, FileKept', model' = model, slot' = slot, at' = at, at = "saved", next' = next,
         next = 1
  PROVE  SaveInv'
<1>1. SlotKept'
  <2>1. \A tag : InSlot(tag)' = InSlot(tag)
    BY DEF InSlot
  <2>2. \A i \in 1..13 : ~(i < next')
    OBVIOUS
  <2> QED BY <2>1, <2>2 DEF SaveInv, SlotKept
<1> QED BY <1>1, ModelKept DEF SaveInv

LEMMA IntactIs ==
  ASSUME SaveInv, S!Unread, S!Intact, NEW tag \in Tags, tag \in DOMAIN file
  PROVE  Whole(tag) /\ file[tag] = S!Data(tag, S!Saved(tag))
<1>1. missing = 0 /\ file[tag] = S!Data(tag, S!Saved(tag))
  BY DEF S!Unread, S!Intact
<1> QED BY <1>1, NothingLost DEF Whole

LEMMA LoseChunkKeeps == SaveInv /\ S!LoseChunk => SaveInv'
<1> SUFFICES ASSUME SaveInv, S!LoseChunk PROVE SaveInv'
  OBVIOUS
<1>1. PICK tag \in DOMAIN file :
        /\ S!Unread /\ S!Intact
        /\ file' = [t \in DOMAIN file \ {tag} |-> file[t]]
        /\ model' = model /\ missing' = missing /\ slot' = slot /\ at' = at /\ next' = next
  BY DEF S!LoseChunk
<1>2. \A t \in DOMAIN file' : t \in DOMAIN file /\ file'[t] = file[t]
  BY <1>1
<1>3. \A t \in Tags \cap DOMAIN file' : Whole(t)'
  BY <1>1, <1>2, IntactIs, FileStays DEF Whole
<1>4. FileKept'
  BY <1>3 DEF FileKept
<1> QED BY <1>1, <1>4, FileLosesKeeps DEF S!Unread

LEMMA ShortenChunkKeeps == SaveInv /\ S!ShortenChunk => SaveInv'
<1> SUFFICES ASSUME SaveInv, S!ShortenChunk PROVE SaveInv'
  OBVIOUS
<1>1. PICK tag \in DOMAIN file :
        /\ S!Unread /\ S!Intact /\ Len(file[tag]) > 1
        /\ file' = [file EXCEPT ![tag] = S!Front(@)]
        /\ model' = model /\ missing' = missing /\ slot' = slot /\ at' = at /\ next' = next
  BY DEF S!ShortenChunk
<1>2. DOMAIN file' = DOMAIN file /\ file'[tag] = S!Front(file[tag])
      /\ \A t \in DOMAIN file : t # tag => file'[t] = file[t]
  BY <1>1
<1>3. ASSUME tag \in Tags PROVE Short(tag)'
  <2> DEFINE data == S!Data(tag, S!Saved(tag))
  <2>1. PICK any : data \in Seq(any)
    BY <1>3, SavedReadsBack
  <2>2. file[tag] = data
    BY <1>1, <1>3, IntactIs
  <2> HIDE DEF data
  <2>3. S!Front(data) = SubSeq(data, 1, Len(data) - 1) /\ Len(data) > 1
    BY <1>1, <2>2 DEF S!Front
  <2>4. Len(SubSeq(data, 1, Len(data) - 1)) = Len(data) - 1 /\ Len(data) \in Nat
    BY <2>1, <2>3
  <2>5. Len(file'[tag]) \in Nat /\ Len(file'[tag]) < Len(data)
    BY <1>2, <2>2, <2>3, <2>4
  <2> QED BY <1>1, <2>5, ModelKept DEF Short, data
<1>4. \A t \in Tags \cap DOMAIN file : t # tag => Whole(t)'
  BY <1>1, <1>2, IntactIs, FileStays DEF Whole
<1>5. FileKept'
  BY <1>2, <1>3, <1>4 DEF FileKept
<1> QED BY <1>1, <1>5, FileLosesKeeps DEF S!Unread

LEMMA CutBeforeKeeps == SaveInv /\ S!CutBefore => SaveInv'
<1> SUFFICES ASSUME SaveInv, S!CutBefore PROVE SaveInv'
  OBVIOUS
<1>1. /\ at' = "failed" /\ model' = model /\ file' = file /\ missing' = missing /\ slot' = slot
      /\ next' = next /\ at = "saved"
  BY DEF S!CutBefore, S!Unread
<1>2. FileKept'
  BY <1>1, FileStays, ModelKept DEF SaveInv, FileKept, Whole, Short
<1>3. SlotKept'
  BY <1>1 DEF SlotKept
<1> QED BY <1>1, <1>2, <1>3 DEF SaveInv

\* The last chunk of a file that is cut off within its data.
LEMMA CutWithinKeeps == SaveInv /\ S!CutWithin => SaveInv'
<1> SUFFICES ASSUME SaveInv, S!CutWithin PROVE SaveInv'
  OBVIOUS
<1>0. PICK last : last = S!Order[S!Final]
  OBVIOUS
<1>1. PICK n \in 1..Len(file[last]) :
        /\ S!Unread /\ S!Intact /\ missing' = n
        /\ file' = [file EXCEPT ![last] =
                     [b \in 1..Len(@) |-> IF b + n <= Len(@) THEN @[b] ELSE S!Stray]]
        /\ model' = model /\ slot' = slot /\ at' = at /\ next' = next
  BY <1>0 DEF S!CutWithin
<1>2. S!Order[S!Final]' = last
  BY <1>0, <1>1, ModelKept DEF S!Order
<1>3. DOMAIN file' = DOMAIN file /\ \A t \in DOMAIN file : t # last => file'[t] = file[t]
  BY <1>1
<1>4. \A t \in Tags \cap DOMAIN file : t # last => Whole(t)'
  <2> TAKE t \in Tags \cap DOMAIN file
  <2> SUFFICES ASSUME t # last PROVE Whole(t)'
    OBVIOUS
  <2>1. S!Lost(t)' = 0 /\ S!Lost(t) = 0
    BY <1>0, <1>1, <1>2 DEF S!Lost, S!Unread
  <2>2. Written(t)' = Written(t)
    BY <1>1, <2>1, ModelKept DEF Written, LeftIn
  <2> QED BY <1>1, <1>3, <2>2, IntactIs DEF Whole
<1>5. ASSUME last \in Tags, last \in DOMAIN file PROVE Whole(last)'
  <2> DEFINE data == S!Data(last, S!Saved(last))
  <2>1. PICK any : data \in Seq(any)
    BY <1>5, SavedReadsBack
  <2>2. file[last] = data
    BY <1>1, <1>5, IntactIs
  <2>3. S!Lost(last)' = n
    BY <1>1, <1>2 DEF S!Lost
  <2>4. Whole(last)' <=> file'[last] = Torn(data, Len(data) - n)
    BY <1>1, <1>2, <2>3, ModelKept DEF Whole, Written, LeftIn
  <2> HIDE DEF data
  <2>5. file'[last] = [b \in 1..Len(data) |-> IF b + n <= Len(data) THEN data[b] ELSE S!Stray]
    BY <1>1, <1>5, <2>2
  <2>6. \A b \in 1..Len(data) : b + n <= Len(data) <=> b <= Len(data) - n
    BY <1>1, <2>1, <2>2
  <2>7. Torn(data, Len(data) - n) = file'[last]
    BY <2>5, <2>6 DEF Torn
  <2> QED BY <2>4, <2>7
<1>6. FileKept'
  <2>1. \A t \in Tags \cap DOMAIN file : Whole(t)'
    BY <1>4, <1>5
  <2> QED BY <1>3, <2>1 DEF FileKept
<1> QED BY <1>1, <1>6, FileLosesKeeps DEF S!Unread

LEMMA LoadDoneKeeps == SaveInv /\ S!LoadDone => SaveInv'
<1> SUFFICES ASSUME SaveInv, S!LoadDone PROVE SaveInv'
  OBVIOUS
<1>1. at = "saved" /\ next > S!Final /\ at' = "loaded"
      /\ model' = model /\ file' = file /\ missing' = missing /\ slot' = slot /\ next' = next
  BY DEF S!LoadDone
<1>2. FileKept'
  BY <1>1, FileStays, ModelKept DEF SaveInv, FileKept, Whole, Short
<1>3. SlotKept'
  BY <1>1, FileStays, ModelKept DEF SaveInv, SlotKept, InSlot, Skipped
<1> QED BY <1>1, <1>2, <1>3, ModelKept DEF SaveInv

\* A load whose next chunk does not throw: it is not short.
LEMMA ChunkIsRead ==
  ASSUME SaveInv, at = "saved", NEW tag \in Tags \ Misread, tag \in DOMAIN file,
         ~(S!Ends(S!Loaded(tag))[Len(S!Loaded(tag))] > Len(file[tag]))
  PROVE  S!FieldsRead(tag, S!Loaded(tag), file[tag]) = SavedFields(tag)
<1> DEFINE f == S!Saved(tag)
           data == Written(tag)
<1>1. S!Loaded(tag) = f
  BY LoadedIsSaved
<1>2. S!FieldsRead(tag, f, data) = SavedFields(tag) /\ Len(data) = S!Ends(f)[Len(f)] /\ Len(data) \in Nat
  BY SavedReadsBack
<1>3. file[tag] = data \/ (Len(file[tag]) \in Nat /\ Len(file[tag]) < Len(data))
  BY SavedReadsBack DEF SaveInv, FileKept, Whole, Short
<1> HIDE DEF f, data
<1>4. ~(Len(data) > Len(file[tag]))
  BY <1>1, <1>2
<1>5. file[tag] = data
  BY <1>2, <1>3, <1>4
<1> QED BY <1>1, <1>2, <1>5

LEMMA LoadChunkKeeps == SaveInv /\ S!LoadChunk => SaveInv'
<1> SUFFICES ASSUME SaveInv, S!LoadChunk PROVE SaveInv'
  OBVIOUS
<1>0. PICK tag : tag = S!Order[next]
  OBVIOUS
<1> DEFINE fields == S!Loaded(tag)
           read == S!FieldsRead(tag, fields, file[tag])
           over == S!Ends(fields)[Len(fields)] > Len(file[tag])
<1>1. /\ at = "saved" /\ next <= S!Final /\ model' = model /\ file' = file /\ missing' = missing
      /\ tag \in DOMAIN file => /\ slot' = slot \cup read /\ next' = next + 1
                                /\ at' = IF over THEN "failed" ELSE at
      /\ tag \notin DOMAIN file => /\ at' = IF tag \in S!Optional THEN at ELSE "failed"
                                   /\ next' = IF tag = "SEAX" THEN S!Final + 1 ELSE next + 1
                                   /\ slot' = slot
  BY <1>0 DEF S!LoadChunk
<1>2. next \in 1..13 /\ tag \in Tags /\ S!Final \in 1..13
  <2> DEFINE final == S!Final
  <2>1. final \in 1..13 /\ next <= final /\ next \in 1..14
    BY <1>1, OrderIsOfTags DEF SaveInv
  <2> HIDE DEF final
  <2>2. next \in 1..13
    BY <2>1
  <2> QED BY <1>0, <2>1, <2>2, OrderIsOfTags DEF final
<1>3. \A pair \in read : pair[1][1] = tag
  BY ReadIsOfTag
<1>4. tag \in DOMAIN file /\ tag \notin Misread /\ ~over => read = SavedFields(tag)
  BY <1>1, <1>2, ChunkIsRead
<1> HIDE DEF fields, read, over
<1>5. FileKept'
  BY <1>1, FileStays, ModelKept DEF SaveInv, FileKept, Whole, Short
<1>6. next' \in 1..14 /\ at' \in {"saved", "failed"} /\ next' > next
  <2> DEFINE final == S!Final
  <2>1. (next' = next + 1 \/ next' = final + 1) /\ next \in 1..13 /\ final \in 1..13 /\ next <= final
    BY <1>1, <1>2
  <2> HIDE DEF final
  <2>2. next' \in 1..14 /\ next' > next
    BY <2>1
  <2> QED BY <1>1, <2>2
<1>7. ASSUME at' = "saved" PROVE SlotKept'
  <2>1. \A i \in 1..13 : (S!Order[i] = tag => i = next) /\ S!Order[next] = tag
    BY <1>0, <1>2, OrderIsOnce
  <2>2. \A t : t # tag => InSlot(t)' = InSlot(t)
    BY <1>1, <1>3 DEF InSlot
  <2>3. InSlot(tag) = {}
    BY <1>0, <1>1, <1>2 DEF SaveInv, SlotKept
  <2>4. tag \in DOMAIN file /\ ~Skipped(tag) => InSlot(tag)' = SavedFields(tag)
    <3> SUFFICES ASSUME tag \in DOMAIN file, ~Skipped(tag) PROVE InSlot(tag)' = SavedFields(tag)
      OBVIOUS
    <3>1. slot' = slot \cup read /\ ~over
      BY <1>1, <1>7
    <3>2. read = SavedFields(tag)
      BY <1>4, <3>1 DEF Skipped
    <3>3. InSlot(tag)' = read
      BY <1>3, <2>3, <3>1 DEF InSlot
    <3> QED BY <3>2, <3>3
  <2>5. \A t : Skipped(t)' = Skipped(t) /\ SavedFields(t)' = SavedFields(t)
    BY <1>1, FileStays, ModelKept DEF Skipped
  <2>6. ASSUME NEW i \in 1..13, i < next', S!Order[i] \in DOMAIN file', ~Skipped(S!Order[i])'
        PROVE  InSlot(S!Order[i])' = SavedFields(S!Order[i])'
    <3>1. S!Order[i] \in DOMAIN file /\ ~Skipped(S!Order[i])
      BY <1>1, <2>5, <2>6
    <3>2. CASE i = next
      BY <2>1, <2>4, <2>5, <3>1, <3>2
    <3>3. CASE i < next
      <4>1. S!Order[i] # tag
        BY <1>2, <2>1, <3>3
      <4>2. InSlot(S!Order[i]) = SavedFields(S!Order[i])
        BY <1>1, <3>1, <3>3 DEF SaveInv, SlotKept
      <4> QED BY <2>2, <2>5, <4>1, <4>2
    <3>4. CASE i > next
      \* SEAX is not there, and USB is not looked for.
      <4>1. tag \notin DOMAIN file /\ tag = "SEAX" /\ next' = S!Final + 1
        <5>1. next' # next + 1
          BY <1>2, <2>6, <3>4
        <5> QED BY <1>1, <5>1
      <4>2. next = 12
        BY <2>1, <4>1, OrderIsOfTags
      <4>3. i = 13
        BY <3>4, <4>2
      <4>4. S!Order[i] = "USB"
        BY <4>3, OrderIsOfTags
      <4>5. S!Final = 13
        <5> DEFINE final == S!Final
        <5>1. next' = final + 1 /\ final \in 1..13 /\ i < next'
          BY <1>2, <2>6, <4>1
        <5> HIDE DEF final
        <5>2. final = 13
          BY <4>3, <5>1
        <5> QED BY <5>2 DEF final
      <4>6. model # "83P"
        BY <4>5 DEF S!Final
      <4> QED BY <3>1, <4>1, <4>4, <4>6 DEF Skipped
    <3> QED BY <1>2, <3>2, <3>3, <3>4
  <2>7. ASSUME NEW i \in 1..13, next' <= i PROVE InSlot(S!Order[i])' = {}
    <3>1. next <= i /\ i # next
      BY <1>2, <1>6, <2>7
    <3>2. InSlot(S!Order[i]) = {}
      BY <1>1, <3>1 DEF SaveInv, SlotKept
    <3>3. S!Order[i] # tag
      BY <2>1, <3>1
    <3> QED BY <2>2, <3>2, <3>3
  <2> QED BY <2>6, <2>7 DEF SlotKept
<1>8. SlotKept'
  BY <1>6, <1>7 DEF SlotKept
<1> QED BY <1>5, <1>6, <1>8 DEF SaveInv

LEMMA SaveInvIsInductive == SaveInv /\ [Next]_vars => SaveInv'
<1> SUFFICES ASSUME SaveInv, [Next]_vars PROVE SaveInv'
  OBVIOUS
<1>1. CASE Processor \/ Standard \/ Crystal \/ Asking \/ Link \/ Display \/ UNCHANGED vars
  <2>1. UNCHANGED <<model, file, missing, slot, at, next>>
    BY <1>1 DEF Processor, Standard, Crystal, Asking, Link, Display, OfTimers, OfLink, OfLcd, save, vars
  <2> QED BY <2>1, SaveUntouched
<1>2. CASE Save
  <2>1. S!SaveSlot \/ S!LoseChunk \/ S!ShortenChunk \/ S!CutBefore \/ S!CutWithin \/ S!LoadChunk
         \/ S!LoadDone
    BY <1>2 DEF Save, S!Next
  <2> QED BY <2>1, SaveSlotKeeps, LoseChunkKeeps, ShortenChunkKeeps, CutBeforeKeeps, CutWithinKeeps,
              LoadChunkKeeps, LoadDoneKeeps
<1> QED BY <1>1, <1>2 DEF Next

\* A save that is loaded gives back every field of every chunk that is there and that
\* the code reads in the order it writes, and nothing else in those chunks, whatever
\* the sizes of a block of memory and of the list of interrupts (savestate.cpp), but
\* for the bytes past a cut within the last chunk: there the load succeeds with what
\* malloc gave.
THEOREM SlotIsRestored == Spec => []RestoredAsSaved
<1>1. Init => SaveInv
  BY SaveBegins DEF Init
<1>2. SaveInv => RestoredAsSaved
  BY SaveRestores DEF RestoredAsSaved
<1> QED BY <1>1, <1>2, SaveInvIsInductive, PTL DEF Spec
==============================================================================
