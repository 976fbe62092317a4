----------------------------- MODULE Interrupts -----------------------------
(***************************************************************************)
(* The interrupt sources of the 83+SE and 84+ families (83psehw.c): the    *)
(* two standard timers and the ON key behind ports 2, 3 and 4, the crystal *)
(* timers of ports 30 to 38, the requests of the link assist and of USB,   *)
(* the polling of them all after every instruction (device.c), and HALT.   *)
(*                                                                         *)
(* Time is kept as the code uses it, as the time since a timer's last      *)
(* tick; a negative one is a tick that lies ahead.  What an instruction    *)
(* does besides is left out (see Z80).                                     *)
(***************************************************************************)
EXTENDS Integers, FiniteSets, FiniteSetsExt

CONSTANTS
  Rates,      \* the frequencies port 4 chooses from
  Quarter,    \* a quarter of the period of each of them
  Common,     \* a multiple of all periods
  Slowest,    \* the frequency of INT83PSE_init
  Durations,  \* how long an instruction may take
  Masks,      \* the values written to port 3
  Timers,     \* the crystal timers
  Clocks,     \* the values written to ports 30, 33 and 36
  Counts,     \* the values written to ports 32, 35 and 38
  Wrap        \* one more than the largest value of an unsigned char

\* What the constants must satisfy: quarters are of a whole length, and so is a common
\* multiple of all periods; time does not go back, and a clock has a divisor.
QuarterOK ==
  /\ Slowest \in Rates
  /\ Quarter \in [Rates -> Nat \ {0}]
  /\ Common \in Nat \ {0}
  /\ \A r \in Rates : Common % (4 * Quarter[r]) = 0
  /\ Durations \subseteq Nat
  /\ \A clock \in Clocks : clock.divisor \in Nat \ {0}

VARIABLE calc   \* the part of CPU_t, STDINT_t and XTAL_t that interrupts use

vars == calc

Sources == {"on", "t1", "t2"}
Flags == {"read", "ready"}   \* the flags of the link assist (LinkPort); nothing sets "error"
Period1 == 4 * Quarter[calc.rate]
Period2 == 2 * Quarter[calc.rate]
Max1(c) == 4 * Quarter[c.rate]
Max2(c) == 2 * Quarter[c.rate]

(***************************************************************************)
(* The standard timers.  A timer asks when more than a period has passed;  *)
(* it is caught up by whole periods.  Times beyond 2 * Common behave like  *)
(* those one Common less and are cut.                                      *)
(***************************************************************************)
Caught(since, max) == IF since > max THEN 1 + ((since - 1) % max) ELSE since
Cut(since) == IF since > 2 * Common THEN since - Common ELSE since

Acknowledged1(c) == [c EXCEPT !.since1 = Caught(@, Max1(c))]
Acknowledged2(c) == [c EXCEPT !.since2 = Caught(@, Max2(c))]
Asks1(c) == "t1" \in c.mask /\ c.since1 > Max1(c)
Asks2(c) == "t2" \in c.mask /\ c.since2 > Max2(c)

\* Faulty: a masked timer does not go on ticking.
StillTicking(c) == c

Ticking(c) ==
  LET d == IF "t1" \in c.mask THEN c ELSE Acknowledged1(c)
  IN IF "t2" \in d.mask THEN d ELSE Acknowledged2(d)

OnEdge(c) == "on" \in c.mask /\ c.on_pressed /\ ~c.on_backup

\* The part of port3_83pse that runs on every call.
Poll3(c) ==
  LET d == [Ticking(c) EXCEPT !.on_latch = @ \/ OnEdge(c), !.on_backup = c.on_pressed,
                              !.lcd = @ /\ ~("lcd" \notin c.mask /\ c.halt)]
  IN [d EXCEPT !.interrupt = @ \/ Asks1(d) \/ Asks2(d) \/ d.on_latch]

\* The bits of port 4 that say who asks.
Status(c) ==
  (IF c.on_latch THEN {"on"} ELSE {}) \cup (IF Asks1(c) THEN {"t1"} ELSE {})
    \cup (IF Asks2(c) THEN {"t2"} ELSE {}) \cup {t \in Timers : c.xtal[t].underflow}

(***************************************************************************)
(* The crystal timers.  A timer's clock is its kind, "off", "crystal" or   *)
(* "cpu", and its divisor.                                                 *)
(***************************************************************************)
\* One tick.  A timer that runs out with its underflow still set is neither
\* reloaded nor stopped.
Counted(t) ==
  LET left == (t.count - 1) % Wrap
      out  == left = 0
  IN [t EXCEPT !.count = IF out /\ ~t.underflow THEN t.max ELSE left,
               !.active = @ /\ (out /\ ~t.underflow => t.loop),
               !.generate = @ \/ (out /\ t.interrupt),
               !.underflow = @ \/ out]

CountedBy(t, n) ==
  LET after[k \in 0..n] == IF k = 0 THEN t ELSE Counted(after[k - 1]) IN after[n]

\* On the crystal one tick is taken a poll, on the processor's clock all.
Due(t) == IF t.behind > t.clock.divisor
            THEN IF t.clock.kind = "crystal" THEN 1 ELSE (t.behind - 1) \div t.clock.divisor
            ELSE 0
Ticked(t) ==
  LET after == CountedBy(t, Due(t))
  IN CASE ~t.active -> t
       [] t.active -> [after EXCEPT !.behind =
                         IF after.active THEN @ - Due(t) * t.clock.divisor ELSE 0]

handlextal(c) ==
  LET d == [c EXCEPT !.xtal = [t \in Timers |-> Ticked(c.xtal[t])]]
  IN [d EXCEPT !.interrupt = @ \/ (~c.halt /\ \E t \in Timers : d.xtal[t].generate)]

\* mod_timer: the crystal timers are polled if one of them has a clock.
mod_timer(c) ==
  [c EXCEPT !.skip_factor = IF \A t \in Timers : c.xtal[t].clock.kind = "off" THEN 0 ELSE 1]

(***************************************************************************)
(* The link assist.  Of its flags only those that may ask for an interrupt *)
(* are kept: enabled by port 8, with the assist on, and asking if they     *)
(* hold.  A poll sets either flag, and clears "ready".  Port 9 shows the   *)
(* flags that ask, and port 55 that the USB line has asked.                *)
(***************************************************************************)
Found(c) == {s \in SUBSET c.enabled : c.asking \cap {"read"} \subseteq s}

\* What a poll of the assist, if its turn comes, may leave.
PollAssist(c) ==
  {c} \cup {[c EXCEPT !.asking = s, !.interrupt = @ \/ s # {}] : s \in Found(c)}

(***************************************************************************)
(* handle_pio, which counts down to the next poll of the crystal timers,   *)
(* polls the assist, and the standard timers always; and the interrupt.    *)
(***************************************************************************)
PollXtal(c) ==
  LET left == (c.skip_count - 1) % Wrap
  IN IF left = 0 THEN [handlextal(c) EXCEPT !.skip_count = c.skip_factor]
                 ELSE [c EXCEPT !.skip_count = left]
handle_pio(c) == {Poll3(a) : a \in PollAssist(PollXtal(c))}

\* Faulty: the processor takes the interrupt and goes on waiting.
HandledAsleep(c) ==
  IF c.interrupt /\ ~c.ei_block /\ c.iff1 THEN [c EXCEPT !.iff1 = FALSE] ELSE c

handle_interrupt(c) ==
  IF c.interrupt /\ ~c.ei_block /\ c.iff1
    THEN [c EXCEPT !.iff1 = FALSE, !.halt = FALSE] ELSE c

Later(c, d) ==
  [c EXCEPT !.since1 = Cut(@ + d), !.since2 = Cut(@ + d),
            !.xtal = [t \in Timers |-> IF c.xtal[t].active
                        THEN [c.xtal[t] EXCEPT !.behind = @ + d] ELSE c.xtal[t]]]

\* CPU_step: c is the machine after the instruction itself.
Ends(c) == \E d \in Durations : \E p \in handle_pio(Later(c, d)) : calc' = handle_interrupt(p)
Begun == [calc EXCEPT !.interrupt = FALSE, !.ei_block = FALSE,
                      !.line = IF @ = "asks" THEN "asked" ELSE @]
Runs == ~calc.halt

(***************************************************************************)
(* The instructions.                                                       *)
(***************************************************************************)
Plain == Runs /\ Ends(Begun)
Ei == Runs /\ Ends([Begun EXCEPT !.iff1 = TRUE, !.ei_block = TRUE])
Di == Runs /\ Ends([Begun EXCEPT !.iff1 = FALSE])
Halt == Runs /\ Ends([Begun EXCEPT !.halt = TRUE])
Halted == calc.halt /\ Ends(Begun)

OutPort2 ==
  \E keep \in SUBSET Sources :
    LET a == [Begun EXCEPT !.on_latch = @ /\ "on" \in keep]
        b == IF "t1" \in keep THEN a ELSE Acknowledged1(a)
    IN Runs /\ Ends(IF "t2" \in keep THEN b ELSE Acknowledged2(b))

InPort3 == Runs /\ Ends(Poll3(Begun))
OutPort3 ==
  \E mask \in Masks :
    Runs /\ Ends(Poll3([Begun EXCEPT !.lcd = @ \/ ("lcd" \in mask /\ "lcd" \notin calc.mask),
                                     !.on_latch = @ /\ "on" \in mask, !.mask = mask]))

\* Faulty: only the periods are set.
Retimed(c, r) == [c EXCEPT !.rate = r]

\* The periods are set, and the second timer put behind the first again.
Timed(c, r) == [c EXCEPT !.rate = r, !.since2 = c.since1 - Quarter[r]]
OutPort4 == \E r \in Rates : Runs /\ Ends(Timed(Begun, r))

SetClock(c, t, clock) ==
  [c EXCEPT !.xtal[t] = [@ EXCEPT !.clock = clock, !.active = FALSE, !.generate = FALSE,
                                  !.behind = 0]]
OutPort30 ==
  \E t \in Timers, clock \in Clocks : Runs /\ Ends(mod_timer(SetClock(Begun, t, clock)))

\* Faulty: the underflow is cleared and the request is not.
SetControlHalf(c, t, loop, int) ==
  [c EXCEPT !.xtal[t] = [@ EXCEPT !.loop = loop, !.interrupt = int, !.underflow = FALSE]]

SetControl(c, t, loop, int) ==
  [c EXCEPT !.xtal[t] = [@ EXCEPT !.loop = loop, !.interrupt = int, !.underflow = FALSE,
                                  !.generate = FALSE]]
OutPort31 ==
  \E t \in Timers, loop, int \in BOOLEAN : Runs /\ Ends(SetControl(Begun, t, loop, int))

InPort32 == Runs /\ Ends(handlextal(Begun))
SetCount(c, t, count) ==
  LET on == c.xtal[t].clock.kind # "off"
  IN [c EXCEPT !.xtal[t] = [c.xtal[t] EXCEPT !.count = count, !.max = count,
                                             !.active = @ \/ on, !.behind = 0]]
OutPort32 ==
  \E t \in Timers, count \in Counts :
    Runs /\ Ends(mod_timer(SetCount(handlextal(Begun), t, count)))

\* Port 8 chooses the flags that ask, none if it switches the assist off; IN and OUT
\* of port 0A clear "read", and those of port 0D "ready".
OutPort8 ==
  \E enabled \in SUBSET Flags : \E s \in SUBSET enabled :
    /\ Runs
    /\ s \cap calc.enabled = calc.asking \cap enabled
    /\ Ends([Begun EXCEPT !.enabled = enabled, !.asking = s])
Ports0Aand0D == \E flag \in Flags : Runs /\ Ends([Begun EXCEPT !.asking = @ \ {flag}])

\* GenerateUSBEvent, which OUT 4A calls whenever bit 3 is written, because nothing
\* ever sets bit 3 of the state of the lines.
OutPort4A == Runs /\ Ends([Begun EXCEPT !.line = "asks", !.interrupt = TRUE])

\* The ON key is pressed and released between two instructions; a release waits
\* until the key has been seen (see KeyInput).
Press == ~calc.on_pressed /\ calc' = [calc EXCEPT !.on_pressed = TRUE]
Release == calc.on_pressed /\ calc.on_backup /\ calc' = [calc EXCEPT !.on_pressed = FALSE]

(***************************************************************************)
(* The specification.                                                      *)
(***************************************************************************)
NewTimer == [clock |-> [kind |-> "off", divisor |-> 1], count |-> 0, max |-> 0,
             loop |-> FALSE, interrupt |-> FALSE, underflow |-> FALSE,
             generate |-> FALSE, active |-> FALSE, behind |-> 0]
Init ==
  calc = [iff1 |-> FALSE, ei_block |-> FALSE, halt |-> FALSE, interrupt |-> FALSE,
          mask |-> {}, rate |-> Slowest, since1 |-> 0, since2 |-> -Quarter[Slowest],
          on_pressed |-> FALSE, on_backup |-> FALSE, on_latch |-> FALSE, lcd |-> FALSE,
          enabled |-> {}, asking |-> {}, line |-> "quiet",
          xtal |-> [t \in Timers |-> NewTimer], skip_count |-> 1, skip_factor |-> 1]

Processor == Plain \/ Ei \/ Di \/ Halt \/ Halted
Standard == OutPort2 \/ InPort3 \/ OutPort3 \/ OutPort4
Crystal == OutPort30 \/ OutPort31 \/ InPort32 \/ OutPort32
Key == Press \/ Release
LinkAndUSB == OutPort8 \/ Ports0Aand0D \/ OutPort4A
Next == Processor \/ Standard \/ Crystal \/ Key \/ LinkAndUSB
Spec == Init /\ [][Next]_vars /\ WF_vars(Halted)

(***************************************************************************)
(* Properties.                                                             *)
(***************************************************************************)
\* The double speed timer ticks a quarter of a period after the standard one,
\* through acknowledgements, masking and changes of the frequency in any order.
PhaseKept == (calc.since1 - calc.since2 - Quarter[calc.rate]) % Period2 = 0

\* A timer that is unmasked has no tick left from the time when it was masked.
NoStaleTick ==
  [][/\ "t1" \in calc'.mask \ calc.mask => calc.since1 <= Period1
     /\ "t2" \in calc'.mask \ calc.mask => calc.since2 <= Period2]_vars

\* Whenever an interrupt is asked for, its handler can find out who asks: port 4 shows
\* the ON key and the timers, port 9 the flags of the link assist, and port 55 the USB
\* line, which only the instruction that has written port 4A makes ask.
SourceVisible ==
  calc.interrupt => Status(calc) # {} \/ calc.asking # {} \/ calc.line = "asks"

\* A halted processor with interrupts on and a standard timer unmasked wakes up.
TimerWakes ==
  (calc.halt /\ calc.iff1 /\ calc.mask \cap {"t1", "t2"} # {}) ~> ~calc.halt
=============================================================================
