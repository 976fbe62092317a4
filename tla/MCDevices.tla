----------------------------- MODULE MCDevices -----------------------------
(***************************************************************************)
(* The devices that share nothing but the processor's turn, Interrupts,    *)
(* LinkPort, Lcd and SaveState, for TLC: a behaviour is of one of them,    *)
(* which part names, and the others stay as they begin.  The crystal       *)
(* timers of Interrupts are a part of their own beside the standard ones   *)
(* and the ON key, and so are the link assist and USB as far as they ask   *)
(* for interrupts, because the product of the three is too large.          *)
(***************************************************************************)
EXTENDS Integers, Sequences

CONSTANTS
  Rates, Quarter, Common, Slowest, Durations, Masks, Timers, Clocks, Counts, Wrap,
  Bits, MachineID, VarCommands, DataCommands, HeaderSize, Requests, Replies, Timeout,
  PollEvery, Switches, Attempts,
  Height, MemWidth, Bound, Columns, Words, Delay, Shades, Accesses,
  Models, Interrupts, Banks, Memory

MCQuarter == [r \in Rates |-> IF r = "slow" THEN 2 ELSE 1]
MCMasks == {{}, {"t1"}, {"on", "t2"}, {"lcd"}}
MCClocks == {[kind |-> "off", divisor |-> 1], [kind |-> "crystal", divisor |-> 1],
             [kind |-> "cpu", divisor |-> 2]}

\* A byte has two bits: the packets are a request of one byte of data, and an answer
\* of nothing but a header, one that holds a variable, or one with a wrong checksum.
MCHeaderSize == [t \in 0..3 |-> IF t = 3 THEN 4 ELSE 3]
MCRequests == {[command |-> 2, data |-> <<3>>]}
MCReplies == {<<1, 3, 0, 0>>, <<1, 1, 3, 0, 0, 1, 0, 1, 0>>, <<1, 2, 1, 0, 3, 2, 0>>}
MCBound == [s \in {"six", "eight"} |-> IF s = "six" THEN 4 ELSE 3]

VARIABLES part, calc, wires, assist, pc, prog, lcd, pictures, accesses,
          model, file, missing, slot, at, next

I == INSTANCE Interrupts
L == INSTANCE LinkPort
D == INSTANCE Lcd
S == INSTANCE SaveState

ASSUME QuarterAssumption == I!QuarterOK
ASSUME LinkAssumption == L!LinkOK
ASSUME DisplayAssumption == D!DisplayOK
ASSUME SaveAssumption == S!SaveOK

timers == calc
link == <<wires, assist, pc, prog>>
display == <<lcd, pictures, accesses>>
save == <<model, file, missing, slot, at, next>>
vars == <<part, timers, link, display, save>>

Init ==
  /\ part \in {"standard", "crystal", "requests", "link", "lcd", "save"}
  /\ I!Init /\ L!Init /\ D!Init /\ S!Init
  /\ part # "save" => model = "83P"

OfTimers == UNCHANGED <<part, link, display, save>>
OfLink == UNCHANGED <<part, timers, display, save>>
OfLcd == UNCHANGED <<part, timers, link, save>>
OfSave == UNCHANGED <<part, timers, link, display>>

Processor == part \in {"standard", "crystal", "requests"} /\ I!Processor /\ OfTimers
Standard == part = "standard" /\ (I!Standard \/ I!Key) /\ OfTimers
Crystal == part = "crystal" /\ I!Crystal /\ OfTimers
Asking == part = "requests" /\ I!LinkAndUSB /\ OfTimers
Link == part = "link" /\ L!Next /\ OfLink
Display == part = "lcd" /\ D!Next /\ OfLcd
Save == part = "save" /\ S!Next /\ OfSave

Next == Processor \/ Standard \/ Crystal \/ Asking \/ Link \/ Display \/ Save

Halted == part \in {"standard", "crystal", "requests"} /\ I!Halted /\ OfTimers
LinkStep == part = "link" /\ L!LinkStep /\ OfLink
Instruction == part = "link" /\ L!Plain("link") /\ OfLink
Spec == Init /\ [][Next]_vars /\ WF_vars(Halted) /\ WF_vars(LinkStep) /\ WF_vars(Instruction)

(***************************************************************************)
(* The properties, which the modules state and explain.                    *)
(***************************************************************************)
\* The phase of the two standard timers.
PhaseKept == I!PhaseKept

\* An unmasked timer has no old tick.
NoStaleTick == I!NoStaleTick

\* An interrupt has a source that port 4, 9 or 55 shows.
SourceVisible == I!SourceVisible

\* HALT ends with the next tick of a timer.
TimerWakes == I!TimerWakes

\* Bytes cross the wires in order.
BytesInOrder == L!BytesInOrder

\* A transfer ends.
TransferEnds == L!TransferEnds

\* A word changes its own pixels of the display.
CellWritten == D!CellWritten

\* The pictures of the grey scale are in order.
PicturesInOrder == D!PicturesInOrder

\* A slot loads as it was saved.
RestoredAsSaved == S!RestoredAsSaved
=============================================================================
