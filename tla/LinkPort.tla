------------------------------ MODULE LinkPort ------------------------------
(***************************************************************************)
(* The two wires between the virtual link (link.c), which sends a packet   *)
(* and receives the answer, and the link assist of an 83+SE or 84+         *)
(* (83psehw.c, ports 0, 8, 9, 0A and 0D).                                  *)
(*                                                                         *)
(* The virtual link waits by running the processor (link_wait), so both    *)
(* sides run in turn in one thread: a look at the wires, then one          *)
(* instruction or several, each of which may poll the assist.  The         *)
(* interrupt requests of the assist are in Interrupts; its error bit,      *)
(* which nothing sets, and the progress counters are left out.             *)
(***************************************************************************)
EXTENDS Naturals, Sequences, SequencesExt

CONSTANTS
  Bits,          \* the bits of a byte
  MachineID,     \* link_target_ID
  VarCommands,   \* the commands whose data are the header of a variable
  DataCommands,  \* the commands with data of any length
  HeaderSize,    \* the length of a header by the type in its third byte
  Requests,      \* the packets sent, each a command and its data
  Replies,       \* the bytes a program may answer with
  Timeout,       \* LINK_TIMEOUT in steps of LINK_STEP
  PollEvery,     \* how many instructions apart the assist is polled
  Wrap,          \* one more than the largest value of an unsigned char
  Switches,      \* how often a program writes to port 8 or interferes
  Attempts       \* how often a transfer is begun

VARIABLES
  wires,   \* the lines pulled low by the virtual link, vout, and the calculator, host
  assist,  \* LINKASSIST_t, and skip_count of its device
  pc,      \* where the virtual link is, and what it has received
  prog     \* what the program on the calculator has read and answered

vars == <<wires, assist, pc, prog>>

Lines == {1, 2}
Base == 2^Bits
HighOf(w) == Lines \ (w.vout \cup w.host)      \* vlink and LinkRead
High == HighOf(wires)
LineOf(bit) == {bit + 1}
BitOn(line) == IF line = {1} THEN 1 ELSE 0     \* the bit a receiver sees: the line still high
BitOf(byte, i) == (byte \div 2^i) % 2

(***************************************************************************)
(* Packets.                                                                *)
(***************************************************************************)
Halved(n) == <<n % Base, (n \div Base) % Base>>
Whole(s) == s[1] + Base * s[2]
link_chksum(data) == FoldSeq(LAMBDA byte, sum : (byte + sum) % Base^2, 0, data)

\* What link_send_pkt sends.
PacketOf(request) ==
  LET data == request.data
  IN <<MachineID, request.command>> \o Halved(Len(data)) \o
       IF data = <<>> THEN <<>> ELSE data \o Halved(link_chksum(data))

\* A byte has at most eight bits, and what is sent and answered is bytes.
LinkOK ==
  /\ Bits \in 1..8
  /\ Requests # {} /\ \A request \in Requests : PacketOf(request) \in Seq(0..(Base - 1)) \ {<<>>}
  /\ Replies \subseteq Seq(0..(Base - 1))

\* How many bytes link_recv_pkt reads when it has read those in got.
Needed(got) ==
  CASE Len(got) < 4 -> 4
    [] Len(got) >= 4 /\ got[2] \in VarCommands ->
         IF Len(got) < 7 THEN 7 ELSE 6 + HeaderSize[got[7]]
    [] Len(got) >= 4 /\ got[2] \in DataCommands -> 6 + Whole(SubSeq(got, 3, 4))
    [] OTHER -> 4

\* Whether the checksum at the end of a packet, if it has one, is right.
Sound(got) ==
  LET n == Len(got)
  IN n > 4 => Whole(SubSeq(got, n - 1, n)) = link_chksum(SubSeq(got, 5, n - 2))

(***************************************************************************)
(* The virtual link.                                                       *)
(***************************************************************************)
Packet == PacketOf(pc.request)
Looks(at) == pc.turn = "link" /\ pc.at = at

\* Faulty: the wait has no end.
WaitForEver(seen, on) ==
  \/ seen /\ on
  \/ ~seen /\ pc' = [pc EXCEPT !.turn = "calc"] /\ UNCHANGED <<wires, assist, prog>>

\* A check of the wires ends a wait when seen holds and too many steps have not
\* been spent, gives up when they have, and runs the processor otherwise.
Wait(seen, on) ==
  \/ /\ pc.waited < Timeout
     /\ seen
     /\ on
  \/ /\ pc.waited < Timeout
     /\ ~seen
     /\ pc' = [pc EXCEPT !.waited = @ + 1, !.turn = "calc"]
     /\ UNCHANGED <<wires, assist, prog>>
  \/ /\ pc.waited = Timeout
     /\ pc' = [pc EXCEPT !.at = "timeout", !.turn = "calc"]
     /\ prog' = [prog EXCEPT !.lost = TRUE]
     /\ UNCHANGED <<wires, assist>>

Pull(lines) == wires' = [wires EXCEPT !.vout = lines]

\* link_send: a bit is sent until it is acknowledged and the lines are free.
SendBit ==
  /\ Looks("send")
  /\ Pull(LineOf(BitOf(Packet[pc.sent + 1], pc.bit)))
  /\ pc' = [pc EXCEPT !.at = "sent", !.waited = 0]
  /\ UNCHANGED <<assist, prog>>

Acknowledged ==
  /\ Looks("sent")
  /\ Wait(High = {}, /\ Pull({})
                     /\ pc' = [pc EXCEPT !.at = "released", !.waited = 0]
                     /\ UNCHANGED <<assist, prog>>)

Free ==
  /\ Looks("released")
  /\ Wait(High = Lines,
       /\ pc' = IF pc.bit + 1 < Bits THEN [pc EXCEPT !.bit = @ + 1, !.at = "send"]
                ELSE [pc EXCEPT !.bit = 0, !.sent = @ + 1, !.waited = 0,
                                !.at = IF pc.sent + 1 < Len(Packet) THEN "send" ELSE "listen"]
       /\ UNCHANGED <<wires, assist, prog>>)

\* link_recv: a bit is acknowledged on the other line.  Both lines low are an error.
ListenError ==
  /\ Looks("listen") /\ High = {}
  /\ pc' = [pc EXCEPT !.at = "error", !.turn = "calc"]
  /\ prog' = [prog EXCEPT !.lost = TRUE]
  /\ UNCHANGED <<wires, assist>>

Listen ==
  /\ Looks("listen") /\ High # {}
  /\ Wait(High # Lines,
       /\ Pull(High)
       /\ pc' = [pc EXCEPT !.byte = (@ \div 2) + (Base \div 2) * BitOn(High),
                           !.at = "heard", !.waited = 0]
       /\ UNCHANGED <<assist, prog>>)

\* The end of a byte, and of the packet: link_recv_pkt.
Heard ==
  LET got == Append(pc.got, pc.byte)
      over == Len(got) = Needed(got)
  IN /\ Looks("heard")
     /\ Wait(High # {},
          /\ Pull({})
          /\ pc' = IF pc.bit + 1 < Bits
                     THEN [pc EXCEPT !.bit = @ + 1, !.at = "listen", !.waited = 0]
                     ELSE [pc EXCEPT !.bit = 0, !.got = got, !.byte = 0, !.waited = 0,
                             !.at = IF ~over THEN "listen"
                                    ELSE IF Sound(got) THEN "done" ELSE "checksum",
                             !.turn = IF over THEN "calc" ELSE @]
          /\ UNCHANGED <<assist, prog>>)

Over == pc.at \in {"done", "checksum", "timeout", "error"}

\* link_init, and a packet of the next transfer.
Begin ==
  \E request \in Requests, reply \in Replies :
    /\ Over \/ pc.at = "idle"
    /\ pc.begun < Attempts
    /\ wires' = [wires EXCEPT !.vout = {}]
    /\ pc' = [pc EXCEPT !.at = "send", !.request = request, !.begun = @ + 1, !.bit = 0,
                        !.byte = 0, !.sent = 0, !.got = <<>>, !.waited = 0, !.turn = "link"]
    /\ prog' = [prog EXCEPT !.read = <<>>, !.answered = 0, !.reply = reply]
    /\ UNCHANGED assist

LinkStep == SendBit \/ Acknowledged \/ Free \/ ListenError \/ Listen \/ Heard

(***************************************************************************)
(* The link assist: port9_83pse as it is polled.  d holds wires and assist.*)
(***************************************************************************)
Latched(a) == [a EXCEPT !.receiving = FALSE, !.read = TRUE, !.in = a.working, !.bit = 0]
Host(d, lines) == [d EXCEPT !.wires.host = lines]

\* Faulty: a byte is handed over while the last one has not been read.
LatchedOver(d) == [d EXCEPT !.assist = Latched(@)]

LatchedOnce(d) == IF d.assist.read THEN d ELSE [d EXCEPT !.assist = Latched(@)]

Giving(d) ==
  LET high == HighOf(d.wires)
      a == [d.assist EXCEPT !.ready = FALSE]
      taken == [a EXCEPT !.bit = @ + 1]
      sent == [a EXCEPT !.sending = FALSE, !.ready = TRUE, !.bit = 0]
  IN CASE high = {} -> Host([d EXCEPT !.assist = IF d.wires.host = {} THEN a ELSE taken], {})
       [] high = Lines /\ a.bit >= Bits -> [d EXCEPT !.assist = sent]
       [] high = Lines /\ a.bit < Bits ->
            Host([d EXCEPT !.assist = a], LineOf(BitOf(a.out, a.bit)))
       [] OTHER -> [d EXCEPT !.assist = a]

\* A program that pulls the lines itself may leave bit above Bits.
Taking(d) ==
  LET high == HighOf(d.wires)
      a == [d.assist EXCEPT !.ready = @ /\ high = Lines]
      idle == [a EXCEPT !.ready = @ \/ a.bit = 0]
      b == [a EXCEPT !.bit = IF a.receiving THEN @ ELSE 0, !.receiving = TRUE]
      bit == [b EXCEPT !.working = (@ \div 2) + (Base \div 2) * BitOn(high), !.bit = @ + 1]
  IN CASE high = Lines /\ a.bit >= Bits -> LatchedOnce([d EXCEPT !.assist = a])
       [] high = Lines /\ a.bit < Bits -> [d EXCEPT !.assist = idle]
       [] high \notin {{}, Lines} /\ a.bit = Bits ->
            LatchedOnce(Host([d EXCEPT !.assist = a], {}))
       [] high \notin {{}, Lines} /\ a.bit < Bits ->
            IF d.wires.host = {} THEN Host([d EXCEPT !.assist = bit], high)
                                 ELSE Host([d EXCEPT !.assist = b], {})
       [] OTHER -> [d EXCEPT !.assist = a]

\* handle_pio for the device.
Polled(w, a) ==
  LET d == [wires |-> w, assist |-> [a EXCEPT !.skip = (@ - 1 + Wrap) % Wrap]]
      e == CASE ~a.on -> d [] a.on /\ a.sending -> Giving(d) [] a.on /\ ~a.sending -> Taking(d)
  IN IF d.assist.skip = 0 THEN [e EXCEPT !.assist.skip = a.factor] ELSE d

\* An instruction that leaves the wires w and the assist a; the assist is polled, and
\* the turn of the virtual link comes or does not.
Running == ~Over /\ pc.at # "idle"
Executes(w, a, turn) ==
  /\ pc.turn = "calc"
  /\ turn = "link" => Running
  /\ wires' = Polled(w, a).wires /\ assist' = Polled(w, a).assist
  /\ pc' = [pc EXCEPT !.turn = turn]
Ended == IF Running THEN "link" ELSE "calc"   \* an IN or OUT takes LINK_STEP

Plain(turn) == Executes(wires, assist, turn) /\ UNCHANGED prog

\* A program that interferes with a transfer, or gives up a byte, loses it.
Interferes ==
  /\ ~prog.lost /\ prog.switches < Switches
  /\ prog' = [prog EXCEPT !.switches = @ + 1, !.lost = TRUE]

\* IN and OUT of port 0A: a byte is read, or thrown away.
InPort0A ==
  /\ Executes(wires, [assist EXCEPT !.read = FALSE], Ended)
  /\ prog' = [prog EXCEPT !.read = IF assist.read /\ Running /\ Len(@) <= Len(Packet)
                                     THEN Append(@, assist.in) ELSE @]

OutPort0A ==
  /\ Executes(wires, [assist EXCEPT !.read = FALSE], Ended)
  /\ IF assist.read THEN Interferes ELSE UNCHANGED prog

InPort0D == Executes(wires, [assist EXCEPT !.ready = FALSE], Ended) /\ UNCHANGED prog

\* A byte is sent at once, whatever the assist is doing.  It is the next one of the
\* answer if the packet has been read and the byte before has been sent.
Answers(byte) ==
  /\ Running /\ Len(prog.read) = Len(Packet) /\ ~assist.sending
  /\ prog.answered < Len(prog.reply) /\ byte = prog.reply[prog.answered + 1]

OutPort0D ==
  \E byte \in 0..(Base - 1) :
    /\ Executes(wires, [assist EXCEPT !.out = byte, !.ready = FALSE, !.sending = TRUE,
                                      !.bit = 0], Ended)
    /\ \/ Answers(byte) /\ prog' = [prog EXCEPT !.answered = @ + 1]
       \/ ~Answers(byte) /\ Interferes

\* Switched off, the assist forgets the byte it is at.
OutPort8 ==
  \E on \in BOOLEAN :
    LET busy == assist.sending \/ assist.receiving \/ assist.read
    IN /\ prog.switches < Switches
       /\ Executes(wires, IF on THEN [assist EXCEPT !.on = TRUE, !.factor = PollEvery]
                   ELSE [assist EXCEPT !.on = FALSE, !.receiving = FALSE, !.read = FALSE,
                                       !.ready = TRUE, !.sending = FALSE, !.factor = 0], Ended)
       /\ prog' = [prog EXCEPT !.switches = @ + 1, !.lost = @ \/ (~on /\ busy)]

\* A program may pull the lines itself, the assist on or off.
OutPort0 ==
  \E lines \in SUBSET Lines :
    /\ Executes([wires EXCEPT !.host = lines], assist, Ended)
    /\ IF lines = wires.host THEN UNCHANGED prog ELSE Interferes

Calculator == Plain("link") \/ Plain("calc") \/ InPort0A \/ OutPort0A \/ InPort0D
                \/ OutPort0D \/ OutPort8 \/ OutPort0

Init ==
  /\ wires = [vout |-> {}, host |-> {}]
  /\ assist = [on |-> FALSE, receiving |-> FALSE, read |-> FALSE, ready |-> FALSE,
               sending |-> FALSE, bit |-> 0, working |-> 0, in |-> 0, out |-> 0,
               skip |-> 1, factor |-> 1]
  /\ pc = [at |-> "idle", turn |-> "calc", bit |-> 0, byte |-> 0, sent |-> 0, got |-> <<>>,
           waited |-> 0, begun |-> 0, request |-> CHOOSE request \in Requests : TRUE]
  /\ prog = [read |-> <<>>, answered |-> 0, reply |-> <<>>, switches |-> 0, lost |-> FALSE]
Next == Begin \/ LinkStep \/ Calculator
Spec == Init /\ [][Next]_vars /\ WF_vars(LinkStep) /\ WF_vars(Plain("link"))

(***************************************************************************)
(* Properties.                                                             *)
(***************************************************************************)
\* As long as no byte is abandoned, by an error, a timeout or a program that switches
\* the assist off, and the program does not interfere, each side has read what the
\* other sent, from the first byte on and in order, and a transfer that is done has
\* carried both packets whole and left the lines to the other.  To interfere is to
\* change the lines through port 0, to throw away a byte that has come, or to send one
\* before the packet is read, before the last one has gone, or beyond the answer; the
\* assist does not hold any of it off.
BytesInOrder ==
  ~prog.lost =>
    /\ IsPrefix(prog.read, Packet) /\ IsPrefix(pc.got, prog.reply)
    /\ pc.at = "done" => prog.read = Packet /\ wires.vout = {}

\* A transfer comes to an end, whatever the program does or fails to do.
TransferEnds == Running ~> ~Running
=============================================================================
