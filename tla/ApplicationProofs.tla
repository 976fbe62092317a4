--------------------------- MODULE ApplicationProofs ---------------------------
(***************************************************************************)
(* What TLAPS proves of the wizard, whatever calculators it offers and     *)
(* however many moves and tasks it is given.                               *)
(***************************************************************************)
EXTENDS MCApplication, TLAPS

(* What is on the stack and what a page is shown: nothing, a model, a model with an OS. *)
Data == {W!None} \cup [class : {"CalcModel"}, model : Models]
          \cup [class : {"OSDownloadData"}, model : Models, os : Models]
Rom == [class : {"FinishWizardData"}, model : Models \cup {"NO_CALC"},
        os : Models \cup {"own", "none"}, download : BOOLEAN]

(* How many pages lie behind a page at least. *)
Depth == [landing |-> 0, browse_rom |-> 1, model |-> 1, choose_os |-> 2, os |-> 2,
          os_download |-> 2, browse_os |-> 3]
DataPages == {"choose_os", "os", "os_download", "browse_os"}

(* The fields of the record that is the wizard. *)
Names == {"at", "visible", "dialogs", "page", "stack", "moves", "animating", "next",
          "known", "data", "searches", "found", "foundOs", "late", "web", "code", "romFile", "osFile",
          "finishing", "download", "cancelled", "dropped", "making", "posted", "chosen", "torn", "gaveUp"}

WizardTyped(w) ==
  /\ DOMAIN w = Names /\ DOMAIN w.data = DataPages
  /\ w.page \in DOMAIN Depth /\ w.stack \in Seq(Data) /\ w.chosen \in Models \cup {"none"}
  /\ w.searches \in Seq(Models) /\ w.making \in Seq(Rom) /\ w.download \in Rom \cup {W!None}
  /\ w.posted \in Nat /\ w.dropped \in Nat /\ w.osFile \in {"own", "none"}
  /\ w.found \in {"nothing", "file", "os", "os_download"}
  /\ w.finishing \in BOOLEAN /\ w.torn \in BOOLEAN

(* There is a way back, and it does not lead from browse_os to the data of os. *)
WayBack(w) ==
  w.at = "open" => /\ Len(w.stack) >= Depth[w.page]
                   /\ w.page = "browse_os" => w.stack[Len(w.stack)].class = "CalcModel"

(* What a finish has under way: as long as every boot page was written, one thing at most,
   and only while the wizard says that it is finishing. *)
UnderWay(w) == Len(w.making) + w.posted + w.dropped + (IF w.download = W!None THEN 0 ELSE 1)
                 + (IF "offline" \in w.dialogs THEN 1 ELSE 0)
OneFinish(w) ==
  /\ ~w.torn => UnderWay(w) <= 1 /\ (UnderWay(w) = 1 => w.finishing)
  /\ w.at # "empty stack" /\ (w.at = "download running" => w.torn)

(* What a page was shown is for the calculator chosen last, and so is what was searched. *)
ForChosen(w) ==
  w.at = "open" =>
    /\ w.page \in DataPages => w.data[w.page].model = w.chosen /\ w.chosen \in Models
    /\ w.page = "os_download" => w.data[w.page].os = w.chosen
    /\ w.page = "choose_os" /\ w.found # "nothing" => w.foundOs = w.chosen
    /\ w.searches # <<>> => w.page = "choose_os" /\ w.searches = <<w.chosen>>

WizardInv(w) == WizardTyped(w) /\ WayBack(w) /\ OneFinish(w) /\ ForChosen(w)

(* The ROMs a step adds to those under way are as RomAsChosen wants them. *)
RomsOf(w) == W!ToSet(w.making) \cup {w.download}
AddsAsChosen(w, x) ==
  \A rom \in RomsOf(x) \ (RomsOf(w) \cup {W!None}) :
    rom.model = w.chosen /\ rom.os \in {rom.model, "own", "none"}

LEMMA Fields == DOMAIN W!Fresh = Names
BY DEF W!Fresh, Names

USE DEF WizardInv

LEMMA FreshWizardInv == WizardInv(W!Fresh)
<1>1. WizardTyped(W!Fresh)
  BY Fields DEF WizardTyped, W!Fresh, Depth, DataPages
<1>2. WayBack(W!Fresh) /\ OneFinish(W!Fresh) /\ ForChosen(W!Fresh)
  BY DEF WayBack, OneFinish, UnderWay, ForChosen, W!Fresh, Depth, DataPages
<1> QED BY <1>1, <1>2

(* A step that leaves alone what is under way. *)
LEMMA SameUnderWay ==
  ASSUME NEW w, NEW x, OneFinish(w), x.making = w.making, x.posted = w.posted,
         x.dropped = w.dropped, x.download = w.download, x.dialogs = w.dialogs,
         x.torn = w.torn, x.finishing = w.finishing,
         x.at # "empty stack", x.at # "download running"
  PROVE  OneFinish(x) /\ RomsOf(x) = RomsOf(w)
BY DEF OneFinish, UnderWay, RomsOf

(* A page is shown with the data that belong to it, or the cast ends the wizard. *)
LEMMA MoveKeeps ==
  ASSUME NEW w, WizardInv(w), w.at = "open", NEW page \in DOMAIN Depth, NEW data \in Data,
         NEW stack \in Seq(Data), Len(stack) >= Depth[page],
         page = "browse_os" => stack[Len(stack)].class = "CalcModel",
         page \in DataPages /\ data.class = W!Expected[page] =>
           data.model = w.chosen /\ (page = "os_download" => data.os = w.chosen),
         NEW x, x = W!moveToPage([w EXCEPT !.stack = stack], page, data)
  PROVE  WizardInv(x) /\ RomsOf(x) = RomsOf(w)
<1> DEFINE s == [w EXCEPT !.stack = stack]
           h == W!onHiding(s, s.page)
           m == [h EXCEPT !.page = page, !.moves = @ + 1, !.animating = TRUE]
<1>1. /\ DOMAIN s = DOMAIN w /\ s.stack = stack
      /\ \A f \in DOMAIN w : f # "stack" => s[f] = w[f]
  BY Fields DEF WizardTyped
<1>2. /\ DOMAIN h = DOMAIN w /\ h.searches = <<>>
      /\ \A f \in DOMAIN w : f \notin {"searches", "code"} => h[f] = s[f]
  <2>1. CASE s.page = "choose_os"
    <3>1. s.searches = <<>> \/ s.searches = <<w.chosen>>
      BY <1>1 DEF Names, WizardTyped, ForChosen
    <3>2. W!Front(s.searches) = <<>>
      <4>1. SubSeq(<<>>, 1, -1) = <<>> /\ SubSeq(<<w.chosen>>, 1, 0) = <<>>
        OBVIOUS
      <4>2. Len(<<>>) - 1 = -1 /\ Len(<<w.chosen>>) - 1 = 0
        OBVIOUS
      <4> QED BY <3>1, <4>1, <4>2 DEF W!Front
    <3>3. h = [s EXCEPT !.searches = <<>>]
      BY <2>1, <3>2 DEF W!onHiding
    <3> QED BY <1>1, <3>3 DEF Names, WizardTyped
  <2>2. CASE s.page # "choose_os"
    <3>1. s.searches = <<>>
      BY <1>1, <2>2 DEF Names, WizardTyped, ForChosen
    <3>2. h = s \/ h = [s EXCEPT !.code = FALSE]
      BY <2>2 DEF W!onHiding
    <3> QED BY <1>1, <3>1, <3>2 DEF Names, WizardTyped
  <2> QED BY <2>1, <2>2
<1>3. /\ DOMAIN m = DOMAIN w /\ m.searches = <<>> /\ m.page = page /\ m.stack = stack
      /\ \A f \in DOMAIN w : f \notin {"searches", "code", "page", "stack", "moves", "animating"}
                               => m[f] = w[f]
  BY <1>1, <1>2 DEF Names, WizardTyped
<1>4. x = W!onShowing(m, data)
  BY DEF W!moveToPage
<1> HIDE DEF s, h, m
<1>5. WizardTyped(m) /\ OneFinish(m) /\ RomsOf(m) = RomsOf(w) /\ m.at = "open"
      /\ Len(m.stack) >= Depth[m.page] /\ (m.page = "browse_os" => m.stack[Len(m.stack)].class = "CalcModel")
      /\ m.chosen = w.chosen /\ DOMAIN m = Names
  <2>1. m.at = "open" /\ m.chosen = w.chosen
    BY <1>3 DEF Names, WizardTyped
  <2>2. WizardTyped(m)
    BY <1>3 DEF Names, WizardTyped
  <2>3. m.making = w.making /\ m.posted = w.posted /\ m.dropped = w.dropped
        /\ m.download = w.download /\ m.dialogs = w.dialogs /\ m.torn = w.torn
        /\ m.finishing = w.finishing
    BY <1>3 DEF Names, WizardTyped
  <2>4. OneFinish(m) /\ RomsOf(m) = RomsOf(w)
    BY <2>1, <2>3, SameUnderWay
  <2> QED BY <1>3, <2>1, <2>2, <2>4 DEF WizardTyped
<1>6. CASE page \notin DataPages
  <2>1. x = m
    BY <1>3, <1>4, <1>6 DEF W!onShowing, W!Expected, DataPages
  <2> QED BY <1>3, <1>5, <1>6, <2>1 DEF WayBack, ForChosen, DataPages
<1>7. CASE page \in DataPages /\ data.class # W!Expected[page]
  <2>1. x = [m EXCEPT !.at = "cast"]
    BY <1>3, <1>4, <1>7 DEF W!onShowing, W!Expected, DataPages, W!Ended
  <2>2. x.at = "cast" /\ DOMAIN x = DOMAIN m /\ \A f \in DOMAIN m : f # "at" => x[f] = m[f]
    BY <1>5, <2>1 DEF Names, WizardTyped
  <2>3. WizardTyped(x)
    BY <1>5, <2>2 DEF Names, WizardTyped
  <2>4. OneFinish(x) /\ RomsOf(x) = RomsOf(m)
    <3>1. x.making = m.making /\ x.posted = m.posted /\ x.dropped = m.dropped
          /\ x.download = m.download /\ x.dialogs = m.dialogs /\ x.torn = m.torn
          /\ x.finishing = m.finishing
      BY <1>5, <2>2 DEF Names
    <3> QED BY <1>5, <2>2, <3>1, SameUnderWay
  <2> QED BY <1>5, <2>2, <2>3, <2>4 DEF WayBack, ForChosen
<1>8. CASE page \in DataPages /\ data.class = W!Expected[page]
  <2> DEFINE d == [m EXCEPT !.data[page] = data]
  <2>1. d.searches = <<>> /\ d.found = m.found /\ d.data[page] = data /\ DOMAIN d = DOMAIN m /\ DOMAIN d.data = DataPages
        /\ \A f \in DOMAIN m : f # "data" => d[f] = m[f]
    BY <1>3, <1>5, <1>8 DEF Names, WizardTyped
  <2>2. data.model \in Models /\ data.model = w.chosen /\ (page = "os_download" => data.os = w.chosen)
    BY <1>8 DEF Data, DataPages, W!Expected, W!None
  <2>3. /\ DOMAIN x = DOMAIN m /\ x.data = d.data
        /\ x.searches = IF page = "choose_os" THEN <<w.chosen>> ELSE <<>>
        /\ x.found = IF page = "choose_os" THEN "nothing" ELSE m.found
        /\ \A f \in DOMAIN m : f \notin {"data", "searches", "found", "late", "web", "code"} => x[f] = m[f]
    <3> HIDE DEF d
    <3>1. Append(<<>>, data.model) = <<w.chosen>>
      BY <2>2
    <3>2. x = CASE page = "choose_os"   -> [d EXCEPT !.searches = Append(@, data.model),
                                                     !.found = "nothing", !.late = FALSE]
                [] page = "os_download" -> [d EXCEPT !.web = "loading", !.code = FALSE]
                [] OTHER                -> d
      BY <1>3, <1>4, <1>8 DEF d, W!onShowing, W!Expected, DataPages
    <3>3. CASE page = "choose_os"
      <4>1. x = [d EXCEPT !.searches = Append(@, data.model), !.found = "nothing", !.late = FALSE]
        BY <3>2, <3>3
      <4>2. x.searches = <<w.chosen>>
        BY <1>5, <2>1, <3>1, <4>1 DEF Names
      <4>3. DOMAIN x = DOMAIN m /\ x.data = d.data /\ x.found = "nothing"
        BY <1>5, <2>1, <4>1 DEF Names
      <4>4. \A f \in DOMAIN m : f \notin {"data", "searches", "found", "late", "web", "code"} => x[f] = m[f]
        BY <1>5, <2>1, <4>1
      <4> QED BY <3>3, <4>2, <4>3, <4>4
    <3>4. CASE page = "os_download"
      <4>1. x = [d EXCEPT !.web = "loading", !.code = FALSE]
        BY <3>2, <3>4
      <4> QED BY <1>3, <1>5, <2>1, <3>1, <3>4, <4>1 DEF Names
    <3>5. CASE page \notin {"choose_os", "os_download"}
      <4>1. x = d
        BY <3>2, <3>5
      <4> QED BY <1>3, <1>5, <2>1, <3>1, <3>5, <4>1 DEF Names
    <3> QED BY <3>3, <3>4, <3>5
  <2> HIDE DEF d
  <2>4. WizardTyped(x)
    <3>1. x.searches \in Seq(Models) /\ x.found \in {"nothing", "file", "os", "os_download"}
      <4>1. w.chosen \in Models
        BY <2>2
      <4>2. <<w.chosen>> \in Seq(Models) /\ <<>> \in Seq(Models)
        BY <4>1
      <4>3. x.searches \in {<<>>, <<w.chosen>>}
        BY <2>3
      <4>4. x.found \in {"nothing", m.found} /\ m.found \in {"nothing", "file", "os", "os_download"}
        BY <1>5, <2>3 DEF WizardTyped
      <4> QED BY <4>2, <4>3, <4>4
    <3>2. DOMAIN x = Names /\ DOMAIN x.data = DataPages
      BY <1>5, <2>1, <2>3
    <3>3. /\ x.page = m.page /\ x.stack = m.stack /\ x.chosen = m.chosen /\ x.making = m.making
          /\ x.download = m.download /\ x.posted = m.posted /\ x.dropped = m.dropped
          /\ x.osFile = m.osFile /\ x.finishing = m.finishing /\ x.torn = m.torn
      BY <1>5, <2>3 DEF Names
    <3> QED BY <1>5, <3>1, <3>2, <3>3 DEF WizardTyped
  <2>5. x.at = "open" /\ x.making = m.making /\ x.posted = m.posted /\ x.dropped = m.dropped
        /\ x.download = m.download /\ x.dialogs = m.dialogs /\ x.torn = m.torn
        /\ x.finishing = m.finishing
    BY <1>5, <2>3 DEF Names, WizardTyped
  <2>6. OneFinish(x) /\ RomsOf(x) = RomsOf(m)
    BY <1>5, <2>5, SameUnderWay
  <2>7. x.page = page /\ x.stack = m.stack /\ x.chosen = w.chosen
    BY <1>3, <1>5, <2>3 DEF Names, WizardTyped
  <2>8. WayBack(x)
    BY <1>3, <1>5, <2>7 DEF WayBack
  <2>9. ForChosen(x)
    BY <2>1, <2>2, <2>3, <2>7 DEF ForChosen
  <2> QED BY <1>5, <2>4, <2>6, <2>8, <2>9
<1> QED BY <1>6, <1>7, <1>8

(* A step that leaves the page and what it shows alone. *)
OfTheFinish == {"at", "visible", "dialogs", "finishing", "download", "cancelled", "dropped",
                "making", "posted", "torn", "gaveUp"}
OfTheView == {"visible", "dialogs", "next", "known", "animating", "late", "web", "code",
              "romFile", "osFile", "moves", "cancelled", "gaveUp"}

LEMMA FinishKeeps ==
  ASSUME NEW w, NEW x, WizardInv(w), DOMAIN x = Names, x.at = "open" => w.at = "open",
         \A f \in Names \ OfTheFinish : x[f] = w[f],
         x.making \in Seq(Rom), x.download \in Rom \cup {W!None}, x.posted \in Nat,
         x.dropped \in Nat, x.finishing \in BOOLEAN, x.torn \in BOOLEAN, OneFinish(x)
  PROVE  WizardInv(x)
<1>1. /\ x.page = w.page /\ x.stack = w.stack /\ x.chosen = w.chosen /\ x.searches = w.searches
      /\ x.data = w.data /\ x.osFile = w.osFile /\ x.found = w.found /\ x.foundOs = w.foundOs
  BY DEF Names, OfTheFinish
<1>2. WizardTyped(x)
  BY <1>1 DEF WizardTyped
<1>3. WayBack(x) /\ ForChosen(x)
  BY <1>1 DEF WayBack, ForChosen
<1> QED BY <1>2, <1>3

LEMMA ViewKeeps ==
  ASSUME NEW w, NEW x, WizardInv(w), DOMAIN x = Names, w.at = "open", x.osFile \in {"own", "none"},
         \A f \in Names \ OfTheView : x[f] = w[f], "offline" \in x.dialogs <=> "offline" \in w.dialogs
  PROVE  WizardInv(x) /\ RomsOf(x) = RomsOf(w) /\ x.at = "open"
<1>1. /\ x.page = w.page /\ x.stack = w.stack /\ x.chosen = w.chosen /\ x.searches = w.searches
      /\ x.data = w.data /\ x.found = w.found /\ x.foundOs = w.foundOs /\ x.at = w.at
      /\ x.making = w.making /\ x.download = w.download /\ x.posted = w.posted
      /\ x.dropped = w.dropped /\ x.finishing = w.finishing /\ x.torn = w.torn
  BY DEF Names, OfTheView
<1>2. WizardTyped(x)
  BY <1>1 DEF WizardTyped
<1>3. WayBack(x) /\ ForChosen(x)
  BY <1>1 DEF WayBack, ForChosen
<1>4. OneFinish(x) /\ RomsOf(x) = RomsOf(w)
  BY <1>1 DEF OneFinish, UnderWay, RomsOf
<1> QED BY <1>1, <1>2, <1>3, <1>4

LEMMA EndKeeps ==
  ASSUME NEW w, WizardInv(w), w.at = "open", NEW how, how # "open", how # "empty stack",
         how = "download running" => w.torn, NEW x, x = W!Ended(w, how)
  PROVE  WizardInv(x) /\ RomsOf(x) = RomsOf(w)
<1>1. /\ DOMAIN x = Names /\ x.at = how /\ \A f \in Names \ {"at"} : x[f] = w[f]
  BY DEF W!Ended, Names, WizardTyped
<1>2. /\ x.making = w.making /\ x.download = w.download /\ x.posted = w.posted
      /\ x.dropped = w.dropped /\ x.finishing = w.finishing /\ x.torn = w.torn
      /\ x.dialogs = w.dialogs
  BY <1>1 DEF Names
<1>3. OneFinish(x) /\ RomsOf(x) = RomsOf(w)
  BY <1>1, <1>2 DEF OneFinish, UnderWay, RomsOf
<1>4. \A f \in Names \ OfTheFinish : x[f] = w[f]
  BY <1>1 DEF OfTheFinish
<1>5. /\ x.making \in Seq(Rom) /\ x.download \in Rom \cup {W!None} /\ x.posted \in Nat
      /\ x.dropped \in Nat /\ x.finishing \in BOOLEAN /\ x.torn \in BOOLEAN
  BY <1>2 DEF WizardTyped
<1> QED BY <1>1, <1>3, <1>4, <1>5, FinishKeeps

(* What a last page gives the finish: a ROM for the calculator chosen, of an OS for it. *)
ForTheChosen(w, data) ==
  data \in Rom /\ data.model = w.chosen /\ data.os \in {w.chosen, "own", "none"}
AsChosen(w, data) ==
  \/ data \in Rom /\ data.model = "NO_CALC" /\ ~data.download
  \/ ForTheChosen(w, data)

LEMMA SumOfNone ==
  ASSUME NEW a \in Nat, NEW b \in Nat, NEW c \in Nat, NEW d \in Nat, NEW e \in Nat,
         a + b + c + d + e = 0
  PROVE  a = 0 /\ b = 0 /\ c = 0 /\ d = 0 /\ e = 0
OBVIOUS

Idle(w) == /\ w.making = <<>> /\ w.posted = 0 /\ w.dropped = 0 /\ w.download = W!None
           /\ "offline" \notin w.dialogs

(* A finish begins only when nothing is under way, or a boot page could not be written. *)
LEMMA IdleBefore ==
  ASSUME NEW w, WizardInv(w), ~w.finishing, ~w.torn
  PROVE  Idle(w)
<1> DEFINE d == IF w.download = W!None THEN 0 ELSE 1
           o == IF "offline" \in w.dialogs THEN 1 ELSE 0
<1>1. Len(w.making) \in Nat /\ w.posted \in Nat /\ w.dropped \in Nat /\ d \in Nat /\ o \in Nat
  BY DEF WizardTyped
<1>2. Len(w.making) + w.posted + w.dropped + d + o = 0
  <2>1. /\ Len(w.making) + w.posted + w.dropped + d + o <= 1
        /\ Len(w.making) + w.posted + w.dropped + d + o # 1
    BY DEF OneFinish, UnderWay
  <2> HIDE DEF d, o
  <2> QED BY <1>1, <2>1
<1>3. Len(w.making) = 0 /\ w.posted = 0 /\ w.dropped = 0 /\ d = 0 /\ o = 0
  <2> HIDE DEF d, o
  <2> QED BY <1>1, <1>2, SumOfNone
<1> QED BY <1>3 DEF WizardTyped, Idle

LEMMA AppendedSet ==
  ASSUME NEW S, NEW s \in Seq(S), NEW e \in S
  PROVE  /\ W!ToSet(Append(s, e)) \subseteq W!ToSet(s) \cup {e}
         /\ Append(s, e) \in Seq(S) /\ Len(Append(s, e)) = Len(s) + 1
<1>1. /\ Append(s, e) \in Seq(S) /\ Len(Append(s, e)) = Len(s) + 1 /\ Len(s) \in Nat
      /\ DOMAIN s = 1 .. Len(s) /\ DOMAIN Append(s, e) = 1 .. Len(s) + 1
      /\ \A i \in 1 .. Len(s) : Append(s, e)[i] = s[i]
      /\ Append(s, e)[Len(s) + 1] = e
  OBVIOUS
<1>2. ASSUME NEW i \in DOMAIN Append(s, e) PROVE Append(s, e)[i] \in W!ToSet(s) \cup {e}
  <2>1. i \in DOMAIN s \/ i = Len(s) + 1
    BY <1>1
  <2>2. CASE i \in DOMAIN s
    BY <1>1, <2>2 DEF W!ToSet
  <2>3. CASE i = Len(s) + 1
    BY <1>1, <2>3
  <2> QED BY <2>1, <2>2, <2>3
<1> QED BY <1>1, <1>2 DEF W!ToSet

(* One thing at most is under way: a ROM or a download of a finish, or the question. *)
LEMMA OneThing ==
  ASSUME NEW x, x.posted = 0, x.dropped = 0, Len(x.making) \in {0, 1},
         \/ /\ Len(x.making) = 0 /\ x.download = W!None
            /\ "offline" \in x.dialogs => x.finishing
         \/ /\ x.finishing /\ "offline" \notin x.dialogs
            /\ Len(x.making) = 0 \/ x.download = W!None
  PROVE  UnderWay(x) <= 1 /\ (UnderWay(x) = 1 => x.finishing)
<1> DEFINE a == Len(x.making)
           d == IF x.download = W!None THEN 0 ELSE 1
           o == IF "offline" \in x.dialogs THEN 1 ELSE 0
<1>1. UnderWay(x) = a + 0 + 0 + d + o
  BY DEF UnderWay
<1>2. a \in {0, 1} /\ d \in {0, 1} /\ o \in {0, 1}
  OBVIOUS
<1>3. (x.finishing /\ o = 0 /\ (a = 0 \/ d = 0)) \/ (a = 0 /\ d = 0 /\ (o = 1 => x.finishing))
  OBVIOUS
<1> HIDE DEF a, d, o
<1>4. a + 0 + 0 + d + o <= 1 /\ (a + 0 + 0 + d + o = 1 => x.finishing)
  BY <1>2, <1>3
<1> QED BY <1>1, <1>4

LEMMA AppendedOne ==
  ASSUME NEW data \in Rom
  PROVE  Append(<<>>, data) \in Seq(Rom) /\ Len(Append(<<>>, data)) = 1
OBVIOUS

(* From there a finish may begin one thing: a ROM, a download, or a question. *)
Adds(w, x, data) ==
  /\ x.making \in {w.making, Append(w.making, data)} /\ x.download \in {w.download, data}
  /\ x.making # w.making \/ x.download # w.download => ForTheChosen(w, data)

LEMMA AddsKeeps ==
  ASSUME NEW w, NEW x, NEW data, WizardTyped(w), Adds(w, x, data)
  PROVE  AddsAsChosen(w, x) /\ x.making \in Seq(Rom) /\ x.download \in Rom \cup {W!None}
<1>1. w.making \in Seq(Rom) /\ w.download \in Rom \cup {W!None}
  BY DEF WizardTyped
<1>2. CASE x.making = w.making /\ x.download = w.download
  BY <1>1, <1>2 DEF AddsAsChosen, RomsOf
<1>3. CASE x.making # w.making \/ x.download # w.download
  <2>1. data \in Rom /\ data.model = w.chosen /\ data.os \in {w.chosen, "own", "none"}
    BY <1>3 DEF Adds, ForTheChosen
  <2>2. /\ W!ToSet(Append(w.making, data)) \subseteq W!ToSet(w.making) \cup {data}
        /\ Append(w.making, data) \in Seq(Rom)
    BY <1>1, <2>1, AppendedSet
  <2>3. x.making \in Seq(Rom) /\ W!ToSet(x.making) \subseteq W!ToSet(w.making) \cup {data}
    BY <1>1, <2>2 DEF Adds
  <2>4. x.download \in Rom \cup {W!None} /\ x.download \in {w.download, data}
    BY <1>1, <2>1 DEF Adds
  <2>5. RomsOf(x) \subseteq RomsOf(w) \cup {data}
    BY <2>3, <2>4 DEF RomsOf
  <2> QED BY <2>1, <2>3, <2>4, <2>5 DEF AddsAsChosen
<1> QED BY <1>2, <1>3

LEMMA Begins ==
  ASSUME NEW w, WizardInv(w), w.at = "open", w.torn \/ Idle(w), NEW data, NEW x, DOMAIN x = Names,
         \A f \in Names \ OfTheFinish : x[f] = w[f],
         x.posted = w.posted, x.dropped = w.dropped, x.finishing \in BOOLEAN, x.torn \in BOOLEAN,
         w.torn => x.torn, x.at # "empty stack", x.at = "download running" => x.torn,
         Adds(w, x, data),
         \/ x.torn
         \/ x.making = w.making /\ x.download = w.download /\ ("offline" \in x.dialogs => x.finishing)
         \/ /\ x.finishing /\ "offline" \notin x.dialogs
            /\ x.making = w.making \/ x.download = w.download
  PROVE  WizardInv(x) /\ AddsAsChosen(w, x)
<1>1. AddsAsChosen(w, x) /\ x.making \in Seq(Rom) /\ x.download \in Rom \cup {W!None}
  BY AddsKeeps
<1>2. OneFinish(x)
  <2> SUFFICES ASSUME ~x.torn PROVE UnderWay(x) <= 1 /\ (UnderWay(x) = 1 => x.finishing)
    BY DEF OneFinish
  <2>1. /\ w.making = <<>> /\ w.download = W!None /\ x.posted = 0 /\ x.dropped = 0
    BY DEF Idle
  <2>2. Len(x.making) \in {0, 1} /\ (x.making = w.making => Len(x.making) = 0)
    <3>1. x.making = w.making => Len(x.making) = 0
      <4>1. Len(<<>>) = 0
        OBVIOUS
      <4> QED BY <2>1, <4>1
    <3>2. ASSUME x.making # w.making PROVE Len(x.making) = 1
      <4>1. data \in Rom /\ x.making = Append(<<>>, data)
        BY <2>1, <3>2 DEF Adds, ForTheChosen
      <4> QED BY <3>2, <4>1, AppendedOne
    <3> QED BY <3>1, <3>2
  <2>3. \/ Len(x.making) = 0 /\ x.download = W!None /\ ("offline" \in x.dialogs => x.finishing)
        \/ /\ x.finishing /\ "offline" \notin x.dialogs
           /\ Len(x.making) = 0 \/ x.download = W!None
    BY <2>1, <2>2
  <2> HIDE DEF WizardInv
  <2> QED BY <2>1, <2>2, <2>3, OneThing
<1>3. x.posted \in Nat /\ x.dropped \in Nat
  BY DEF WizardTyped
<1> QED BY <1>1, <1>2, <1>3, FinishKeeps

(* The end of a page finishes with what the page gives. *)
LEMMA FinishedKeeps ==
  ASSUME NEW w, WizardInv(w), w.at = "open", NEW v, NEW data,
         data = W!None \/ AsChosen(w, data), NEW x, x = W!onWizardFinished(w, v, data)
  PROVE  WizardInv(x) /\ AddsAsChosen(w, x)
<1> DEFINE b == [w EXCEPT !.finishing = TRUE]
<1>1. DOMAIN w = Names /\ w.finishing \in BOOLEAN /\ w.torn \in BOOLEAN
  BY DEF WizardTyped
<1>2. /\ DOMAIN b = Names /\ b.finishing /\ b.torn \in BOOLEAN /\ b.torn = w.torn /\ b.at = "open"
      /\ b.making = w.making /\ b.download = w.download /\ b.dialogs = w.dialogs
      /\ b.posted = w.posted /\ b.dropped = w.dropped
      /\ \A f \in Names \ OfTheFinish : b[f] = w[f]
  BY <1>1 DEF Names, OfTheFinish
<1>3. data = W!None \/ (data # W!None /\ data \in Rom /\ data.download \in BOOLEAN)
  BY DEF AsChosen, ForTheChosen, Rom, W!None
<1>4. CASE w.finishing
  <2>1. x = w
    BY <1>4 DEF W!onWizardFinished
  <2> QED BY <2>1 DEF AddsAsChosen
<1>5. CASE ~w.finishing
  <2>1. w.torn \/ Idle(w)
    BY <1>5, IdleBefore
  <2>2. w.torn \/ (w.download = W!None /\ "offline" \notin w.dialogs)
    BY <2>1 DEF Idle
  <2> HIDE DEF b, WizardInv
  <2>3. ASSUME DOMAIN x = Names, \A f \in Names \ OfTheFinish : x[f] = w[f],
               x.posted = w.posted, x.dropped = w.dropped, x.finishing \in BOOLEAN, x.torn \in BOOLEAN,
               w.torn => x.torn, x.at # "empty stack", x.at = "download running" => x.torn,
               Adds(w, x, data),
               \/ x.torn
               \/ x.making = w.making /\ x.download = w.download /\ ("offline" \in x.dialogs => x.finishing)
               \/ /\ x.finishing /\ "offline" \notin x.dialogs
                  /\ x.making = w.making \/ x.download = w.download
        PROVE  WizardInv(x) /\ AddsAsChosen(w, x)
    BY <2>1, <2>3, Begins
  <2>4. CASE data = W!None
    <3>1. x = [b EXCEPT !.at = "null data"]
      BY <1>5, <2>4 DEF W!onWizardFinished, W!Ended, b
    <3> QED BY <1>2, <2>2, <2>3, <3>1 DEF Names, OfTheFinish, Adds
  <2>5. CASE data # W!None /\ data.download
    <3>1. x = W!tryDownloadAndCreateRom(b, v, data)
      BY <1>3, <1>5, <2>5 DEF W!onWizardFinished, b
    <3>2. ForTheChosen(w, data)
      BY <2>5 DEF AsChosen
    <3>3. CASE w.download # W!None
      <4>1. x = [b EXCEPT !.at = "download running"]
        BY <1>2, <3>1, <3>3 DEF W!tryDownloadAndCreateRom, W!Ended
      <4> QED BY <1>2, <2>2, <2>3, <3>3, <4>1 DEF Names, OfTheFinish, Adds
    <3>4. CASE w.download = W!None /\ v.outcome = "offline"
      <4>1. x = [b EXCEPT !.dialogs = @ \cup {"offline"}]
        BY <1>2, <3>1, <3>4 DEF W!tryDownloadAndCreateRom
      <4> QED BY <1>2, <2>2, <2>3, <4>1 DEF Names, OfTheFinish, Adds
    <3>5. CASE w.download = W!None /\ v.outcome # "offline"
      <4>1. x = W!createRomDownloadOs(b, v, data)
        BY <1>2, <3>1, <3>5 DEF W!tryDownloadAndCreateRom
      <4>2. CASE v.outcome = "no boot file"
        <5>1. x = [b EXCEPT !.finishing = FALSE, !.dialogs = @ \cup {"error"}]
          BY <4>1, <4>2 DEF W!createRomDownloadOs, W!showError
        <5>2. /\ DOMAIN x = Names /\ x.making = w.making /\ x.download = w.download
              /\ x.posted = w.posted /\ x.dropped = w.dropped /\ x.finishing = FALSE /\ x.torn = w.torn
              /\ x.at = "open" /\ ("offline" \in x.dialogs <=> "offline" \in w.dialogs)
          BY <1>2, <5>1 DEF Names
        <5>3. \A f \in Names \ OfTheFinish : x[f] = w[f]
          BY <1>2, <5>1 DEF OfTheFinish
        <5> QED BY <1>1, <2>2, <2>3, <5>2, <5>3 DEF Adds
      <4>3. CASE v.outcome = "no OS file"
        <5>1. x = [b EXCEPT !.gaveUp = TRUE]
          BY <4>1, <4>3 DEF W!createRomDownloadOs
        <5> QED BY <1>2, <2>2, <2>3, <5>1 DEF Names, OfTheFinish, Adds
      <4>4. CASE v.outcome = "boot unwritten"
        <5>1. x = [b EXCEPT !.download = data, !.cancelled = FALSE, !.torn = TRUE,
                            !.finishing = FALSE, !.dialogs = @ \cup {"error"}]
          BY <1>2, <4>1, <4>4 DEF W!createRomDownloadOs, W!showError
        <5> QED BY <1>2, <2>3, <3>2, <5>1 DEF Names, OfTheFinish, Adds
      <4>5. CASE v.outcome \notin {"no boot file", "no OS file", "boot unwritten"}
        <5>1. x = [b EXCEPT !.download = data, !.cancelled = FALSE]
          BY <4>1, <4>5 DEF W!createRomDownloadOs
        <5> QED BY <1>2, <2>2, <2>3, <3>2, <5>1 DEF Names, OfTheFinish, Adds
      <4> QED BY <4>2, <4>3, <4>4, <4>5
    <3> QED BY <3>3, <3>4, <3>5
  <2>6. CASE data # W!None /\ ~data.download /\ data.model = "NO_CALC"
    <3>1. x = [b EXCEPT !.at = "done"]
      BY <1>5, <2>6 DEF W!onWizardFinished, W!Ended, b
    <3> QED BY <1>2, <2>2, <2>3, <3>1 DEF Names, OfTheFinish, Adds
  <2>7. CASE data # W!None /\ ~data.download /\ data.model # "NO_CALC"
    <3>1. x = W!createRomCopyOs(b, v, data)
      BY <1>5, <2>7 DEF W!onWizardFinished, b
    <3>2. ForTheChosen(w, data)
      BY <2>7 DEF AsChosen
    <3>3. CASE v.outcome = "no boot file"
      <4>1. x = [b EXCEPT !.finishing = FALSE, !.dialogs = @ \cup {"error"}]
        BY <3>1, <3>3 DEF W!createRomCopyOs, W!showError
      <4>2. /\ DOMAIN x = Names /\ x.making = w.making /\ x.download = w.download
            /\ x.posted = w.posted /\ x.dropped = w.dropped /\ x.finishing = FALSE /\ x.torn = w.torn
            /\ x.at = "open" /\ ("offline" \in x.dialogs <=> "offline" \in w.dialogs)
        BY <1>2, <4>1 DEF Names
      <4>3. \A f \in Names \ OfTheFinish : x[f] = w[f]
        BY <1>2, <4>1 DEF OfTheFinish
      <4> QED BY <1>1, <2>2, <2>3, <4>2, <4>3 DEF Adds
    <3>4. CASE v.outcome = "boot unwritten"
      <4>1. x = [b EXCEPT !.making = Append(@, data), !.torn = TRUE,
                          !.finishing = FALSE, !.dialogs = @ \cup {"error"}]
        BY <1>2, <3>1, <3>4 DEF W!createRomCopyOs, W!showError
      <4>2. /\ DOMAIN x = Names /\ x.making = Append(w.making, data) /\ x.download = w.download
            /\ x.posted = w.posted /\ x.dropped = w.dropped /\ x.finishing = FALSE /\ x.torn /\ x.at = "open"
        BY <1>2, <4>1 DEF Names
      <4>3. \A f \in Names \ OfTheFinish : x[f] = w[f]
        BY <1>2, <4>1 DEF OfTheFinish
      <4> QED BY <2>3, <3>2, <4>2, <4>3 DEF Adds
    <3>5. CASE v.outcome \notin {"no boot file", "boot unwritten"}
      <4>1. x = [b EXCEPT !.making = Append(@, data)]
        BY <3>1, <3>5 DEF W!createRomCopyOs
      <4> QED BY <1>2, <2>2, <2>3, <3>2, <4>1 DEF Names, OfTheFinish, Adds
    <3> QED BY <3>3, <3>4, <3>5
  <2> QED BY <1>3, <2>4, <2>5, <2>6, <2>7
<1> QED BY <1>1, <1>4, <1>5

LEMMA SameRoms ==
  ASSUME NEW w, NEW x, RomsOf(x) = RomsOf(w)
  PROVE  AddsAsChosen(w, x)
BY DEF AddsAsChosen

(* What a page gives at the end, and what it gives to the next page. *)
LEMMA GivenAtTheEnd ==
  ASSUME NEW w, WizardInv(w), w.at = "open", NEW v \in W!Views, W!isFinalPage(w, v),
         NEW data, data = W!getControllerData(w, v)
  PROVE  data = W!None \/ AsChosen(w, data)
<1>1. w.page \in {"browse_rom", "choose_os", "os", "os_download", "browse_os"}
  BY DEF W!isFinalPage
<1>2. /\ w.page \in DataPages => W!ModelOf(w) = w.chosen /\ w.chosen \in Models
      /\ w.page = "os_download" => w.data[w.page].os = w.chosen
      /\ w.osFile \in {"own", "none"}
  BY DEF WizardTyped, ForChosen, W!ModelOf
<1>3. CASE w.page = "browse_rom"
  BY <1>3 DEF W!getControllerData, W!FinishWizardData, AsChosen, Rom
<1>4. CASE w.page = "choose_os"
  <2>1. w.found = "file" /\ w.foundOs = w.chosen
    BY <1>4 DEF W!isFinalPage, ForChosen
  <2>2. data = W!FinishWizardData(w.chosen, w.chosen, FALSE)
    BY <1>2, <1>4, <2>1 DEF W!getControllerData, DataPages
  <2> QED BY <1>2, <1>4, <2>2 DEF W!FinishWizardData, AsChosen, ForTheChosen, Rom, DataPages
<1>5. CASE w.page = "os"
  <2>1. data = W!FinishWizardData(w.chosen, "none", TRUE)
    BY <1>2, <1>5 DEF W!getControllerData, DataPages
  <2> QED BY <1>2, <1>5, <2>1 DEF W!FinishWizardData, AsChosen, ForTheChosen, Rom, DataPages
<1>6. CASE w.page = "os_download"
  <2>1. data = W!FinishWizardData(w.chosen, w.chosen, TRUE)
    BY <1>2, <1>6 DEF W!getControllerData, DataPages
  <2> QED BY <1>2, <1>6, <2>1 DEF W!FinishWizardData, AsChosen, ForTheChosen, Rom, DataPages
<1>7. CASE w.page = "browse_os"
  <2>1. data = W!FinishWizardData(w.chosen, w.osFile, FALSE)
    BY <1>2, <1>7 DEF W!getControllerData, DataPages
  <2> QED BY <1>2, <1>7, <2>1 DEF W!FinishWizardData, AsChosen, ForTheChosen, Rom, DataPages
<1> QED BY <1>1, <1>3, <1>4, <1>5, <1>6, <1>7

LEMMA GivenToTheNext ==
  ASSUME NEW w, WizardInv(w), w.at = "open", NEW v \in W!Views, ~W!isFinalPage(w, v),
         W!hasNextPage(w, v), w.page = "model" => w.chosen = v.model,
         NEW data, data = W!getControllerData(w, v), NEW page, page = W!getNextPage(w, v)
  PROVE  /\ page \in DOMAIN Depth /\ data \in Data /\ Depth[page] <= Depth[w.page] + 1
         /\ page = "browse_os" => data.class = "CalcModel"
         /\ page \in DataPages /\ data.class = W!Expected[page] =>
              data.model = w.chosen /\ (page = "os_download" => data.os = w.chosen)
<1>1. w.page \in {"landing", "model", "choose_os", "os"}
  BY DEF W!hasNextPage
<1>2. w.page \in DataPages => W!ModelOf(w) = w.chosen /\ w.chosen \in Models
  BY DEF ForChosen, W!ModelOf
<1>3. CASE w.page = "landing"
  <2>1. page \in {"browse_rom", "model"} /\ data = W!None
    BY <1>3 DEF W!getNextPage, W!getControllerData, W!Views
  <2> QED BY <1>3, <2>1 DEF Data, Depth, DataPages
<1>4. CASE w.page = "model"
  <2>1. page = "choose_os" /\ data = W!Model(w.chosen) /\ w.chosen \in Models
    BY <1>4 DEF W!getNextPage, W!getControllerData, W!Views
  <2> QED BY <1>4, <2>1 DEF Data, Depth, DataPages, W!Model
<1>5. CASE w.page = "choose_os"
  <2>1. page = w.found /\ page \in {"os", "os_download"} /\ w.foundOs = w.chosen
    BY <1>5 DEF W!getNextPage, W!hasNextPage, ForChosen
  <2>2. data = W!OSDownloadData(w.chosen, w.chosen) /\ w.chosen \in Models
    BY <1>2, <1>5, <2>1 DEF W!getControllerData, DataPages
  <2> QED BY <1>5, <2>1, <2>2 DEF Data, Depth, DataPages, W!OSDownloadData
<1>6. CASE w.page = "os"
  <2>1. page \in {"os_download", "browse_os"}
    BY <1>6 DEF W!getNextPage
  <2>2. data = W!Model(w.chosen) /\ w.chosen \in Models
    BY <1>2, <1>6 DEF W!getControllerData, DataPages
  <2> QED BY <1>6, <2>1, <2>2 DEF Data, Depth, DataPages, W!Model, W!Expected
<1> QED BY <1>1, <1>3, <1>4, <1>5, <1>6

LEMMA NextKeeps ==
  ASSUME NEW w, WizardInv(w), w.at = "open", NEW v \in W!Views,
         w.page = "model" => w.chosen = v.model, NEW x, x = W!moveNextPage(w, v)
  PROVE  /\ WizardInv(x) /\ AddsAsChosen(w, x)
         /\ ~W!isFinalPage(w, v) => RomsOf(x) = RomsOf(w)
<1> DEFINE data == W!getControllerData(w, v)
           page == W!getNextPage(w, v)
<1>1. CASE W!isFinalPage(w, v)
  <2>1. x = W!onWizardFinished(w, v, data)
    BY <1>1 DEF W!moveNextPage
  <2>2. data = W!None \/ AsChosen(w, data)
    BY <1>1, GivenAtTheEnd
  <2> HIDE DEF data
  <2> QED BY <1>1, <2>1, <2>2, FinishedKeeps
<1>2. CASE ~W!isFinalPage(w, v) /\ W!hasNextPage(w, v)
  <2> DEFINE stack == Append(w.stack, data)
  <2>1. x = W!moveToPage([w EXCEPT !.stack = Append(@, data)], page, data)
    BY <1>2 DEF W!moveNextPage
  <2>2. /\ page \in DOMAIN Depth /\ data \in Data /\ Depth[page] <= Depth[w.page] + 1
        /\ page = "browse_os" => data.class = "CalcModel"
        /\ page \in DataPages /\ data.class = W!Expected[page] =>
             data.model = w.chosen /\ (page = "os_download" => data.os = w.chosen)
    BY <1>2, GivenToTheNext
  <2>3. w.stack \in Seq(Data) /\ Len(w.stack) >= Depth[w.page] /\ Depth[w.page] \in Nat
        /\ Depth[page] \in Nat
    BY <2>2 DEF WizardTyped, WayBack, Depth
  <2>4. [w EXCEPT !.stack = Append(@, data)] = [w EXCEPT !.stack = stack]
    OBVIOUS
  <2> HIDE DEF data, page
  <2>5. stack \in Seq(Data) /\ Len(stack) = Len(w.stack) + 1 /\ stack[Len(stack)] = data
    BY <2>2, <2>3
  <2>6. Len(stack) >= Depth[page]
    BY <2>2, <2>3, <2>5
  <2> HIDE DEF stack
  <2>7. WizardInv(x) /\ RomsOf(x) = RomsOf(w)
    BY <2>1, <2>2, <2>4, <2>5, <2>6, MoveKeeps
  <2> QED BY <2>7, SameRoms
<1>3. CASE ~W!isFinalPage(w, v) /\ ~W!hasNextPage(w, v)
  <2>1. x = w
    BY <1>3 DEF W!moveNextPage
  <2> QED BY <2>1 DEF AddsAsChosen
<1> QED BY <1>1, <1>2, <1>3

LEMMA PreviousKeeps ==
  ASSUME NEW w, WizardInv(w), w.at = "open", NEW x, x = W!movePreviousPage(w)
  PROVE  WizardInv(x) /\ AddsAsChosen(w, x)
<1>1. CASE w.page = "landing"
  <2>1. x = w
    BY <1>1 DEF W!movePreviousPage
  <2> QED BY <2>1 DEF AddsAsChosen
<1>2. CASE w.page # "landing"
  <2> DEFINE data == W!Last(w.stack)
             page == W!getPreviousPage(w.page)
             stack == W!Front(w.stack)
  <2>1. /\ w.stack \in Seq(Data) /\ Len(w.stack) >= Depth[w.page] /\ Depth[w.page] \in Nat \ {0}
        /\ w.page \in DOMAIN Depth
    BY <1>2 DEF WizardTyped, WayBack, Depth
  <2>2. data \in Data /\ stack \in Seq(Data) /\ Len(stack) = Len(w.stack) - 1 /\ w.stack # <<>>
    BY <2>1 DEF W!Last, W!Front
  <2>3. x = W!moveToPage([w EXCEPT !.stack = stack], page, data)
    <3>1. [w EXCEPT !.stack = W!Front(@)] = [w EXCEPT !.stack = stack]
      OBVIOUS
    <3> QED BY <1>2, <2>2, <3>1 DEF W!movePreviousPage
  <2>4. /\ page \in DOMAIN Depth /\ page # "browse_os" /\ Depth[page] \in Nat
        /\ Depth[page] <= Depth[w.page] - 1
        /\ page \in DataPages => page = "os" /\ w.page = "browse_os"
    BY <1>2, <2>1 DEF W!getPreviousPage, Depth, DataPages
  <2>5. Len(stack) >= Depth[page]
    BY <2>1, <2>2, <2>4
  <2>6. page \in DataPages => data.class # W!Expected[page]
    BY <2>4 DEF WayBack, W!Last, W!Expected
  <2> HIDE DEF data, page, stack
  <2>7. WizardInv(x) /\ RomsOf(x) = RomsOf(w)
    BY <2>2, <2>3, <2>4, <2>5, <2>6, MoveKeeps
  <2> QED BY <2>7, SameRoms
<1> QED BY <1>1, <1>2

(***************************************************************************)
(* The steps of the wizard.                                                *)
(***************************************************************************)

(* A step that went on from w, which another step made of the wizard, adds as that. *)
LEMMA AddsAfter ==
  ASSUME NEW u, NEW w, NEW x, RomsOf(w) = RomsOf(u), w.chosen = u.chosen, AddsAsChosen(w, x)
  PROVE  AddsAsChosen(u, x)
BY DEF AddsAsChosen

LEMMA MoveOnKeeps ==
  ASSUME NEW w, WizardInv(w), w.at = "open", W!MoveOn(w)
  PROVE  WizardInv(wizard') /\ AddsAsChosen(w, wizard')
<1>1. PICK v \in W!Views :
        wizard' = W!moveNextPage(IF w.page = "model" THEN [w EXCEPT !.chosen = v.model] ELSE w, v)
  BY DEF W!MoveOn
<1>2. CASE w.page = "model"
  <2> DEFINE c == [w EXCEPT !.chosen = v.model]
  <2>1. /\ DOMAIN c = Names /\ c.chosen = v.model /\ v.model \in Models
        /\ \A f \in Names : f # "chosen" => c[f] = w[f]
    BY DEF Names, WizardTyped, W!Views
  <2> HIDE DEF c
  <2>2. /\ c.at = "open" /\ c.page = "model" /\ c.stack = w.stack /\ c.searches = w.searches
        /\ c.making = w.making /\ c.download = w.download /\ c.posted = w.posted
        /\ c.dropped = w.dropped /\ c.dialogs = w.dialogs /\ c.torn = w.torn
        /\ c.finishing = w.finishing /\ c.osFile = w.osFile /\ c.found = w.found /\ c.data = w.data
    BY <1>2, <2>1 DEF Names
  <2>3. OneFinish(c) /\ RomsOf(c) = RomsOf(w)
    BY <2>2, SameUnderWay
  <2>4. WizardTyped(c)
    BY <1>2, <2>1, <2>2 DEF WizardTyped
  <2>5. WayBack(c) /\ ForChosen(c)
    BY <1>2, <2>2 DEF WayBack, ForChosen, DataPages
  <2>6. ~W!isFinalPage(c, v)
    BY <2>2 DEF W!isFinalPage
  <2>7. wizard' = W!moveNextPage(c, v)
    BY <1>1, <1>2 DEF c
  <2>8. WizardInv(wizard') /\ RomsOf(wizard') = RomsOf(c)
    BY <2>1, <2>2, <2>3, <2>4, <2>5, <2>6, <2>7, NextKeeps
  <2> QED BY <2>3, <2>8, SameRoms
<1>3. CASE w.page # "model"
  BY <1>1, <1>3, NextKeeps
<1> QED BY <1>2, <1>3

(* What is under way ends one by one, and the wizard may then finish again. *)
Counts(x) == x.making \in Seq(Rom) /\ x.posted \in Nat /\ x.dropped \in Nat

LEMMA CountedNat ==
  ASSUME NEW x, Counts(x)
  PROVE  UnderWay(x) \in Nat
<1>1. Len(x.making) \in Nat /\ x.posted \in Nat /\ x.dropped \in Nat
  BY DEF Counts
<1> QED BY <1>1 DEF UnderWay

LEMMA Fewer ==
  ASSUME NEW m \in Nat, NEW n \in Nat, NEW f, NEW g, n <= 1, n = 1 => g,
         m + 1 = n \/ (m = n /\ f = g)
  PROVE  m <= 1 /\ (m = 1 => f)
<1>1. m <= 1 /\ (m = 1 => n = 1 /\ f = g)
  OBVIOUS
<1> QED BY <1>1

LEMMA Settles ==
  ASSUME NEW w, WizardInv(w), NEW x, Counts(x), x.torn = w.torn,
         x.at # "empty stack", x.at # "download running",
         \/ UnderWay(x) + 1 = UnderWay(w)
         \/ UnderWay(x) = UnderWay(w) /\ x.finishing = w.finishing
  PROVE  OneFinish(x)
<1>1. Counts(w)
  BY DEF Counts, WizardTyped
<1>2. UnderWay(x) \in Nat /\ UnderWay(w) \in Nat
  BY <1>1, CountedNat
<1>3. ASSUME ~x.torn PROVE UnderWay(x) <= 1 /\ (UnderWay(x) = 1 => x.finishing)
  <2>1. UnderWay(w) <= 1 /\ (UnderWay(w) = 1 => w.finishing)
    BY <1>3 DEF OneFinish
  <2> QED BY <1>2, <2>1, Fewer
<1> QED BY <1>3 DEF OneFinish

(* A step of the finish, with what it has under way afterwards. *)
LEMMA FinishSteps ==
  ASSUME NEW w, NEW x, WizardInv(w), w.at = "open", DOMAIN x = Names,
         \A f \in Names \ OfTheFinish : x[f] = w[f], x.torn = w.torn, Counts(x),
         x.download \in Rom \cup {W!None}, x.finishing \in BOOLEAN,
         x.at # "empty stack", x.at # "download running", RomsOf(x) \subseteq RomsOf(w) \cup {W!None},
         \/ UnderWay(x) + 1 = UnderWay(w)
         \/ UnderWay(x) = UnderWay(w) /\ x.finishing = w.finishing
  PROVE  WizardInv(x) /\ AddsAsChosen(w, x)
<1>1. OneFinish(x)
  BY Settles
<1>2. x.torn \in BOOLEAN
  BY DEF WizardTyped
<1>3. AddsAsChosen(w, x)
  BY DEF AddsAsChosen
<1> QED BY <1>1, <1>2, <1>3, FinishKeeps DEF Counts

(* The user, and the pages by themselves. *)
StepKeeps == WizardInv(wizard') /\ AddsAsChosen(wizard, wizard')

(* A step that changes the view, and may go on. *)
LEMMA ViewSteps ==
  ASSUME WizardInv(wizard), wizard.at = "open", NEW x, DOMAIN x = Names,
         x.osFile \in {"own", "none"}, \A f \in Names \ OfTheView : x[f] = wizard[f],
         "offline" \in x.dialogs <=> "offline" \in wizard.dialogs,
         \/ wizard' = x
         \/ W!MoveOn(x)
         \/ wizard' = W!movePreviousPage(x)
         \/ wizard' = W!Ended(x, "nav")
         \/ wizard' = W!Ended(x, "left")
  PROVE  StepKeeps
<1>1. WizardInv(x) /\ RomsOf(x) = RomsOf(wizard) /\ x.at = "open"
  BY ViewKeeps
<1>2. x.chosen = wizard.chosen
  BY DEF Names, OfTheView
<1>3. WizardInv(wizard') /\ AddsAsChosen(x, wizard')
  <2>1. CASE wizard' = x
    BY <1>1, <2>1 DEF AddsAsChosen
  <2>2. CASE W!MoveOn(x)
    BY <1>1, <2>2, MoveOnKeeps
  <2>3. CASE wizard' = W!movePreviousPage(x)
    BY <1>1, <2>3, PreviousKeeps
  <2>4. CASE wizard' = W!Ended(x, "nav")
    <3>1. "nav" # "open" /\ "nav" # "empty stack" /\ "nav" # "download running"
      OBVIOUS
    <3>2. WizardInv(wizard') /\ RomsOf(wizard') = RomsOf(x)
      BY <1>1, <2>4, <3>1, EndKeeps
    <3> QED BY <3>2, SameRoms
  <2>5. CASE wizard' = W!Ended(x, "left")
    <3>1. "left" # "open" /\ "left" # "empty stack" /\ "left" # "download running"
      OBVIOUS
    <3>2. WizardInv(wizard') /\ RomsOf(wizard') = RomsOf(x)
      BY <1>1, <2>5, <3>1, EndKeeps
    <3> QED BY <3>2, SameRoms
  <2> QED BY <2>1, <2>2, <2>3, <2>4, <2>5
<1> QED BY <1>1, <1>2, <1>3, AddsAfter DEF StepKeeps

LEMMA UserKeeps ==
  ASSUME WizardInv(wizard), W!User
  PROVE  StepKeeps
<1>1. wizard.at = "open"
  BY DEF W!User, W!PressNext, W!PressBack, W!BrowseRom, W!BrowseOs, W!CancelProgress, W!DismissError,
         W!OfflineOk, W!OfflineCancelled, W!onDismissWeb, W!OnDialog, W!Free, W!Open
<1>2. DOMAIN wizard = Names /\ wizard.osFile \in {"own", "none"}
  BY DEF WizardTyped
<1>3. CASE W!PressNext \/ W!PressBack
  <2>1. \/ W!MoveOn(wizard)
        \/ wizard' = W!movePreviousPage(wizard)
        \/ wizard' = W!Ended(wizard, "left")
    BY <1>3 DEF W!PressNext, W!PressBack
  <2> QED BY <1>1, <1>2, <2>1, ViewSteps
<1>4. CASE W!BrowseRom
  <2> DEFINE x == [wizard EXCEPT !.romFile = TRUE]
  <2>1. /\ DOMAIN x = Names /\ x.osFile = wizard.osFile /\ x.dialogs = wizard.dialogs
        /\ \A f \in Names \ OfTheView : x[f] = wizard[f]
    BY <1>2 DEF Names, OfTheView
  <2>2. W!MoveOn(x)
    BY <1>4 DEF W!BrowseRom
  <2> HIDE DEF x
  <2> QED BY <1>1, <1>2, <2>1, <2>2, ViewSteps
<1>5. CASE W!BrowseOs
  <2> DEFINE x == [wizard EXCEPT !.osFile = "own"]
  <2>1. /\ DOMAIN x = Names /\ x.osFile = "own" /\ x.dialogs = wizard.dialogs
        /\ \A f \in Names \ OfTheView : x[f] = wizard[f]
    BY <1>2 DEF Names, OfTheView
  <2>2. W!MoveOn(x)
    BY <1>5 DEF W!BrowseOs
  <2> HIDE DEF x
  <2> QED BY <1>1, <1>2, <2>1, <2>2, ViewSteps
<1>6. CASE W!CancelProgress
  <2> DEFINE x == [wizard EXCEPT !.cancelled = TRUE]
  <2>1. /\ DOMAIN x = Names /\ x.osFile = wizard.osFile /\ x.dialogs = wizard.dialogs
        /\ \A f \in Names \ OfTheView : x[f] = wizard[f]
    BY <1>2 DEF Names, OfTheView
  <2>2. wizard' = x
    BY <1>6 DEF W!CancelProgress
  <2> HIDE DEF x
  <2> QED BY <1>1, <1>2, <2>1, <2>2, ViewSteps
<1>7. CASE W!DismissError
  <2> DEFINE x == [wizard EXCEPT !.dialogs = @ \ {"error"}]
  <2>1. /\ DOMAIN x = Names /\ x.osFile = wizard.osFile /\ x.dialogs = wizard.dialogs \ {"error"}
        /\ \A f \in Names \ OfTheView : x[f] = wizard[f]
    BY <1>2 DEF Names, OfTheView
  <2>2. wizard' = x
    BY <1>7 DEF W!DismissError, W!OnDialog
  <2> HIDE DEF x
  <2> QED BY <1>1, <1>2, <2>1, <2>2, ViewSteps
<1>8. CASE W!onDismissWeb
  <2> DEFINE x == [wizard EXCEPT !.dialogs = @ \ {"web"}]
  <2>1. /\ DOMAIN x = Names /\ x.osFile = wizard.osFile /\ x.dialogs = wizard.dialogs \ {"web"}
        /\ \A f \in Names \ OfTheView : x[f] = wizard[f]
    BY <1>2 DEF Names, OfTheView
  <2>2. wizard' = W!movePreviousPage(x) \/ wizard' = W!Ended(x, "nav")
    BY <1>8 DEF W!onDismissWeb
  <2> HIDE DEF x
  <2> QED BY <1>1, <1>2, <2>1, <2>2, ViewSteps
<1>9. CASE W!OfflineOk \/ W!OfflineCancelled
  <2>1. /\ "offline" \in wizard.dialogs
        /\ \/ wizard' = [wizard EXCEPT !.finishing = FALSE, !.dialogs = @ \ {"offline"}]
           \/ wizard' = [wizard EXCEPT !.gaveUp = TRUE, !.dialogs = @ \ {"offline"}]
    BY <1>2, <1>9 DEF W!OfflineOk, W!OfflineCancelled, W!OnDialog, Names
  <2>2. /\ DOMAIN wizard' = Names /\ wizard'.dialogs = wizard.dialogs \ {"offline"}
        /\ \A f \in Names \ OfTheFinish : wizard'[f] = wizard[f]
        /\ wizard'.at = "open" /\ wizard'.torn = wizard.torn
        /\ wizard'.making = wizard.making /\ wizard'.posted = wizard.posted
        /\ wizard'.dropped = wizard.dropped /\ wizard'.download = wizard.download
        /\ wizard'.finishing \in {FALSE, wizard.finishing}
    BY <1>1, <1>2, <2>1 DEF Names, OfTheFinish
  <2>3. Counts(wizard') /\ wizard'.download \in Rom \cup {W!None} /\ wizard'.finishing \in BOOLEAN
    BY <2>2 DEF Counts, WizardTyped
  <2>4. UnderWay(wizard') + 1 = UnderWay(wizard)
    <3> DEFINE a == Len(wizard.making)
               d == IF wizard.download = W!None THEN 0 ELSE 1
    <3>1. a \in Nat /\ d \in Nat /\ wizard.posted \in Nat /\ wizard.dropped \in Nat
      BY DEF WizardTyped
    <3>2. UnderWay(wizard) = a + wizard.posted + wizard.dropped + d + 1
      BY <2>1 DEF UnderWay
    <3>3. UnderWay(wizard') = a + wizard.posted + wizard.dropped + d + 0
      BY <2>2 DEF UnderWay
    <3> HIDE DEF a, d
    <3> QED BY <3>1, <3>2, <3>3
  <2>5. RomsOf(wizard') = RomsOf(wizard)
    BY <2>2 DEF RomsOf
  <2> QED BY <1>1, <2>2, <2>3, <2>4, <2>5, FinishSteps DEF StepKeeps
<1> QED BY <1>3, <1>4, <1>5, <1>6, <1>7, <1>8, <1>9 DEF W!User

(* The answer of a search, which is of the calculator chosen. *)
OfTheSearch == {"searches", "found", "foundOs", "next", "late"}

LEMMA SearchSteps ==
  ASSUME WizardInv(wizard), wizard.at = "open", wizard.searches # <<>>, NEW x, DOMAIN x = Names,
         x.searches = Tail(wizard.searches),
         \/ x.found = wizard.found /\ x.foundOs = wizard.foundOs
         \/ x.found \in {"file", "os", "os_download"} /\ x.foundOs = Head(wizard.searches),
         \A f \in Names \ OfTheSearch : x[f] = wizard[f],
         wizard' = x \/ W!MoveOn(x) \/ wizard' = W!Ended(x, "nav")
  PROVE  StepKeeps
<1>1. wizard.page = "choose_os" /\ wizard.searches = <<wizard.chosen>>
  BY DEF ForChosen
<1>2. x.searches = <<>> /\ Head(wizard.searches) = wizard.chosen
  BY <1>1
<1>3. /\ x.at = "open" /\ x.page = wizard.page /\ x.stack = wizard.stack /\ x.chosen = wizard.chosen
      /\ x.data = wizard.data /\ x.making = wizard.making /\ x.download = wizard.download
      /\ x.posted = wizard.posted /\ x.dropped = wizard.dropped /\ x.osFile = wizard.osFile
      /\ x.finishing = wizard.finishing /\ x.torn = wizard.torn /\ x.dialogs = wizard.dialogs
  BY DEF Names, OfTheSearch
<1>4. OneFinish(x) /\ RomsOf(x) = RomsOf(wizard)
  BY <1>3, SameUnderWay
<1>5. WizardTyped(x)
  <2>1. x.searches \in Seq(Models)
    <3>1. <<>> \in Seq(Models)
      OBVIOUS
    <3> QED BY <1>2, <3>1
  <2>2. x.found \in {"nothing", "file", "os", "os_download"}
    BY DEF WizardTyped
  <2> QED BY <1>3, <2>1, <2>2 DEF WizardTyped
<1>6. WayBack(x) /\ ForChosen(x)
  BY <1>1, <1>2, <1>3 DEF WayBack, ForChosen
<1>7. CASE wizard' = x
  BY <1>4, <1>5, <1>6, <1>7, SameRoms DEF StepKeeps
<1>8. CASE W!MoveOn(x)
  <2>1. WizardInv(wizard') /\ AddsAsChosen(x, wizard')
    BY <1>3, <1>4, <1>5, <1>6, <1>8, MoveOnKeeps
  <2> QED BY <1>3, <1>4, <2>1, AddsAfter DEF StepKeeps
<1>9. CASE wizard' = W!Ended(x, "nav")
  <2>1. "nav" # "open" /\ "nav" # "empty stack" /\ "nav" # "download running"
    OBVIOUS
  <2>2. WizardInv(wizard') /\ RomsOf(wizard') = RomsOf(x)
    BY <1>3, <1>4, <1>5, <1>6, <1>9, <2>1, EndKeeps
  <2> QED BY <1>4, <2>2, SameRoms DEF StepKeeps
<1> QED BY <1>7, <1>8, <1>9

LEMMA SearchKeeps ==
  ASSUME WizardInv(wizard), W!SearchEnds
  PROVE  StepKeeps
<1>1. wizard.at = "open" /\ wizard.searches # <<>> /\ DOMAIN wizard = Names
  BY DEF W!SearchEnds, W!Open, WizardTyped
<1>2. CASE W!SearchSucceeds
  <2>1. PICK result \in {"file", "os", "os_download"} :
          LET w == [wizard EXCEPT !.searches = Tail(@), !.found = result,
                                  !.foundOs = Head(wizard.searches)]
          IN IF "choose_os" \in wizard.known THEN W!MoveOn(w) ELSE wizard' = [w EXCEPT !.late = TRUE]
    BY <1>2 DEF W!SearchSucceeds
  <2> DEFINE w == [wizard EXCEPT !.searches = Tail(@), !.found = result,
                                 !.foundOs = Head(wizard.searches)]
             l == [w EXCEPT !.late = TRUE]
  <2>2. /\ DOMAIN w = Names /\ w.searches = Tail(wizard.searches)
        /\ w.found = result /\ w.foundOs = Head(wizard.searches)
        /\ \A f \in Names \ OfTheSearch : w[f] = wizard[f]
    BY <1>1 DEF Names, OfTheSearch
  <2>3. W!MoveOn(w) \/ wizard' = l
    BY <2>1
  <2> HIDE DEF w
  <2>4. /\ DOMAIN l = Names /\ l.searches = Tail(wizard.searches)
        /\ l.found = result /\ l.foundOs = Head(wizard.searches)
        /\ \A f \in Names \ OfTheSearch : l[f] = wizard[f]
    BY <2>2 DEF Names, OfTheSearch
  <2> HIDE DEF l
  <2>5. CASE W!MoveOn(w)
    BY <1>1, <2>2, <2>5, SearchSteps
  <2>6. CASE wizard' = l
    BY <1>1, <2>4, <2>6, SearchSteps
  <2> QED BY <2>3, <2>5, <2>6
<1>3. CASE W!SearchFails
  <2> DEFINE w == [wizard EXCEPT !.searches = Tail(@), !.next = FALSE]
  <2>1. /\ DOMAIN w = Names /\ w.searches = Tail(wizard.searches)
        /\ w.found = wizard.found /\ w.foundOs = wizard.foundOs
        /\ \A f \in Names \ OfTheSearch : w[f] = wizard[f]
    BY <1>1 DEF Names, OfTheSearch
  <2>2. W!MoveOn(w) \/ wizard' = W!Ended(w, "nav")
    BY <1>3 DEF W!SearchFails, W!GoOn
  <2> HIDE DEF w
  <2> QED BY <1>1, <2>1, <2>2, SearchSteps
<1> QED BY <1>2, <1>3 DEF W!SearchEnds

LEMMA SystemKeeps ==
  ASSUME WizardInv(wizard), W!System
  PROVE  StepKeeps
<1>1. DOMAIN wizard = Names /\ wizard.osFile \in {"own", "none"}
  BY DEF WizardTyped
<1>2. CASE W!onAnimationEnd
  <2> DEFINE x == [wizard EXCEPT !.animating = FALSE, !.next = wizard.page \notin W!Leading,
                                 !.known = @ \cup (W!Leading \cap {wizard.page})]
  <2>1. /\ DOMAIN x = Names /\ x.osFile = wizard.osFile /\ x.dialogs = wizard.dialogs
        /\ \A f \in Names \ OfTheView : x[f] = wizard[f]
    BY <1>1 DEF Names, OfTheView
  <2>2. wizard.at = "open" /\ (W!MoveOn(x) \/ wizard' = x)
    BY <1>2 DEF W!onAnimationEnd, W!Open
  <2> HIDE DEF x
  <2> QED BY <1>1, <2>1, <2>2, ViewSteps
<1>3. CASE W!onPause
  <2>1. /\ wizard.at = "open"
        /\ wizard' = [wizard EXCEPT !.visible = FALSE, !.download = W!None,
                                    !.dropped = IF wizard.download = W!None THEN @ ELSE @ + 1]
    BY <1>3 DEF W!onPause, W!Open
  <2>2. /\ DOMAIN wizard' = Names /\ wizard'.dialogs = wizard.dialogs
        /\ \A f \in Names \ OfTheFinish : wizard'[f] = wizard[f]
        /\ wizard'.at = "open" /\ wizard'.torn = wizard.torn
        /\ wizard'.making = wizard.making /\ wizard'.posted = wizard.posted
        /\ wizard'.download = W!None /\ wizard'.finishing = wizard.finishing
        /\ wizard'.dropped = IF wizard.download = W!None THEN wizard.dropped ELSE wizard.dropped + 1
    BY <1>1, <2>1 DEF Names, OfTheFinish
  <2>3. Counts(wizard') /\ wizard'.finishing \in BOOLEAN
    BY <2>2 DEF Counts, WizardTyped
  <2>4. UnderWay(wizard') = UnderWay(wizard)
    <3> DEFINE a == Len(wizard.making)
               o == IF "offline" \in wizard.dialogs THEN 1 ELSE 0
    <3>1. a \in Nat /\ o \in Nat /\ wizard.posted \in Nat /\ wizard.dropped \in Nat
      BY DEF WizardTyped
    <3>2. UnderWay(wizard) = a + wizard.posted + wizard.dropped
                               + (IF wizard.download = W!None THEN 0 ELSE 1) + o
      BY DEF UnderWay
    <3>3. UnderWay(wizard') = a + wizard.posted + wizard'.dropped + 0 + o
      BY <2>2 DEF UnderWay
    <3> HIDE DEF a, o
    <3> QED BY <2>2, <3>1, <3>2, <3>3
  <2>5. RomsOf(wizard') \subseteq RomsOf(wizard) \cup {W!None}
    BY <2>2 DEF RomsOf
  <2>6. WizardInv(wizard') /\ AddsAsChosen(wizard, wizard')
    <3>1. wizard.at = "open" /\ wizard'.download \in Rom \cup {W!None}
          /\ wizard'.at # "empty stack" /\ wizard'.at # "download running"
      BY <2>1, <2>2
    <3> QED BY <2>2, <2>3, <2>4, <2>5, <3>1, FinishSteps
  <2> QED BY <2>6 DEF StepKeeps
<1>4. CASE W!onResume
  <2> DEFINE x == [wizard EXCEPT !.visible = TRUE]
  <2>1. /\ DOMAIN x = Names /\ x.osFile = wizard.osFile /\ x.dialogs = wizard.dialogs
        /\ \A f \in Names \ OfTheView : x[f] = wizard[f]
    BY <1>1 DEF Names, OfTheView
  <2>2. wizard.at = "open" /\ wizard' = x
    BY <1>4 DEF W!onResume, W!Open
  <2> HIDE DEF x
  <2> QED BY <1>1, <2>1, <2>2, ViewSteps
<1>5. CASE W!Restart
  <2>1. wizard' = W!Fresh
    BY <1>5 DEF W!Restart
  <2>2. RomsOf(W!Fresh) = {W!None}
    <3>1. DOMAIN <<>> = {}
      OBVIOUS
    <3> QED BY <3>1 DEF RomsOf, W!Fresh, W!ToSet
  <2>3. AddsAsChosen(wizard, W!Fresh)
    BY <2>2 DEF AddsAsChosen
  <2> QED BY <2>1, <2>3, FreshWizardInv DEF StepKeeps
<1>6. CASE W!SearchEnds
  BY <1>6, SearchKeeps
<1>7. CASE W!onPageFinished
  <2> DEFINE x == [wizard EXCEPT !.web = "shown"]
  <2>1. /\ DOMAIN x = Names /\ x.osFile = wizard.osFile /\ x.dialogs = wizard.dialogs
        /\ \A f \in Names \ OfTheView : x[f] = wizard[f]
    BY <1>1 DEF Names, OfTheView
  <2>2. wizard.at = "open" /\ wizard' = x
    BY <1>7 DEF W!onPageFinished, W!Open
  <2> HIDE DEF x
  <2> QED BY <1>1, <2>1, <2>2, ViewSteps
<1>8. CASE W!onReceivedError
  <2> DEFINE x == [wizard EXCEPT !.web = "failed", !.dialogs = @ \cup {"web"}]
  <2>1. /\ DOMAIN x = Names /\ x.osFile = wizard.osFile /\ x.dialogs = wizard.dialogs \cup {"web"}
        /\ \A f \in Names \ OfTheView : x[f] = wizard[f]
    BY <1>1 DEF Names, OfTheView
  <2>2. wizard.at = "open" /\ wizard' = x
    BY <1>8 DEF W!onReceivedError, W!Open
  <2> HIDE DEF x
  <2> QED BY <1>1, <2>1, <2>2, ViewSteps
<1>9. CASE W!onFoundCode
  <2> DEFINE x == [wizard EXCEPT !.code = TRUE]
  <2>1. /\ DOMAIN x = Names /\ x.osFile = wizard.osFile /\ x.dialogs = wizard.dialogs
        /\ \A f \in Names \ OfTheView : x[f] = wizard[f]
    BY <1>1 DEF Names, OfTheView
  <2>2. wizard.at = "open" /\ (W!MoveOn(x) \/ wizard' = W!Ended(x, "nav"))
    BY <1>9 DEF W!onFoundCode, W!GoOn, W!Open
  <2> HIDE DEF x
  <2> QED BY <1>1, <2>1, <2>2, ViewSteps
<1> QED BY <1>2, <1>3, <1>4, <1>5, <1>6, <1>7, <1>8, <1>9 DEF W!System

(* The tasks of the finish. *)
LEMMA TailSet ==
  ASSUME NEW S, NEW s \in Seq(S), s # <<>>
  PROVE  /\ W!ToSet(Tail(s)) \subseteq W!ToSet(s)
         /\ Tail(s) \in Seq(S) /\ Len(Tail(s)) + 1 = Len(s)
<1>1. /\ Tail(s) \in Seq(S) /\ Len(Tail(s)) + 1 = Len(s) /\ Len(s) \in Nat
      /\ DOMAIN Tail(s) = 1 .. Len(s) - 1 /\ DOMAIN s = 1 .. Len(s)
      /\ \A i \in 1 .. Len(s) - 1 : Tail(s)[i] = s[i + 1]
  OBVIOUS
<1>2. ASSUME NEW i \in DOMAIN Tail(s) PROVE Tail(s)[i] \in W!ToSet(s)
  <2>1. i + 1 \in DOMAIN s /\ Tail(s)[i] = s[i + 1]
    BY <1>1
  <2> QED BY <2>1 DEF W!ToSet
<1> QED BY <1>1, <1>2 DEF W!ToSet

LEMMA SumOneLess ==
  ASSUME NEW a \in Nat, NEW p \in Nat, NEW r \in Nat, NEW d \in Nat, NEW o \in Nat,
         NEW b \in Nat, NEW q \in Nat, NEW t \in Nat, NEW e \in Nat,
         \/ b + 1 = a /\ q = p /\ t = r /\ e = d
         \/ b = a /\ q + 1 = p /\ t = r /\ e = d
         \/ b = a /\ q = p /\ t + 1 = r /\ e = d
         \/ b = a /\ q = p /\ t = r /\ e + 1 = d
  PROVE  (b + q + t + e + o) + 1 = a + p + r + d + o
OBVIOUS

LEMMA SumSame ==
  ASSUME NEW a \in Nat, NEW p \in Nat, NEW r \in Nat, NEW d \in Nat, NEW o \in Nat,
         NEW b \in Nat, NEW q \in Nat, NEW t \in Nat, NEW e \in Nat,
         \/ b = a + 1 /\ q = p /\ t = r /\ e + 1 = d
         \/ b + 1 = a /\ q = p + 1 /\ t = r /\ e = d
  PROVE  b + q + t + e + o = a + p + r + d + o
OBVIOUS

Loading(x) == IF x.download = W!None THEN 0 ELSE 1
Asking(x) == IF "offline" \in x.dialogs THEN 1 ELSE 0

OneEnds(w, x) ==
  \/ /\ Len(x.making) + 1 = Len(w.making) /\ x.posted = w.posted
     /\ x.dropped = w.dropped /\ Loading(x) = Loading(w)
  \/ /\ Len(x.making) = Len(w.making) /\ x.posted + 1 = w.posted
     /\ x.dropped = w.dropped /\ Loading(x) = Loading(w)
  \/ /\ Len(x.making) = Len(w.making) /\ x.posted = w.posted
     /\ x.dropped + 1 = w.dropped /\ Loading(x) = Loading(w)
  \/ /\ Len(x.making) = Len(w.making) /\ x.posted = w.posted
     /\ x.dropped = w.dropped /\ Loading(x) + 1 = Loading(w)

OneGoesOn(w, x) ==
  \/ /\ Len(x.making) = Len(w.making) + 1 /\ x.posted = w.posted
     /\ x.dropped = w.dropped /\ Loading(x) + 1 = Loading(w)
  \/ /\ Len(x.making) + 1 = Len(w.making) /\ x.posted = w.posted + 1
     /\ x.dropped = w.dropped /\ Loading(x) = Loading(w)

LEMMA UnderWayCompared ==
  ASSUME NEW w, NEW x, Counts(w), Counts(x), Asking(x) = Asking(w)
  PROVE  /\ OneEnds(w, x) => UnderWay(x) + 1 = UnderWay(w)
         /\ OneGoesOn(w, x) => UnderWay(x) = UnderWay(w)
<1> DEFINE a == Len(w.making)
           p == w.posted
           r == w.dropped
           d == Loading(w)
           b == Len(x.making)
           q == x.posted
           t == x.dropped
           e == Loading(x)
           o == Asking(w)
<1>1. a \in Nat /\ p \in Nat /\ r \in Nat /\ b \in Nat /\ q \in Nat /\ t \in Nat
  BY DEF Counts
<1>2. d \in Nat /\ e \in Nat /\ o \in Nat
  BY DEF Loading, Asking
<1>3. UnderWay(w) = a + p + r + d + o /\ UnderWay(x) = b + q + t + e + o
  BY DEF UnderWay, Loading, Asking
<1>4. /\ OneEnds(w, x) => \/ b + 1 = a /\ q = p /\ t = r /\ e = d
                          \/ b = a /\ q + 1 = p /\ t = r /\ e = d
                          \/ b = a /\ q = p /\ t + 1 = r /\ e = d
                          \/ b = a /\ q = p /\ t = r /\ e + 1 = d
      /\ OneGoesOn(w, x) => \/ b = a + 1 /\ q = p /\ t = r /\ e + 1 = d
                            \/ b + 1 = a /\ q = p + 1 /\ t = r /\ e = d
  BY DEF OneEnds, OneGoesOn
<1> HIDE DEF a, p, r, d, b, q, t, e, o
<1>5. OneEnds(w, x) => (b + q + t + e + o) + 1 = a + p + r + d + o
  BY <1>1, <1>2, <1>4, SumOneLess
<1>6. OneGoesOn(w, x) => b + q + t + e + o = a + p + r + d + o
  BY <1>1, <1>2, <1>4, SumSame
<1> QED BY <1>3, <1>5, <1>6

LEMMA FinishStepsKeep ==
  ASSUME WizardInv(wizard), W!Finish
  PROVE  StepKeeps
<1>1. /\ DOMAIN wizard = Names /\ wizard.at = "open"
      /\ wizard.making \in Seq(Rom) /\ wizard.download \in Rom \cup {W!None}
      /\ wizard.posted \in Nat /\ wizard.dropped \in Nat /\ wizard.finishing \in BOOLEAN
  BY DEF WizardTyped, W!Finish, W!DownloadEnds, W!onCancelled, W!CreationEnds, W!RunPosted, W!Open
<1>2. Counts(wizard)
  BY <1>1 DEF Counts
<1> DEFINE Framed == /\ DOMAIN wizard' = Names /\ wizard'.torn = wizard.torn
                     /\ \A f \in Names \ OfTheFinish : wizard'[f] = wizard[f]
                     /\ wizard'.at # "empty stack" /\ wizard'.at # "download running"
                     /\ wizard'.finishing \in {FALSE, wizard.finishing}
                     /\ "offline" \in wizard'.dialogs <=> "offline" \in wizard.dialogs
<1>3. ASSUME Framed, Counts(wizard'), wizard'.download \in {wizard.download, W!None},
             RomsOf(wizard') \subseteq RomsOf(wizard) \cup {W!None},
             \/ UnderWay(wizard') + 1 = UnderWay(wizard)
             \/ UnderWay(wizard') = UnderWay(wizard) /\ wizard'.finishing = wizard.finishing
      PROVE  StepKeeps
  <2>1. wizard'.finishing \in BOOLEAN /\ wizard'.download \in Rom \cup {W!None}
    BY <1>1, <1>3
  <2>2. WizardInv(wizard') /\ AddsAsChosen(wizard, wizard')
    BY <1>1, <1>3, <2>1, FinishSteps
  <2> QED BY <2>2 DEF StepKeeps
<1>4. Framed => Asking(wizard') = Asking(wizard)
  BY DEF Asking
<1> HIDE DEF WizardInv
<1>5. CASE W!DownloadEnds
  <2>1. wizard.download # W!None /\ wizard.download \in Rom
    BY <1>1, <1>5 DEF W!DownloadEnds
  <2>2. CASE wizard' = [[wizard EXCEPT !.download = W!None] EXCEPT !.making = Append(@, wizard.download)]
    <3>1. /\ wizard'.making = Append(wizard.making, wizard.download) /\ wizard'.download = W!None
          /\ wizard'.posted = wizard.posted /\ wizard'.dropped = wizard.dropped
          /\ wizard'.finishing = wizard.finishing
      BY <1>1, <2>2 DEF Names
    <3>2. Framed
      BY <1>1, <2>2 DEF Names, OfTheFinish
    <3> HIDE DEF Framed
    <3>3. /\ wizard'.making \in Seq(Rom) /\ Len(wizard'.making) = Len(wizard.making) + 1
          /\ W!ToSet(wizard'.making) \subseteq W!ToSet(wizard.making) \cup {wizard.download}
      BY <1>1, <2>1, <3>1, AppendedSet
    <3>4. Counts(wizard') /\ RomsOf(wizard') \subseteq RomsOf(wizard) \cup {W!None}
      BY <1>1, <3>1, <3>3 DEF Counts, RomsOf
    <3>5. Loading(wizard') + 1 = Loading(wizard)
      BY <2>1, <3>1 DEF Loading
    <3>6. UnderWay(wizard') = UnderWay(wizard)
      BY <1>2, <1>4, <3>1, <3>2, <3>3, <3>4, <3>5, UnderWayCompared DEF OneGoesOn
    <3> QED BY <1>3, <3>1, <3>2, <3>4, <3>6
  <2>3. CASE wizard' = W!showError([wizard EXCEPT !.download = W!None])
    <3>1. /\ wizard'.making = wizard.making /\ wizard'.download = W!None
          /\ wizard'.posted = wizard.posted /\ wizard'.dropped = wizard.dropped
      BY <1>1, <2>3 DEF Names, W!showError
    <3>2. Framed
      BY <1>1, <2>3 DEF Names, OfTheFinish, W!showError
    <3> HIDE DEF Framed
    <3>3. Counts(wizard') /\ RomsOf(wizard') \subseteq RomsOf(wizard) \cup {W!None}
      BY <1>1, <3>1 DEF Counts, RomsOf
    <3>4. Loading(wizard') + 1 = Loading(wizard)
      BY <2>1, <3>1 DEF Loading
    <3>5. UnderWay(wizard') + 1 = UnderWay(wizard)
      BY <1>2, <1>4, <3>1, <3>2, <3>3, <3>4, UnderWayCompared DEF OneEnds, OneGoesOn
    <3> QED BY <1>3, <3>1, <3>2, <3>3, <3>5
  <2> QED BY <1>5, <2>2, <2>3 DEF W!DownloadEnds
<1>6. CASE W!onCancelled
  <2>1. CASE wizard.download # W!None /\ wizard' = [wizard EXCEPT !.download = W!None, !.finishing = FALSE]
    <3>1. /\ wizard'.making = wizard.making /\ wizard'.download = W!None
          /\ wizard'.posted = wizard.posted /\ wizard'.dropped = wizard.dropped
      BY <1>1, <2>1 DEF Names
    <3>2. Framed
      BY <1>1, <2>1 DEF Names, OfTheFinish
    <3> HIDE DEF Framed
    <3>3. Counts(wizard') /\ RomsOf(wizard') \subseteq RomsOf(wizard) \cup {W!None}
      BY <1>1, <3>1 DEF Counts, RomsOf
    <3>4. Loading(wizard') + 1 = Loading(wizard)
      BY <2>1, <3>1 DEF Loading
    <3>5. UnderWay(wizard') + 1 = UnderWay(wizard)
      BY <1>2, <1>4, <3>1, <3>2, <3>3, <3>4, UnderWayCompared DEF OneEnds, OneGoesOn
    <3> QED BY <1>3, <3>1, <3>2, <3>3, <3>5
  <2>2. CASE wizard.dropped > 0 /\ wizard' = [wizard EXCEPT !.dropped = @ - 1, !.finishing = FALSE]
    <3>1. /\ wizard'.making = wizard.making /\ wizard'.download = wizard.download
          /\ wizard'.posted = wizard.posted /\ wizard'.dropped = wizard.dropped - 1
      BY <1>1, <2>2 DEF Names
    <3>2. Framed
      BY <1>1, <2>2 DEF Names, OfTheFinish
    <3> HIDE DEF Framed
    <3>3. Counts(wizard') /\ wizard'.dropped + 1 = wizard.dropped
      BY <1>1, <2>2, <3>1 DEF Counts
    <3>4. RomsOf(wizard') = RomsOf(wizard) /\ Loading(wizard') = Loading(wizard)
      BY <3>1 DEF RomsOf, Loading
    <3>5. UnderWay(wizard') + 1 = UnderWay(wizard)
      BY <1>2, <1>4, <3>1, <3>2, <3>3, <3>4, UnderWayCompared DEF OneEnds, OneGoesOn
    <3> QED BY <1>3, <3>1, <3>2, <3>3, <3>4, <3>5
  <2> QED BY <1>6, <2>1, <2>2 DEF W!onCancelled, W!Reported
<1>7. CASE W!CreationEnds
  <2> DEFINE w == [wizard EXCEPT !.making = Tail(@)]
  <2>1. wizard.making # <<>>
    BY <1>7 DEF W!CreationEnds
  <2>2. /\ Tail(wizard.making) \in Seq(Rom) /\ Len(Tail(wizard.making)) + 1 = Len(wizard.making)
        /\ W!ToSet(Tail(wizard.making)) \subseteq W!ToSet(wizard.making)
    BY <1>1, <2>1, TailSet
  <2>3. CASE \/ wizard' = W!Ended(w, "native")
             \/ wizard' = W!Ended(w, "done")
             \/ wizard' = W!Ended(W!showError(w), "looper")
    <3>1. /\ wizard'.making = Tail(wizard.making) /\ wizard'.download = wizard.download
          /\ wizard'.posted = wizard.posted /\ wizard'.dropped = wizard.dropped
      BY <1>1, <2>3 DEF Names, W!Ended, W!showError
    <3>2. Framed
      <4>1. CASE wizard' = W!Ended(w, "native") \/ wizard' = W!Ended(w, "done")
        BY <1>1, <4>1 DEF Names, OfTheFinish, W!Ended
      <4>2. CASE wizard' = W!Ended(W!showError(w), "looper")
        BY <1>1, <4>2 DEF Names, OfTheFinish, W!Ended, W!showError
      <4> QED BY <2>3, <4>1, <4>2
    <3> HIDE DEF Framed
    <3>3. Counts(wizard') /\ RomsOf(wizard') \subseteq RomsOf(wizard)
      BY <1>1, <2>2, <3>1 DEF Counts, RomsOf
    <3>4. Loading(wizard') = Loading(wizard)
      BY <3>1 DEF Loading
    <3>5. UnderWay(wizard') + 1 = UnderWay(wizard)
      BY <1>2, <1>4, <2>2, <3>1, <3>2, <3>3, <3>4, UnderWayCompared DEF OneEnds, OneGoesOn
    <3> QED BY <1>3, <3>1, <3>2, <3>3, <3>5
  <2>4. CASE wizard' = [w EXCEPT !.posted = @ + 1]
    <3>1. /\ wizard'.making = Tail(wizard.making) /\ wizard'.download = wizard.download
          /\ wizard'.posted = wizard.posted + 1 /\ wizard'.dropped = wizard.dropped
          /\ wizard'.finishing = wizard.finishing
      BY <1>1, <2>4 DEF Names
    <3>2. Framed
      BY <1>1, <2>4 DEF Names, OfTheFinish
    <3> HIDE DEF Framed
    <3>3. Counts(wizard') /\ RomsOf(wizard') \subseteq RomsOf(wizard)
      BY <1>1, <2>2, <3>1 DEF Counts, RomsOf
    <3>4. Loading(wizard') = Loading(wizard)
      BY <3>1 DEF Loading
    <3>5. UnderWay(wizard') = UnderWay(wizard)
      BY <1>2, <1>4, <2>2, <3>1, <3>2, <3>3, <3>4, UnderWayCompared DEF OneEnds, OneGoesOn
    <3> QED BY <1>3, <3>1, <3>2, <3>3, <3>5
  <2> QED BY <1>7, <2>3, <2>4 DEF W!CreationEnds
<1>8. CASE W!RunPosted
  <2>1. wizard.posted > 0 /\ wizard' = W!showError([wizard EXCEPT !.posted = @ - 1])
    BY <1>8 DEF W!RunPosted
  <2>2. /\ wizard'.making = wizard.making /\ wizard'.download = wizard.download
        /\ wizard'.posted = wizard.posted - 1 /\ wizard'.dropped = wizard.dropped
    BY <1>1, <2>1 DEF Names, W!showError
  <2>3. Framed
    BY <1>1, <2>1 DEF Names, OfTheFinish, W!showError
  <2> HIDE DEF Framed
  <2>4. Counts(wizard') /\ wizard'.posted + 1 = wizard.posted
    BY <1>1, <2>1, <2>2 DEF Counts
  <2>5. RomsOf(wizard') = RomsOf(wizard) /\ Loading(wizard') = Loading(wizard)
    BY <2>2 DEF RomsOf, Loading
  <2>6. UnderWay(wizard') + 1 = UnderWay(wizard)
    BY <1>2, <1>4, <2>2, <2>3, <2>4, <2>5, UnderWayCompared DEF OneEnds
  <2> QED BY <1>3, <2>2, <2>3, <2>4, <2>5, <2>6
<1> QED BY <1>5, <1>6, <1>7, <1>8 DEF W!Finish

(***************************************************************************)
(* The application: the session of the emulator leaves the wizard alone.   *)
(***************************************************************************)
LEMMA ApplicationKeeps ==
  ASSUME WizardInv(wizard), [MCNext]_<<part, vars, wizard>>
  PROVE  StepKeeps
<1>1. CASE wizard' = wizard
  BY <1>1 DEF StepKeeps, AddsAsChosen
<1>2. CASE W!User
  BY <1>2, UserKeeps
<1>3. CASE W!System
  BY <1>3, SystemKeeps
<1>4. CASE W!Finish
  BY <1>4, FinishStepsKeep
<1> HIDE DEF WizardInv
<1> QED
  BY <1>1, <1>2, <1>3, <1>4
  DEF MCNext, Session, WizardUser, WizardSystem, WizardFinish

LEMMA WizardInvHolds == MCSpec => []WizardInv(wizard)
<1>1. MCInit => WizardInv(wizard)
  BY FreshWizardInv DEF MCInit, W!Init
<1>2. WizardInv(wizard) /\ [MCNext]_<<part, vars, wizard>> => WizardInv(wizard)'
  BY ApplicationKeeps DEF StepKeeps
<1> HIDE DEF WizardInv
<1> QED BY <1>1, <1>2, PTL DEF MCSpec

(* Whatever calculators the wizard offers and however often its user moves between   *)
(* the pages: a page that can be left backwards finds the data of an earlier one     *)
(* (WizardController.movePreviousPage pops a stack that is not empty), and "Invalid  *)
(* state, download running" of WizardActivity is thrown only after a boot page could *)
(* not be written.                                                                   *)
THEOREM NoAssertionFails == MCSpec => []AssertionsHold
<1>1. WizardInv(wizard) => AssertionsHold
  BY DEF OneFinish, AssertionsHold, W!AssertionsHold
<1> HIDE DEF WizardInv
<1> QED BY <1>1, WizardInvHolds, PTL

(* A ROM that a finish begins to make, at once or by a download, is for the          *)
(* calculator chosen last, of an OS searched for this calculator or of a file of the *)
(* user, whatever was chosen, searched, cancelled and answered late before it.       *)
THEOREM RomIsAsChosen == MCSpec => RomAsChosen
<1>1. WizardInv(wizard) /\ [MCNext]_<<part, vars, wizard>> =>
        [\A rom \in (W!ToSet(wizard'.making) \cup {wizard'.download})
                       \ (W!ToSet(wizard.making) \cup {wizard.download, W!None}) :
           rom.model = wizard.chosen /\ rom.os \in {rom.model, "own", "none"}]_wizard
  BY ApplicationKeeps DEF StepKeeps, AddsAsChosen, RomsOf
<1> HIDE DEF WizardInv
<1> QED BY <1>1, WizardInvHolds, PTL DEF MCSpec, RomAsChosen, W!RomAsChosen, W!vars
================================================================================
