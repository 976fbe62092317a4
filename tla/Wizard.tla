------------------------------- MODULE Wizard -------------------------------
(***************************************************************************)
(* The wizard that finds or makes a first ROM: the pages and the stack of  *)
(* their data (WizardController), the buttons, the page controllers, the   *)
(* search for an OS, the web page that hands out a download code, and the  *)
(* finish with its download and its ROM (WizardActivity).                  *)
(*                                                                         *)
(* Every step is one handler of the UI thread, or of the calc thread that  *)
(* creates the ROM.  What the user has selected on a page is a choice at   *)
(* the moment the code looks at it.  Texts, files and the network are      *)
(* left out but for what they say to the wizard: an outcome.               *)
(***************************************************************************)
EXTENDS Naturals, Sequences, SequencesExt

CONSTANTS
  Models,    \* the calculators to choose from, "TI_84PCSE" and others
  Outcomes,  \* what a finish meets, see createRomCopyOs and createRomDownloadOs
  MaxMoves,  \* bound: moves from page to page
  MaxTasks   \* bound: cancelled downloads and ROMs under way

VARIABLE
  wizard     \* WizardController, its pages, WizardActivity and its tasks

vars == wizard

None == [class |-> "null"]
Model(m) == [class |-> "CalcModel", model |-> m]
\* os: the calculator that an OS was found for, "own" for a file of the user.
OSDownloadData(m, os) == [class |-> "OSDownloadData", model |-> m, os |-> os]
FinishWizardData(m, os, download) ==
  [class |-> "FinishWizardData", model |-> m, os |-> os, download |-> download]

\* What the user has selected, and what a finish will meet.
Views == [landing : {"browse_rom", "model"}, model : Models,
          os : {"download", "browse"}, outcome : Outcomes]

\* at: open, or how it ended.  known: the pages whose mNavController is set.
\* searches, download, making: the searches, the download and the ROMs under way.
\* chosen, torn, gaveUp are history: the calculator chosen last, whether a boot page
\* could not be written, whether a finish was left without a word.
Fresh ==
  [at |-> "open", visible |-> TRUE, dialogs |-> {},
   page |-> "landing", stack |-> <<>>, moves |-> 0, animating |-> FALSE, next |-> TRUE, known |-> {},
   data |-> [p \in {"choose_os", "os", "os_download", "browse_os"} |-> None],
   searches |-> <<>>, found |-> "nothing", foundOs |-> "none", late |-> FALSE,
   web |-> "idle", code |-> FALSE, romFile |-> FALSE, osFile |-> "none",
   finishing |-> FALSE, download |-> None, cancelled |-> FALSE, dropped |-> 0,
   making |-> <<>>, posted |-> 0, chosen |-> "none", torn |-> FALSE, gaveUp |-> FALSE]

Init == wizard = Fresh

Ended(w, how) == [w EXCEPT !.at = how]
Open == wizard.at = "open"
\* The user can reach the page: no dialog, and no download, covers it.
Free == /\ Open /\ wizard.visible /\ wizard.dialogs = {}
        /\ wizard.download = None /\ wizard.dropped = 0

-----------------------------------------------------------------------------
(* The pages: what each controller answers, and what it does when it is    *)
(* shown and hidden.                                                       *)

ModelOf(w) == w.data[w.page].model

isFinalPage(w, v) ==
  \/ w.page \in {"browse_rom", "os_download", "browse_os"}
  \/ w.page = "choose_os" /\ w.found = "file"
  \/ w.page = "os" /\ v.os = "download" /\ ModelOf(w) # "TI_84PCSE"

hasNextPage(w, v) ==
  \/ w.page \in {"landing", "model"}
  \/ w.page = "choose_os" /\ w.found \in {"os", "os_download"}
  \/ w.page = "os" /\ ~isFinalPage(w, v)

getNextPage(w, v) ==
  CASE w.page = "landing"   -> v.landing
    [] w.page = "model"     -> "choose_os"
    [] w.page = "choose_os" -> w.found
    [] w.page = "os"        -> IF ModelOf(w) = "TI_84PCSE" THEN "os_download" ELSE "browse_os"

getPreviousPage(page) ==
  CASE page \in {"browse_rom", "model"}            -> "landing"
    [] page \in {"choose_os", "os", "os_download"} -> "model"
    [] page = "browse_os"                          -> "os"

getControllerData(w, v) ==
  CASE w.page = "landing"     -> None
    [] w.page = "browse_rom"  -> IF w.romFile THEN FinishWizardData("NO_CALC", "own", FALSE) ELSE None
    [] w.page = "model"       -> Model(v.model)
    [] w.page = "choose_os"   -> IF w.found = "file"
                                 THEN FinishWizardData(ModelOf(w), w.foundOs, FALSE)
                                 ELSE OSDownloadData(ModelOf(w), w.foundOs)
    [] w.page = "os"          -> IF isFinalPage(w, v)
                                 THEN FinishWizardData(ModelOf(w), "none", TRUE)
                                 ELSE Model(ModelOf(w))
    [] w.page = "os_download" -> FinishWizardData(ModelOf(w), w.data[w.page].os, TRUE)
    [] w.page = "browse_os"   -> FinishWizardData(ModelOf(w), w.osFile, FALSE)

\* Faulty: the search goes on.
OnHidingSearching(w, page) == IF page = "os_download" THEN [w EXCEPT !.code = FALSE] ELSE w

onHiding(w, page) ==
  CASE page = "choose_os"   -> [w EXCEPT !.searches = Front(@)]
    [] page = "os_download" -> [w EXCEPT !.code = FALSE]
    [] OTHER                -> w

\* The class a page casts its data to.
Expected == [choose_os |-> "CalcModel", os |-> "OSDownloadData",
             os_download |-> "OSDownloadData", browse_os |-> "CalcModel"]

onShowing(w, data) ==
  IF w.page \notin DOMAIN Expected THEN w
  ELSE IF data.class # Expected[w.page] THEN Ended(w, "cast")
  ELSE LET shown == [w EXCEPT !.data[w.page] = data]
       IN CASE w.page = "choose_os"   -> [shown EXCEPT !.searches = Append(@, data.model),
                                                       !.found = "nothing", !.late = FALSE]
            [] w.page = "os_download" -> [shown EXCEPT !.web = "loading", !.code = FALSE]
            [] OTHER                  -> shown

-----------------------------------------------------------------------------
(* WizardActivity: the finish.                                             *)

showError(w) == [w EXCEPT !.finishing = FALSE, !.dialogs = @ \cup {"error"}]

\* A boot page that cannot be written is told of, and the finish goes on.
createRomCopyOs(w, v, data) ==
  LET made == [w EXCEPT !.making = Append(@, data)]
  IN CASE v.outcome = "no boot file"   -> showError(w)
       [] v.outcome = "boot unwritten" -> showError([made EXCEPT !.torn = TRUE])
       [] OTHER                        -> made

createRomDownloadOs(w, v, data) ==
  LET begun == [w EXCEPT !.download = data, !.cancelled = FALSE]
  IN CASE v.outcome = "no boot file"   -> showError(w)
       [] v.outcome = "no OS file"     -> [w EXCEPT !.gaveUp = TRUE]
       [] v.outcome = "boot unwritten" -> showError([begun EXCEPT !.torn = TRUE])
       [] OTHER                        -> begun

tryDownloadAndCreateRom(w, v, data) ==
  CASE w.download # None       -> Ended(w, "download running")
    [] w.download = None /\ v.outcome = "offline" -> [w EXCEPT !.dialogs = @ \cup {"offline"}]
    [] w.download = None /\ v.outcome # "offline" -> createRomDownloadOs(w, v, data)

onWizardFinished(w, v, data) ==
  LET begun == [w EXCEPT !.finishing = TRUE]
  IN CASE w.finishing                    -> w
       [] ~w.finishing /\ data = None    -> Ended(begun, "null data")
       [] ~w.finishing /\ data # None    ->
            CASE data.download -> tryDownloadAndCreateRom(begun, v, data)
              [] ~data.download /\ data.model = "NO_CALC" -> Ended(begun, "done")
              [] OTHER -> createRomCopyOs(begun, v, data)

-----------------------------------------------------------------------------
(* WizardController.                                                       *)

\* The animation of a page that is left at once never ends.
moveToPage(w, page, data) ==
  onShowing([onHiding(w, w.page) EXCEPT !.page = page, !.moves = @ + 1, !.animating = TRUE], data)

\* Faulty: the data of a page are not kept.
MoveNextUnkept(w, v) ==
  CASE isFinalPage(w, v) -> onWizardFinished(w, v, getControllerData(w, v))
    [] ~isFinalPage(w, v) /\ hasNextPage(w, v) ->
         moveToPage(w, getNextPage(w, v), getControllerData(w, v))
    [] OTHER -> w

moveNextPage(w, v) ==
  CASE isFinalPage(w, v) -> onWizardFinished(w, v, getControllerData(w, v))
    [] ~isFinalPage(w, v) /\ hasNextPage(w, v) ->
         LET data == getControllerData(w, v)
         IN moveToPage([w EXCEPT !.stack = Append(@, data)], getNextPage(w, v), data)
    [] OTHER -> w

movePreviousPage(w) ==
  CASE w.page = "landing"                     -> w
    [] w.page # "landing" /\ w.stack = <<>>   -> Ended(w, "empty stack")
    [] OTHER -> moveToPage([w EXCEPT !.stack = Front(@)], getPreviousPage(w.page), Last(w.stack))

-----------------------------------------------------------------------------
(* The user, the pages and their tasks.                                    *)

\* On from w, with whatever the user has selected.
MoveOn(w) ==
  /\ Len(w.making) + w.posted < MaxTasks
  /\ \E v \in Views :
       wizard' = moveNextPage(IF w.page = "model" THEN [w EXCEPT !.chosen = v.model] ELSE w, v)
  /\ wizard'.moves <= MaxMoves

PressNext == Free /\ wizard.next /\ MoveOn(wizard)

\* The button or the key; on the first page the key leaves.
PressBack ==
  /\ Free
  /\ wizard' = IF wizard.page = "landing" THEN Ended(wizard, "left") ELSE movePreviousPage(wizard)
  /\ wizard'.moves <= MaxMoves

\* The pages that hide the next button, and go on by themselves.
Leading == {"browse_rom", "choose_os", "os_download", "browse_os"}

onAnimationEnd ==
  LET launched == [wizard EXCEPT !.animating = FALSE, !.next = wizard.page \notin Leading,
                                 !.known = @ \cup (Leading \cap {wizard.page})]
  IN /\ Open /\ wizard.animating
     /\ IF wizard.page = "choose_os" /\ wizard.late THEN MoveOn(launched) ELSE wizard' = launched

\* A step of a page by itself, which asks the navigation it was given once to go on.
GoOn(page, w) == IF page \in wizard.known THEN MoveOn(w) ELSE wizard' = Ended(w, "nav")

SearchSucceeds ==
  \E result \in {"file", "os", "os_download"} :
    LET w == [wizard EXCEPT !.searches = Tail(@), !.found = result,
                            !.foundOs = Head(wizard.searches)]
    IN IF "choose_os" \in wizard.known THEN MoveOn(w) ELSE wizard' = [w EXCEPT !.late = TRUE]
SearchFails == GoOn("choose_os", [wizard EXCEPT !.searches = Tail(@), !.next = FALSE])
SearchEnds == Open /\ wizard.searches # <<>> /\ (SearchSucceeds \/ SearchFails)

BrowseRom == /\ Free /\ wizard.page = "browse_rom" /\ "browse_rom" \in wizard.known
             /\ MoveOn([wizard EXCEPT !.romFile = TRUE])
BrowseOs == /\ Free /\ wizard.page = "browse_os" /\ "browse_os" \in wizard.known
            /\ MoveOn([wizard EXCEPT !.osFile = "own"])

\* The page of the vendor, which goes on when its own page has been left.
onPageFinished == Open /\ wizard.web = "loading" /\ wizard' = [wizard EXCEPT !.web = "shown"]
onReceivedError ==
  /\ Open /\ wizard.web = "loading"
  /\ wizard' = [wizard EXCEPT !.web = "failed", !.dialogs = @ \cup {"web"}]
onDismissWeb ==
  LET w == [wizard EXCEPT !.dialogs = @ \ {"web"}]
  IN /\ Open /\ wizard.visible /\ "web" \in wizard.dialogs
     /\ wizard' = IF "os_download" \in wizard.known THEN movePreviousPage(w) ELSE Ended(w, "nav")
onFoundCode == /\ Open /\ wizard.web = "shown" /\ ~wizard.code
               /\ GoOn("os_download", [wizard EXCEPT !.code = TRUE])

-----------------------------------------------------------------------------
(* The tasks of the finish, and the dialogs.                               *)

\* A finish of page os has no URL, and its download never succeeds.
DownloadEnds ==
  LET w == [wizard EXCEPT !.download = None]
  IN /\ Open /\ wizard.download # None /\ ~wizard.cancelled
     /\ \/ wizard.download.os # "none" /\ wizard' = [w EXCEPT !.making = Append(@, wizard.download)]
        \/ wizard' = showError(w)

CancelProgress == /\ Open /\ wizard.visible /\ wizard.download # None /\ ~wizard.cancelled
                  /\ wizard' = [wizard EXCEPT !.cancelled = TRUE]

Reported == \/ /\ wizard.download # None /\ wizard.cancelled
               /\ wizard' = [wizard EXCEPT !.download = None, !.finishing = FALSE]
            \/ /\ wizard.dropped > 0
               /\ wizard' = [wizard EXCEPT !.dropped = @ - 1, !.finishing = FALSE]
\* Faulty: the wizard is not told.
OnCancelledSilent == Open /\ \/ wizard.download # None /\ wizard.cancelled
                                /\ wizard' = [wizard EXCEPT !.download = None]
                             \/ wizard.dropped > 0 /\ wizard' = [wizard EXCEPT !.dropped = @ - 1]
onCancelled == Open /\ Reported

\* cancelDownloadTask; a cancelled task reports later.
onPause ==
  /\ Open /\ wizard.visible /\ wizard.dropped < MaxTasks
  /\ wizard' = [wizard EXCEPT !.visible = FALSE, !.download = None,
                              !.dropped = IF wizard.download = None THEN @ ELSE @ + 1]
onResume == Open /\ ~wizard.visible /\ wizard' = [wizard EXCEPT !.visible = TRUE]

\* On the calc thread: an error is told there after a download, and by the UI
\* thread after a copy; JNI takes no null path.
CreationEnds ==
  LET rom == Head(wizard.making)
      w == [wizard EXCEPT !.making = Tail(@)]
  IN /\ Open /\ wizard.making # <<>>
     /\ \/ rom.os = "none" /\ wizard' = Ended(w, "native")
        \/ rom.os # "none" /\ wizard' = Ended(w, "done")
        \/ rom.os # "none" /\ rom.download /\ wizard' = Ended(showError(w), "looper")
        \/ rom.os # "none" /\ ~rom.download /\ wizard' = [w EXCEPT !.posted = @ + 1]
RunPosted == Open /\ wizard.posted > 0 /\ wizard' = showError([wizard EXCEPT !.posted = @ - 1])

OnDialog(dialog, w) ==
  /\ Open /\ wizard.visible /\ dialog \in wizard.dialogs
  /\ wizard' = [w EXCEPT !.dialogs = @ \ {dialog}]
DismissError == OnDialog("error", wizard)
OfflineOk == OnDialog("offline", [wizard EXCEPT !.finishing = FALSE])
\* Back, and a touch beside the dialog, do not run the handler of OK.
OfflineCancelled == OnDialog("offline", [wizard EXCEPT !.gaveUp = TRUE])

\* The application is opened again.
Restart == ~Open /\ wizard' = Fresh

User == PressNext \/ PressBack \/ BrowseRom \/ BrowseOs \/ CancelProgress
        \/ DismissError \/ OfflineOk \/ OfflineCancelled \/ onDismissWeb
System == onAnimationEnd \/ onPause \/ onResume \/ Restart
          \/ SearchEnds \/ onPageFinished \/ onReceivedError \/ onFoundCode
Finish == DownloadEnds \/ onCancelled \/ CreationEnds \/ RunPosted
Next == User \/ System \/ Finish

-----------------------------------------------------------------------------
(* Properties.                                                             *)

\* Every page that can be left backwards finds the data of an earlier one, and no
\* finish begins while a download runs, which is where WizardActivity throws
\* "Invalid state, download running".  After a boot page that could not be written
\* the finish goes on behind the error, and this may happen.
AssertionsHold ==
  wizard.at # "empty stack" /\ (wizard.at = "download running" => wizard.torn)

\* A ROM is made for the calculator chosen last, of an OS that was searched for this
\* calculator, or of a file of the user: an answer to an earlier choice is not taken.
RomAsChosen ==
  [][\A rom \in (ToSet(wizard'.making) \cup {wizard'.download})
                   \ (ToSet(wizard.making) \cup {wizard.download, None}) :
       rom.model = wizard.chosen /\ rom.os \in {rom.model, "own", "none"}]_vars

\* A finish that has begun ends: with the ROM, with an error the user sees, or by
\* being cancelled, so that the user can try again.  Left out are a temporary file
\* that cannot be created, after which the code returns without a word, and the
\* dialog of a missing network that is not answered by OK.
FinishEnds ==
  wizard.finishing ~> (~wizard.finishing \/ ~Open \/ wizard.gaveUp \/ "offline" \in wizard.dialogs)
=============================================================================
