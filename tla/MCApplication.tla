--------------------------- MODULE MCApplication ---------------------------
(***************************************************************************)
(* The two activities of the application for TLC: the emulator's session   *)
(* and the Wizard.  Only one of them has the screen: a behaviour is of one *)
(* of them, which part names, and the other stays as it begins.  That a    *)
(* ROM is created on the calc thread is in both.                           *)
(***************************************************************************)
EXTENDS MCCalcSession

CONSTANTS Models, Outcomes, MaxMoves, MaxTasks

VARIABLES part, wizard

W == INSTANCE Wizard

MCInit == part \in {"session", "wizard"} /\ Init /\ W!Init

Session == part = "session" /\ Next /\ UNCHANGED <<part, wizard>>
WizardUser == part = "wizard" /\ W!User /\ UNCHANGED <<part, vars>>
WizardSystem == part = "wizard" /\ W!System /\ UNCHANGED <<part, vars>>
WizardFinish == part = "wizard" /\ W!Finish /\ UNCHANGED <<part, vars>>
MCNext == Session \/ WizardUser \/ WizardSystem \/ WizardFinish

MCSpec == MCInit /\ [][MCNext]_<<part, vars, wizard>>

\* Downloads end, cancelled tasks report, the calc thread runs what is queued and the
\* UI thread what is posted; the threads of the session are scheduled.
MCFairness ==
  /\ WF_wizard(WizardFinish)
  /\ WF_vars(part = "session" /\ CalcStep)
  /\ SF_vars(part = "session" /\ UiStep)
  /\ SF_vars(part = "session" /\ TaskStep)

MCFairSpec == MCSpec /\ MCFairness

\* The properties of the wizard, which Wizard states and explains.
\* No page lacks its data, and no download meets another.
AssertionsHold == W!AssertionsHold

\* A ROM is made for the calculator chosen, of an OS for it.
RomAsChosen == W!RomAsChosen

\* A finish that has begun ends.
FinishEnds == W!FinishEnds
=============================================================================
