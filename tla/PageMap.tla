------------------------------ MODULE PageMap ------------------------------
(***************************************************************************)
(* What the memory mapper of a flash calculator promises to the program    *)
(* that runs on it, without latches, copies or pointers.  The 64 KB the    *)
(* processor sees are four banks.  The program selects a page for banks 1, *)
(* 2 and 3; bank 0 shows the boot page after power-on until the operating  *)
(* system has started.  The view is a function of the selections and of    *)
(* one switch, the boot mapping.  BankSwitch implements this.              *)
(***************************************************************************)
EXTENDS Naturals

CONSTANTS Pages,         \* every page that can be selected, [ram, page]
          BootPage,      \* the flash page bank 0 shows after power-on
          FirstPage,     \* the flash page bank 0 shows once the OS has started
          OddSecond      \* TRUE: the boot mapping forces an odd page in bank 2

VARIABLES selected,      \* the page selected for each bank
          bootView,      \* is the boot mapping on?
          view           \* the page the processor finds in each bank

mapVars == <<selected, bootView, view>>

Even(p) == [ram |-> p.ram, page |-> p.page - (p.page % 2)]
SecondOf(p) == IF OddSecond THEN [ram |-> p.ram, page |-> Even(p).page + 1]
                            ELSE p

View(s, boot) ==
  IF boot THEN [b \in 0..3 |-> IF b = 0 THEN s[0]
                               ELSE IF b = 1 THEN Even(s[1])
                               ELSE IF b = 2 THEN SecondOf(s[1])
                               ELSE s[2]]
          ELSE s

MapInit == /\ selected \in [0..3 -> Pages]
           /\ bootView = FALSE
           /\ view = View(selected, bootView)

\* Exactly one bank selects another page.
Select(b, p) == /\ selected' = [selected EXCEPT ![b] = p]
                /\ UNCHANGED bootView

\* Bank 0 gives up the boot page; nothing else can be selected for it.
LeaveBoot == /\ selected' = [selected EXCEPT ![0] = FirstPage]
             /\ UNCHANGED bootView

SetBootView(on) == /\ bootView' = on
                   /\ UNCHANGED selected

PowerOn == /\ selected' \in [0..3 -> Pages]
           /\ selected'[0] = BootPage
           /\ bootView' = FALSE

MapNext == /\ \/ \E b \in 1..3, p \in Pages : Select(b, p)
              \/ LeaveBoot
              \/ \E on \in BOOLEAN : SetBootView(on)
              \/ PowerOn
           /\ view' = View(selected', bootView')

MapSpec == MapInit /\ [][MapNext]_mapVars
=============================================================================
