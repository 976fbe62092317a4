--------------------------- MODULE MCBankSwitchSE ---------------------------
(* The mapper of the TI-84 Plus C SE in small: ports 6 and 7 name half of the  *)
(* flash (16 pages stand for 128), extension ports name the other half.        *)
EXTENDS BankSwitch

\* Page 15 is the privileged page FlashPages - 17 with extension 0 and, wrapped,
\* the boot page with extension 3; RAM page 5 is beyond the fourth and wraps.
MCPortBytes == { [ram |-> FALSE, low |-> 15], [ram |-> TRUE, low |-> 5] }
MCExtensions == {0, 3}
=============================================================================
