---- MODULE MCCalcSession ----
(* One ROM that loads (two in the safety run), a missing file, a corrupt
   save, a variable file; a process with few calculator slots. *)
EXTENDS CalcSession
CONSTANTS r1, r2, gone, bad, var
OneGood == {r1}
TwoGood == {r1, r2}
OneGone == {gone}
OneBad == {bad}
None == {}
====
