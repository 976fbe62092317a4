---- MODULE MCKeyInput ----
(* Two fingers and two key codes of one key, over a keypad of two keys. *)
EXTENDS KeyInput
CONSTANTS a, b, z, two
TwoKeys == {a, b}
TwoFingers == <<0, 1>>
NoFingers == <<>>
TwoCodes == {z, two}
BothOnA == [c \in TwoCodes |-> a]
Minimum == [k \in TwoKeys |-> 1]
====
