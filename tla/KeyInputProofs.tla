---- MODULE KeyInputProofs ----
(***************************************************************************)
(* No key is left pending: mIsKeyPressPending is set by the UI thread and  *)
(* cleared by the calc thread, and while it is set the runnable that will  *)
(* clear it is in the list, or about to be put there.                      *)
(***************************************************************************)
EXTENDS KeyInput, TLAPS

IsSequence == \E S : queue \in Seq(S)

PendingInv == IsSequence /\ PendingHasPress

\* What a sequence holds when something is put at its end.
LEMMA AppendHolds ==
  ASSUME NEW S, NEW s \in Seq(S), NEW e
  PROVE  /\ \E T : Append(s, e) \in Seq(T)
         /\ e \in ToSet(Append(s, e))
         /\ ToSet(s) \subseteq ToSet(Append(s, e))
<1> DEFINE T == S \cup {e}
<1>1. s \in Seq(T) /\ e \in T
  OBVIOUS
<1>2. Append(s, e) \in Seq(T)
  BY <1>1
<1>3. /\ DOMAIN s = 1 .. Len(s) /\ Len(s) \in Nat
      /\ DOMAIN Append(s, e) = 1 .. Len(s) + 1
      /\ Append(s, e)[Len(s) + 1] = e
      /\ \A i \in 1 .. Len(s) : Append(s, e)[i] = s[i]
  BY <1>1
<1>4. e \in ToSet(Append(s, e))
  BY <1>3 DEF ToSet
<1>5. ToSet(s) \subseteq ToSet(Append(s, e))
  BY <1>3 DEF ToSet
<1> QED
  BY <1>2, <1>4, <1>5

\* What a sequence still holds when its first item is taken off.
LEMMA TailHolds ==
  ASSUME NEW S, NEW s \in Seq(S), s # <<>>
  PROVE  /\ \E T : Tail(s) \in Seq(T)
         /\ ToSet(s) \subseteq {Head(s)} \cup ToSet(Tail(s))
<1>1. Tail(s) \in Seq(S)
  OBVIOUS
<1>2. /\ DOMAIN s = 1 .. Len(s) /\ Len(s) \in Nat \ {0}
      /\ DOMAIN Tail(s) = 1 .. Len(s) - 1
      /\ Head(s) = s[1]
      /\ \A i \in 1 .. Len(s) - 1 : Tail(s)[i] = s[i + 1]
  OBVIOUS
<1>3. ASSUME NEW x \in ToSet(s)
      PROVE  x = Head(s) \/ x \in ToSet(Tail(s))
  <2>1. PICK i \in 1 .. Len(s) : x = s[i]
    BY <1>2, <1>3 DEF ToSet
  <2>2. CASE i = 1
    BY <1>2, <2>1, <2>2
  <2>3. CASE i # 1
    <3>1. i - 1 \in 1 .. Len(s) - 1 /\ Tail(s)[i - 1] = s[i]
      BY <1>2, <2>1, <2>3
    <3> QED
      BY <1>2, <2>1, <3>1 DEF ToSet
  <2> QED
    BY <2>2, <2>3
<1> QED
  BY <1>1, <1>3

\* Queueing a runnable that does not press leaves the invariant as it is.
LEMMA QueueKeeps ==
  ASSUME PendingInv, NEW item, Queue(item), pending' = pending
  PROVE  /\ IsSequence'
         /\ \A k \in pending' : Press(k) \in ToSet(queue) => Press(k) \in ToSet(queue')
<1>1. PICK S : queue \in Seq(S)
  BY DEF PendingInv, IsSequence
<1>2. queue' = Append(queue, item)
  BY DEF Queue
<1>3. (\E T : queue' \in Seq(T)) /\ ToSet(queue) \subseteq ToSet(queue')
  BY <1>1, <1>2, AppendHolds
<1> QED
  BY <1>3 DEF IsSequence

\* Running a runnable that does not press leaves the invariant as it is.
LEMMA RunKeeps ==
  ASSUME PendingInv, NEW op, op # "press", Runs(op),
         queue' = Tail(queue), UNCHANGED <<pending, ui, todo>>
  PROVE  PendingInv'
<1>1. PICK S : queue \in Seq(S)
  BY DEF PendingInv, IsSequence
<1>2. queue # <<>> /\ \A k : Press(k) # Head(queue)
  BY DEF Runs, Press
<1>3. /\ \E T : queue' \in Seq(T)
      /\ ToSet(queue) \subseteq {Head(queue)} \cup ToSet(queue')
  BY <1>1, <1>2, TailHolds
<1> QED
  BY <1>2, <1>3 DEF PendingInv, IsSequence, PendingHasPress, Press

LEMMA PendingInvStarts == Init => PendingInv
<1> SUFFICES ASSUME Init PROVE PendingInv
  OBVIOUS
<1>1. queue \in Seq({})
  BY DEF Init
<1>2. pending = {}
  BY DEF Init
<1> QED
  BY <1>1, <1>2 DEF PendingInv, IsSequence, PendingHasPress

LEMMA PendingInvKept == PendingInv /\ [Next]_vars => PendingInv'
<1> SUFFICES ASSUME PendingInv, [Next]_vars PROVE PendingInv'
  OBVIOUS
<1> USE DEF PendingInv, IsSequence, PendingHasPress, Press
<1>1. CASE User
  <2>1. ui = "idle" /\ ui' = ui /\ UNCHANGED <<queue, pending>>
    BY <1>1 DEF User, TouchDown, TouchMove, TouchUp, KeyDown, KeyUp, Event, manager
  <2> QED
    BY <2>1
<1>2. CASE MarkPending
  BY <1>2 DEF MarkPending
<1>3. CASE QueuePress
  <2>1. PICK S : queue \in Seq(S)
    OBVIOUS
  <2>2. /\ queue' = Append(queue, Press(Head(todo).key))
        /\ pending' = pending /\ ui = "press"
    BY <1>3 DEF QueuePress, Queue
  <2>3. /\ \E T : queue' \in Seq(T)
        /\ Press(Head(todo).key) \in ToSet(queue')
        /\ ToSet(queue) \subseteq ToSet(queue')
    BY <2>1, <2>2, AppendHolds
  <2> QED
    BY <2>2, <2>3
<1>4. CASE NoMapping
  BY <1>4 DEF NoMapping, manager
<1>5. CASE CheckRelease
  <2>1. ui = "idle" /\ ui' # "press" /\ UNCHANGED <<queue, pending>>
    BY <1>5 DEF CheckRelease
  <2> QED
    BY <2>1
<1>6. CASE QueueRelease
  <2>1. ui = "release" /\ pending' = pending
    BY <1>6 DEF QueueRelease
  <2>2. /\ IsSequence'
        /\ \A k \in pending' : Press(k) \in ToSet(queue) => Press(k) \in ToSet(queue')
    BY <1>6, <2>1, QueueKeeps DEF QueueRelease
  <2> QED
    BY <2>1, <2>2
<1>7. CASE RetryQueue
  <2>1. UNCHANGED <<pending, ui, todo>>
    BY <1>7 DEF RetryQueue
  <2>2. /\ IsSequence'
        /\ \A k \in pending' : Press(k) \in ToSet(queue) => Press(k) \in ToSet(queue')
    BY <1>7, <2>1, QueueKeeps DEF RetryQueue
  <2> QED
    BY <2>1, <2>2
<1>8. CASE LoadRom
  <2>1. UNCHANGED <<pending, ui, todo>>
    BY <1>8 DEF LoadRom, manager
  <2>2. /\ IsSequence'
        /\ \A k \in pending' : Press(k) \in ToSet(queue) => Press(k) \in ToSet(queue')
    BY <1>8, <2>1, QueueKeeps DEF LoadRom
  <2> QED
    BY <2>1, <2>2
<1>9. CASE Lock \/ Unlock
  BY <1>9 DEF Lock, Unlock, manager
<1>10. CASE RunPress
  <2>1. PICK S : queue \in Seq(S)
    OBVIOUS
  <2>2. /\ queue # <<>> /\ Head(queue).op = "press" /\ queue' = Tail(queue)
        /\ pending' = pending \ {Head(queue).key} /\ UNCHANGED <<ui, todo>>
    BY <1>10 DEF RunPress, Runs
  <2>3. /\ \E T : queue' \in Seq(T)
        /\ ToSet(queue) \subseteq {Head(queue)} \cup ToSet(queue')
    BY <2>1, <2>2, TailHolds
  <2>4. ASSUME NEW k \in pending' PROVE Press(k) # Head(queue)
    <3>1. k # Head(queue).key
      BY <2>2
    <3>2. Press(k).key = k
      OBVIOUS
    <3> QED
      BY <3>1, <3>2
  <2> QED
    BY <2>2, <2>3, <2>4
<1>11. CASE RunRelease
  BY <1>11, RunKeeps DEF RunRelease, manager
<1>12. CASE RunLoad
  BY <1>12, RunKeeps DEF RunLoad, manager
<1>13. CASE RunCalcs \/ SetPaused
  BY <1>13 DEF RunCalcs, SetPaused, manager
<1>14. ASSUME NEW k \in Keys, Retry(k) PROVE PendingInv'
  BY <1>14 DEF Retry
<1>15. CASE UNCHANGED vars
  BY <1>15 DEF vars, manager
<1> QED
  BY <1>1, <1>2, <1>3, <1>4, <1>5, <1>6, <1>7, <1>8, <1>9, <1>10, <1>11,
     <1>12, <1>13, <1>14, <1>15 DEF Next, UiStep, Drain

\* While mIsKeyPressPending puts off the releases of a key
\* (CalculatorManager.shouldDelayRelease), the runnable that clears it is on
\* its way, whatever keys, fingers, codes and bounds there are.
THEOREM PendingIsPressed == Spec => []PendingHasPress
<1>1. Init => PendingInv
  BY PendingInvStarts
<1>2. PendingInv /\ [Next]_vars => PendingInv'
  BY PendingInvKept
<1>3. PendingInv => PendingHasPress
  BY DEF PendingInv
<1> QED
  BY <1>1, <1>2, <1>3, PTL DEF Spec
====
