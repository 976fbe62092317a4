---- MODULE KeyInput ----
(***************************************************************************)
(* A key, from the finger or the keyboard to the calculator's keypad.  The *)
(* UI thread turns events into doKeyDown and doKeyUp (CalcSkin, WabbitLCD, *)
(* CalcKeyManager); presses and releases are runnables of the calc thread; *)
(* a release that comes too early is tried again by mRepressExecutor until *)
(* the calculator has run long enough to see the key.                      *)
(***************************************************************************)
EXTENDS Integers, Sequences, FiniteSets, SequencesExt

CONSTANTS
  Keys,        \* (group, bit) positions of the keypad
  Fingers,     \* pointer ids, in the order MotionEvent lists them
  Codes,       \* Android key codes
  KeyOf,       \* KEY_MAPPINGS: the key of each code
  MinTstates,  \* MIN_TSTATE_KEY, or MIN_TSTATE_ON_KEY, in ticks of each key
  Lag,         \* bound: ticks the clock goes back when a ROM is loaded
  MaxEvents    \* bound: input events and ROMs opened

ASSUME KeysAssumption == KeyOf \in [Codes -> Keys] /\ MinTstates \in [Keys -> Nat]
ASSUME FingersAssumption == Fingers \in Seq(Nat)

Red == "no key here"       \* on the skin, where the key map has no key
Outside == "outside"       \* beyond the key map
Up == "up"                 \* not on the screen

VARIABLES
  finger,      \* where each finger is
  typed,       \* the key codes held down
  todo,        \* doKeyDown and doKeyUp calls the event at hand still makes
  ui,          \* what the UI thread is doing with the first of them
  keysDown,    \* CalcKeyManager.mKeysDown
  pending,     \* CalculatorManager.mIsKeyPressPending
  elapsed,     \* Tstates less mKeyTimePressed, cut off at the minimum
  delayed,     \* releases each key has waiting in mRepressExecutor
  executor,    \* the key the executor is about to queue a release of
  queue,       \* CalcThread.mRunnables
  locked,      \* the calc thread is draining it
  keypad,      \* the keys keypad_t has down
  paused,
  slid,        \* history: keys a finger has slid off
  events

input == <<finger, typed, slid, events>>
manager == <<keysDown, pending, delayed, executor>>
calc == <<locked, keypad, elapsed, paused>>
vars == <<input, todo, ui, manager, queue, calc>>

Pointers == ToSet(Fingers)
Nobody == "nobody"

Init ==
  /\ finger = [p \in Pointers |-> Up] /\ typed = {} /\ slid = {} /\ events = 0
  /\ todo = <<>> /\ ui = "idle"
  /\ keysDown = <<>> /\ pending = {} /\ delayed = [k \in Keys |-> 0] /\ executor = Nobody
  /\ queue = <<>> /\ locked = FALSE /\ keypad = {} /\ elapsed = [k \in Keys |-> 0]
  /\ paused = FALSE

----
(* Events.  The next one is looked at when the last one is dealt with.     *)

Event == ui = "idle" /\ todo = <<>> /\ events < MaxEvents /\ events' = events + 1

Down(id, k) == [call |-> "down", id |-> id, key |-> k]
Release(id) == [call |-> "up", id |-> id]

OnScreen(place) == SelectSeq(Fingers, LAMBDA p : place[p] # Up)

\* onTouchEvent hands every finger on the screen to handleTouchEvent, with
\* the one action of the event, whichever finger it is about.
Pressed(place) ==
  LET onKeys == SelectSeq(OnScreen(place), LAMBDA p : place[p] \in Keys)
  IN [i \in DOMAIN onKeys |-> Down(onKeys[i], place[onKeys[i]])]
Lifted(place) ==
  LET inside == SelectSeq(OnScreen(place), LAMBDA p : place[p] # Outside)
  IN [i \in DOMAIN inside |-> Release(inside[i])]

\* A gesture that begins off every key is refused, and heard of no more
TouchDown(p, place) ==
  /\ finger[p] = Up /\ Event
  /\ place \in Keys \/ \E q \in Pointers : finger[q] # Up
  /\ finger' = [finger EXCEPT ![p] = place]
  /\ todo' = Pressed(finger')
  /\ UNCHANGED <<typed, slid, ui, manager, queue, calc>>

TouchMove(p, place) ==
  /\ finger[p] \notin {Up, place} /\ Event
  /\ finger' = [finger EXCEPT ![p] = place]
  /\ slid' = slid \cup ({finger[p]} \cap Keys)
  /\ UNCHANGED <<typed, todo, ui, manager, queue, calc>>

TouchUp(p) ==
  /\ finger[p] # Up /\ Event
  /\ finger' = [finger EXCEPT ![p] = Up]
  /\ todo' = Lifted(finger)
  /\ UNCHANGED <<typed, slid, ui, manager, queue, calc>>

\* A key held down repeats: onKeyDown comes again and again
KeyDown(c) ==
  /\ Event
  /\ typed' = typed \cup {c}
  /\ todo' = <<Down(c, KeyOf[c])>>
  /\ UNCHANGED <<finger, slid, ui, manager, queue, calc>>

KeyUp(c) ==
  /\ c \in typed /\ Event
  /\ typed' = typed \ {c}
  /\ todo' = <<Release(c)>>
  /\ UNCHANGED <<finger, slid, ui, manager, queue, calc>>

User ==
  \/ \E p \in Pointers, place \in Keys \cup {Red, Outside} :
       TouchDown(p, place) \/ TouchMove(p, place)
  \/ \E p \in Pointers : TouchUp(p)
  \/ \E c \in Codes : KeyDown(c) \/ KeyUp(c)

----
(* The UI thread.                                                          *)

Queue(item) == ~locked /\ queue' = Append(queue, item)
Press(k) == [op |-> "press", key |-> k]
Let(k) == [op |-> "release", key |-> k]
Load == [op |-> "load", key |-> Nobody]

\* pressKey: pending first, then the runnable, which clears it
MarkPending ==
  /\ ui = "idle" /\ todo # <<>> /\ Head(todo).call = "down"
  /\ pending' = pending \cup {Head(todo).key}
  /\ ui' = "press"
  /\ UNCHANGED <<input, todo, keysDown, delayed, executor, queue, calc>>

QueuePress ==
  /\ ui = "press"
  /\ Queue(Press(Head(todo).key))
  /\ keysDown' = Append(keysDown, [id |-> Head(todo).id, key |-> Head(todo).key])
  /\ todo' = Tail(todo) /\ ui' = "idle"
  /\ UNCHANGED <<input, pending, delayed, executor, calc>>

\* doKeyUp takes the last entry of its id, and removes that one
Entries(id) == {i \in DOMAIN keysDown : keysDown[i].id = id}
LatestEntry(id) == CHOOSE i \in Entries(id) : \A j \in Entries(id) : j <= i
Found(id) == keysDown[LatestEntry(id)]

NoMapping ==
  /\ ui = "idle" /\ todo # <<>> /\ Head(todo).call = "up" /\ Entries(Head(todo).id) = {}
  /\ todo' = Tail(todo)
  /\ UNCHANGED <<input, ui, manager, queue, calc>>

ShouldDelayRelease(k) == k \in pending \/ elapsed[k] < MinTstates[k]

\* Faulty: a release that is too early is forgotten.
CheckReleaseDrops ==
  /\ ui = "idle" /\ todo # <<>> /\ Head(todo).call = "up" /\ Entries(Head(todo).id) # {}
  /\ IF ShouldDelayRelease(Found(Head(todo).id).key)
     THEN /\ keysDown' = RemoveAt(keysDown, LatestEntry(Head(todo).id))
          /\ todo' = Tail(todo) /\ UNCHANGED ui
     ELSE ui' = "release" /\ UNCHANGED <<keysDown, todo>>
  /\ UNCHANGED <<input, pending, delayed, executor, queue, calc>>

CheckRelease ==
  /\ ui = "idle" /\ todo # <<>> /\ Head(todo).call = "up" /\ Entries(Head(todo).id) # {}
  /\ LET key == Found(Head(todo).id).key
     IN IF ShouldDelayRelease(key)
        THEN /\ delayed' = [delayed EXCEPT ![key] = @ + 1]
             /\ keysDown' = RemoveAt(keysDown, LatestEntry(Head(todo).id))
             /\ todo' = Tail(todo) /\ UNCHANGED ui
        ELSE ui' = "release" /\ UNCHANGED <<delayed, keysDown, todo>>
  /\ UNCHANGED <<input, pending, executor, queue, calc>>

QueueRelease ==
  /\ ui = "release"
  /\ Queue(Let(Found(Head(todo).id).key))
  /\ keysDown' = RemoveAt(keysDown, LatestEntry(Head(todo).id))
  /\ todo' = Tail(todo) /\ ui' = "idle"
  /\ UNCHANGED <<input, pending, delayed, executor, calc>>

\* The user opens another ROM file
LoadRom ==
  /\ Event
  /\ Queue(Load)
  /\ UNCHANGED <<finger, typed, slid, todo, ui, manager, calc>>

UiStep == MarkPending \/ QueuePress \/ NoMapping \/ CheckRelease \/ QueueRelease

----
(* mRepressExecutor, one thread: releaseKey again after 40 ms.             *)

Retry(k) ==
  /\ executor = Nobody /\ delayed[k] > 0 /\ ~ShouldDelayRelease(k)
  /\ delayed' = [delayed EXCEPT ![k] = @ - 1]
  /\ executor' = k
  /\ UNCHANGED <<input, todo, ui, keysDown, pending, queue, calc>>

RetryQueue ==
  /\ executor # Nobody
  /\ Queue(Let(executor))
  /\ executor' = Nobody
  /\ UNCHANGED <<input, todo, ui, keysDown, pending, delayed, calc>>

----
(* The calc thread.                                                        *)

Lock ==
  /\ ~locked /\ queue # <<>>
  /\ locked' = TRUE
  /\ UNCHANGED <<input, todo, ui, manager, queue, keypad, elapsed, paused>>

Unlock ==
  /\ locked /\ queue = <<>>
  /\ locked' = FALSE
  /\ UNCHANGED <<input, todo, ui, manager, queue, keypad, elapsed, paused>>

Runs(op) == locked /\ queue # <<>> /\ Head(queue).op = op

\* Faulty: the runnable does not clear mIsKeyPressPending.
RunPressPending ==
  /\ Runs("press")
  /\ keypad' = keypad \cup {Head(queue).key}
  /\ elapsed' = [elapsed EXCEPT ![Head(queue).key] = 0]
  /\ queue' = Tail(queue)
  /\ UNCHANGED <<input, todo, ui, manager, locked, paused>>

RunPress ==
  /\ Runs("press")
  /\ keypad' = keypad \cup {Head(queue).key}
  /\ elapsed' = [elapsed EXCEPT ![Head(queue).key] = 0]
  /\ pending' = pending \ {Head(queue).key}
  /\ queue' = Tail(queue)
  /\ UNCHANGED <<input, todo, ui, keysDown, delayed, executor, locked, paused>>

RunRelease ==
  /\ Runs("release")
  /\ keypad' = keypad \ {Head(queue).key}
  /\ queue' = Tail(queue)
  /\ UNCHANGED <<input, todo, ui, manager, locked, elapsed, paused>>

\* rom_load: a new keypad, and a clock that starts from nothing, so that it
\* is behind the time of the last press of a key
RunLoad ==
  /\ Runs("load")
  /\ keypad' = {}
  /\ \E behind \in [Keys -> 0 .. Lag] : elapsed' = [k \in Keys |-> -behind[k]]
  /\ queue' = Tail(queue)
  /\ UNCHANGED <<input, todo, ui, manager, locked, paused>>

Later(k, ticks) == IF ticks < MinTstates[k] THEN ticks + 1 ELSE ticks

\* RunCalcs, some cycles at a time
RunCalcs ==
  /\ ~locked /\ ~paused
  /\ \E k \in Keys : elapsed[k] < MinTstates[k]
  /\ elapsed' = [k \in Keys |-> Later(k, elapsed[k])]
  /\ UNCHANGED <<input, todo, ui, manager, queue, locked, keypad, paused>>

Drain == Lock \/ Unlock \/ RunPress \/ RunRelease \/ RunLoad

SetPaused ==
  /\ paused' = ~paused
  /\ UNCHANGED <<input, todo, ui, manager, queue, locked, keypad, elapsed>>

Next ==
  \/ User \/ UiStep \/ RetryQueue \/ LoadRom \/ Drain \/ RunCalcs \/ SetPaused
  \/ \E k \in Keys : Retry(k)

\* Every thread is scheduled, the executor runs what is due, and an unpaused
\* calc thread runs the calculator between two drains of the list.
Fairness ==
  /\ WF_vars(UiStep)
  /\ \A k \in Keys : WF_vars(Retry(k))
  /\ WF_vars(RetryQueue)
  /\ WF_vars(Drain)
  /\ WF_vars(RunCalcs)

Spec == Init /\ [][Next]_vars
FairSpec == Spec /\ Fairness

----
(* Properties.                                                             *)

\* mIsKeyPressPending is set and cleared by two threads; a key is never left
\* pending with no press on its way, which would put off its release for ever.
PendingHasPress ==
  \A k \in pending : \/ Press(k) \in ToSet(queue)
                     \/ ui = "press" /\ Head(todo).key = k

\* CalcKeyManager.java:170: an id "is unique at any given time".
KeyIdsUnique ==
  \A i, j \in DOMAIN keysDown : keysDown[i].id = keysDown[j].id => i = j

\* Nothing holds the key, and no finger has slid off it.
LetGo(k) == /\ k \notin slid /\ ui = "idle" /\ todo = <<>>
            /\ \A p \in Pointers : finger[p] # k
            /\ \A c \in typed : KeyOf[c] # k

\* A key everybody has let go of comes up on the keypad, however presses,
\* repeats, delayed releases and ROM loads fall together, unless the
\* calculator is paused for good.
NoStuckKey ==
  \A k \in Keys : (LetGo(k) /\ k \in keypad /\ ~paused)
                     ~> (k \notin keypad \/ ~LetGo(k) \/ paused)
====
