---- MODULE CalcSession ----
(***************************************************************************)
(* The emulator session: the UI thread (WabbitemuActivityJava and          *)
(* EmulatorFragment), one AsyncTask loading a file for it, and the calc    *)
(* thread (CalcThread) that alone enters the native library.  They share   *)
(* CalculatorManager's fields, the list of runnables and its lock, and the *)
(* pause list; the native side is the table of calculator slots.  The      *)
(* process may be killed at any moment and started again: the save file    *)
(* and the remembered ROM path survive, everything else does not.          *)
(***************************************************************************)
EXTENDS Integers, Sequences, FiniteSets

CONSTANTS
  Good,            \* ROM files that load
  Unreadable,      \* files importvar refuses, missing ones included
  Corrupt,         \* save states that open but fail in LoadSlot
  VarFile,         \* a file sent over the link, not a ROM
  MaxCalcs,        \* calc.h MAX_CALCS
  MaxRequests,     \* bound: pauses, files, resets and ROMs the user asks for
  MaxRecreations,  \* bound: activities created again in a living process
  MaxKills         \* bound: how often the system kills the process

ASSUME CalcsAssumption == MaxCalcs \in Nat \ {0}
ASSUME BoundsAssumption == MaxRequests \in Nat /\ MaxRecreations \in Nat /\ MaxKills \in Nat

Sav == "Wabbitemu.sav"
NoFile == "no file"
Blank == "blank"        \* memory no ROM was ever loaded into
Torn == "torn"          \* a save file whose writing was cut short
Roms == Good \cup Unreadable \cup Corrupt
Threads == {"ui", "task", "calc"}

\* Files are named apart from each other and from what else a file may hold
ASSUME FilesAssumption ==
  {Sav, NoFile, Blank, Torn} \cap Roms = {} /\ VarFile \notin Roms \cup {Sav, NoFile}

VARIABLES
  act,          \* where the main activity is in its life cycle
  pc,           \* what each thread is doing
  want,         \* the file a thread was asked to load or is writing
  queue,        \* CalcThread.mRunnables
  pauseList,    \* CalcThread.mPauseList: the array of the ArrayList, and its size
  call,         \* what each thread has read of that list in the call it is in
  isPaused,     \* CalcThread.mIsPaused
  hasLoaded,    \* CalculatorManager.mHasLoadedRom
  currentRom,   \* CalculatorManager.mCurrentRomFile
  slots,        \* calcs[] of calc.c
  cur,          \* the slot lpCalc points to, 0 for NULL
  files,        \* what each file on disk holds
  romPath,      \* the ROM_PATH preference
  requests, recreations, kills,
  spoilt,       \* history: some slot was left half built
  created,      \* history: CreateRom ran in this process
  overlapped    \* history: a call that changes the pause list met another call of it

listing == <<pauseList, call, overlapped>>
pausing == <<listing, isPaused>>
manager == <<hasLoaded, currentRom>>
java == <<queue, pausing, manager>>
native == <<slots, cur>>
disk == <<files, romPath>>
history == <<spoilt, created>>
bounds == <<requests, recreations, kills>>
rest == <<disk, history, bounds>>
vars == <<act, pc, want, java, native, rest>>

----
(* Slots.  "built" is whether calc_init_... has given the slot its keypad, *)
(* LCD and link; "event" whether load_settings is registered on it.        *)

Empty == [active |-> FALSE, built |-> FALSE, running |-> FALSE,
          event |-> FALSE, rom |-> Blank]

Slots == [active : BOOLEAN, built : BOOLEAN, running : BOOLEAN,
          event : BOOLEAN, rom : Good \cup {Blank}]

FreeSlots(table) == {i \in 1 .. MaxCalcs : ~table[i].active}
FirstFree(table) == CHOOSE i \in FreeSlots(table) : \A j \in FreeSlots(table) : i <= j

\* Faulty: the whole slot is cleared, its registered events included.
FreedClean(s) == IF s.active THEN Empty ELSE s

\* calc_slot_free: the events and the running flag survive it
Freed(s) == IF s.active THEN [s EXCEPT !.active = FALSE, !.built = FALSE, !.rom = Blank]
                        ELSE s

\* rom_load of a file that loads: the old calculator goes, a new one is
\* built, and ROM_LOAD_EVENT is what sets it running
Loaded(s, content) == [Freed(s) EXCEPT !.active = TRUE, !.built = TRUE,
                                       !.rom = content, !.running = @ \/ Freed(s).event]

\* rom_load of a save that fails in LoadSlot: built, stopped and blank
Spoiled(s) == [Freed(s) EXCEPT !.active = TRUE, !.built = TRUE, !.running = FALSE]

\* What a file holds is named by the file it first came from
Loads(f) == files[f] \in Good \cup {Blank}

\* Whether a file that does not load spoils the slot; a torn one may
SpoilOutcomes(f) == IF files[f] \in Corrupt THEN {TRUE}
                    ELSE IF files[f] = Torn THEN BOOLEAN ELSE {FALSE}

----
(* The pause list.  Each thread has one key, and no call of the list is    *)
(* synchronized with one of the other thread.                              *)

Key == [ui |-> "EmulatorFragment", calc |-> "pauseKey"]
Nothing == "null"
ArrayPlaces == 1 .. 3      \* of the array, which has room for ten; no more are used

OneKey == [size |-> 1, at |-> [i \in ArrayPlaces |-> IF i = 1 THEN Key.calc ELSE Nothing]]
NoCall == [index |-> 1, size |-> 0]
NoCalls == [t \in {"ui", "calc"} |-> NoCall]

----
(* A process that has just started, and the ways one ends.                 *)

Fresh ==
  /\ act' = "none" /\ pc' = [t \in Threads |-> IF t = "calc" THEN "top" ELSE "idle"]
  /\ want' = [t \in Threads |-> NoFile]
  /\ queue' = <<>> /\ isPaused' = TRUE
  /\ pauseList' = OneKey /\ call' = NoCalls /\ overlapped' = FALSE
  /\ hasLoaded' = FALSE /\ currentRom' = NoFile
  /\ slots' = [i \in 1 .. MaxCalcs |-> Empty] /\ cur' = 0
  /\ recreations' = 0 /\ created' = FALSE

Init ==
  /\ act = "none" /\ pc = [t \in Threads |-> IF t = "calc" THEN "top" ELSE "idle"]
  /\ want = [t \in Threads |-> NoFile]
  /\ queue = <<>> /\ isPaused = TRUE
  /\ pauseList = OneKey /\ call = NoCalls /\ overlapped = FALSE
  /\ hasLoaded = FALSE /\ currentRom = NoFile
  /\ slots = [i \in 1 .. MaxCalcs |-> Empty] /\ cur = 0
  /\ files = [f \in Roms \cup {Sav} |-> IF f = Sav THEN NoFile ELSE f] /\ romPath = NoFile
  /\ requests = 0 /\ recreations = 0 /\ kills = 0 /\ spoilt = FALSE /\ created = FALSE

\* Native code dereferences a null pointer, or an exception leaves a thread
Crash == Fresh /\ UNCHANGED <<disk, spoilt, requests, kills>>

Kill ==
  /\ kills < MaxKills
  /\ kills' = kills + 1
  /\ Fresh /\ UNCHANGED <<disk, spoilt, requests>>

----
(* Steps threads share.                                                    *)

At(t, place) == pc[t] = place
GoTo(t, place) == pc' = [pc EXCEPT ![t] = place]

\* The calc thread holds the list's lock from before the first runnable
\* until the list is cleared; whoever queues waits for it.
LockFree == pc["calc"] \in {"top", "test", "frame"}
Queue(item) == LockFree /\ queue' = Append(queue, item)

----
(* setPaused(key, false).  ArrayList.remove looks for the key, moves what  *)
(* lies behind it, and stores the smaller size and a null: reads and       *)
(* writes that those of the other thread may come between.                 *)

Other(t) == IF t = "ui" THEN "calc" ELSE "ui"

\* The places of a call that will change the list, and of any call of it
Changing == {"move", "read", "shrink", "shrunk", "dropped", "insert", "grown", "stored"}
InList == Changing \cup {"look"}

\* The versions of ArrayList differ in where they read the size again
SizesRead(t) == {call[t].size, pauseList.size}

\* An access of the list, what the thread keeps of it and where it goes
Touch(t, list, mine, place) ==
  /\ pauseList' = list
  /\ call' = [call EXCEPT ![t] = mine]
  /\ overlapped' = \/ overlapped
                   \/ /\ place \in InList /\ pc[Other(t)] \in InList
                      /\ place \in Changing \/ pc[Other(t)] \in Changing
  /\ GoTo(t, place)
  /\ UNCHANGED <<act, want, queue, isPaused, manager, native, rest>>

BeginRemove(t) ==
  At(t, "unpause") /\ Touch(t, pauseList, [index |-> 1, size |-> pauseList.size], "look")

Look(t) ==
  /\ At(t, "look")
  /\ LET i == call[t].index
     IN \/ /\ \E n \in SizesRead(t) : i > n
           /\ Touch(t, pauseList, NoCall, "size")
        \/ /\ \E n \in SizesRead(t) : i <= n
           /\ IF pauseList.at[i] = Key[t] THEN Touch(t, pauseList, call[t], "move")
              ELSE Touch(t, pauseList, [call[t] EXCEPT !.index = i + 1], "look")

\* System.arraycopy of the last places down by one
Move(t) ==
  /\ At(t, "move")
  /\ \E n \in SizesRead(t) :
       Touch(t, [pauseList EXCEPT !.at = [i \in ArrayPlaces |->
                   IF call[t].index <= i /\ i < n THEN @[i + 1] ELSE @[i]]],
             [call[t] EXCEPT !.size = n], "read")

ReadSize(t) ==
  /\ At(t, "read")
  /\ \E n \in SizesRead(t) : Touch(t, pauseList, [call[t] EXCEPT !.size = n], "shrink")

\* The size and the null, in an order that differs, too
Shrink(t) ==
  /\ pc[t] \in {"shrink", "dropped"}
  /\ LET list == [pauseList EXCEPT !.size = call[t].size - 1]
     IN IF At(t, "shrink") THEN Touch(t, list, call[t], "shrunk")
                           ELSE Touch(t, list, NoCall, "size")

Drop(t) ==
  /\ pc[t] \in {"shrink", "shrunk"}
  /\ LET list == [pauseList EXCEPT !.at[call[t].size] = Nothing]
     IN IF At(t, "shrink") THEN Touch(t, list, call[t], "dropped")
                           ELSE Touch(t, list, NoCall, "size")

Remove(t) == BeginRemove(t) \/ Look(t) \/ Move(t) \/ ReadSize(t) \/ Shrink(t) \/ Drop(t)

After(t) == IF t = "ui" THEN "idle" ELSE "loaded"

\* Faulty: the size is compared as if the key removed were still counted.
TestSizeOfOne(t) ==
  /\ At(t, "size")
  /\ GoTo(t, IF pauseList.size = 1 THEN "clear" ELSE After(t))
  /\ UNCHANGED <<act, want, java, native, rest>>

TestSize(t) ==
  /\ At(t, "size")
  /\ GoTo(t, IF pauseList.size = 0 THEN "clear" ELSE After(t))
  /\ UNCHANGED <<act, want, java, native, rest>>

ClearPause(t) ==
  /\ At(t, "clear")
  /\ isPaused' = FALSE
  /\ GoTo(t, After(t))
  /\ UNCHANGED <<act, want, queue, listing, manager, native, rest>>

Unpause(t) == Remove(t) \/ TestSize(t) \/ ClearPause(t)

----
(* loadRomFile, run by the UI thread from onCreate and by the task.        *)

CheckLoaded(t) ==
  /\ At(t, "check")
  /\ GoTo(t, IF hasLoaded /\ currentRom = want[t] THEN "already" ELSE "assign")
  /\ UNCHANGED <<act, want, java, native, rest>>

\* handleRomLoaded(callback, 0) at once
AnswerAlready(t) ==
  /\ At(t, "already")
  /\ hasLoaded' = TRUE
  /\ GoTo(t, "idle")
  /\ want' = [want EXCEPT ![t] = NoFile]
  /\ UNCHANGED <<act, queue, pausing, currentRom, native, rest>>

AssignRom(t) ==
  /\ At(t, "assign")
  /\ hasLoaded' = FALSE
  /\ currentRom' = want[t]
  /\ want' = [want EXCEPT ![t] = NoFile]
  /\ GoTo(t, "queue")
  /\ UNCHANGED <<act, queue, pausing, native, rest>>

QueueLoad(t) ==
  /\ At(t, "queue")
  /\ Queue([op |-> "load", by |-> t])
  /\ GoTo(t, IF t = "task" THEN "await" ELSE "idle")
  /\ UNCHANGED <<act, want, pausing, manager, native, rest>>

LoadRomFile(t) == CheckLoaded(t) \/ AnswerAlready(t) \/ AssignRom(t) \/ QueueLoad(t)

----
(* The UI thread.                                                          *)

Asked == requests < MaxRequests /\ requests' = requests + 1

OnCreate ==
  /\ act = "none" /\ At("ui", "idle")
  /\ act' = "created"
  /\ GoTo("ui", "initialize")
  /\ UNCHANGED <<want, java, native, rest>>

Initialize ==
  /\ At("ui", "initialize")
  /\ Queue([op |-> "init"])
  /\ want' = [want EXCEPT !["ui"] = romPath]
  /\ GoTo("ui", IF romPath = NoFile THEN "idle" ELSE "check")
  /\ UNCHANGED <<act, pausing, manager, native, rest>>

OnResume ==
  /\ act \in {"created", "paused"} /\ At("ui", "idle")
  /\ act' = "resumed"
  /\ GoTo("ui", "unpause")
  /\ UNCHANGED <<want, java, native, rest>>

OnPause ==
  /\ act = "resumed" /\ At("ui", "idle")
  /\ Asked
  /\ act' = "paused"
  /\ GoTo("ui", "list")
  /\ UNCHANGED <<want, java, native, disk, history, recreations, kills>>

\* setPaused(key, true): ArrayList.contains, and the size add will store at
BeginAdd ==
  /\ At("ui", "list")
  /\ IF \E i \in 1 .. pauseList.size : pauseList.at[i] = Key.ui
     THEN Touch("ui", pauseList, NoCall, "pause")
     ELSE Touch("ui", pauseList, [index |-> 1, size |-> pauseList.size], "insert")

\* The greater size and the key, in an order that differs between versions
Grow ==
  /\ pc["ui"] \in {"insert", "stored"}
  /\ LET list == [pauseList EXCEPT !.size = call["ui"].size + 1]
     IN IF At("ui", "insert") THEN Touch("ui", list, call["ui"], "grown")
                              ELSE Touch("ui", list, NoCall, "pause")

Store ==
  /\ pc["ui"] \in {"insert", "grown"}
  /\ LET list == [pauseList EXCEPT !.at[call["ui"].size + 1] = Key.ui]
     IN IF At("ui", "insert") THEN Touch("ui", list, call["ui"], "stored")
                              ELSE Touch("ui", list, NoCall, "pause")

SetPaused ==
  /\ At("ui", "pause")
  /\ isPaused' = TRUE
  /\ GoTo("ui", "save")
  /\ UNCHANGED <<act, want, queue, listing, manager, native, rest>>

\* saveCurrentRom, then a task that has not started yet is cancelled
SaveCurrentRom ==
  /\ At("ui", "save")
  /\ IF currentRom = NoFile THEN queue' = queue ELSE Queue([op |-> "save"])
  /\ pc' = [pc EXCEPT !["ui"] = "idle", !["task"] = IF @ = "pending" THEN "idle" ELSE @]
  /\ want' = [want EXCEPT !["task"] = IF At("task", "pending") THEN NoFile ELSE @]
  /\ UNCHANGED <<act, pausing, manager, native, rest>>

\* Back: the activity goes, the process and its singletons stay
OnDestroy ==
  /\ act = "paused" /\ At("ui", "idle")
  /\ recreations < MaxRecreations
  /\ recreations' = recreations + 1
  /\ act' = "none"
  /\ UNCHANGED <<pc, want, java, native, disk, history, requests, kills>>

HandleFile(f) ==
  /\ act = "resumed" /\ At("ui", "idle") /\ At("task", "idle")
  /\ Asked
  /\ want' = [want EXCEPT !["task"] = f]
  /\ GoTo("task", "pending")
  /\ UNCHANGED <<act, java, native, disk, history, recreations, kills>>

ResetCalc ==
  /\ act = "resumed" /\ At("ui", "idle")
  /\ Asked
  /\ Queue([op |-> "reset"])
  /\ UNCHANGED <<act, pc, want, pausing, manager, native, disk, history, recreations, kills>>

\* The wizard lies over the paused activity
CreateRom(f) ==
  /\ act = "paused" /\ At("ui", "idle")
  /\ Asked
  /\ Queue([op |-> "create", rom |-> f])
  /\ UNCHANGED <<act, pc, want, pausing, manager, native, disk, history, recreations, kills>>

UiStep ==
  \/ Initialize \/ LoadRomFile("ui")
  \/ Unpause("ui") \/ BeginAdd \/ Grow \/ Store
  \/ SetPaused \/ SaveCurrentRom

User ==
  \/ OnCreate \/ OnResume \/ OnPause \/ OnDestroy \/ ResetCalc
  \/ \E f \in Roms \cup {VarFile} : HandleFile(f)
  \/ \E f \in Good : CreateRom(f)

----
(* The task: doInBackground.                                               *)

StartRom ==
  /\ At("task", "pending") /\ want["task"] # VarFile
  /\ GoTo("task", "check")
  /\ UNCHANGED <<act, want, java, native, rest>>

SendVar ==
  /\ At("task", "pending") /\ want["task"] = VarFile
  /\ Queue([op |-> "send"])
  /\ GoTo("task", "await")
  /\ want' = [want EXCEPT !["task"] = NoFile]
  /\ UNCHANGED <<act, pausing, manager, native, rest>>

TaskStep == StartRom \/ SendVar \/ LoadRomFile("task")

----
(* The calc thread.  Only it changes the slots and the disk.               *)

\* Faulty: the list is drained only while the emulator is not paused.
TakeLockUnpaused ==
  /\ At("calc", "top") /\ queue # <<>> /\ ~isPaused
  /\ GoTo("calc", "locked")
  /\ UNCHANGED <<act, want, java, native, rest>>

TakeLock ==
  /\ At("calc", "top") /\ queue # <<>>
  /\ GoTo("calc", "locked")
  /\ UNCHANGED <<act, want, java, native, rest>>

\* The list is empty, or has been emptied: on to the pause flag
Drained ==
  /\ pc["calc"] \in {"top", "locked"} /\ queue = <<>>
  /\ GoTo("calc", "test")
  /\ UNCHANGED <<act, want, java, native, rest>>

TestPaused ==
  /\ At("calc", "test")
  /\ GoTo("calc", IF isPaused THEN "top" ELSE "frame")
  /\ UNCHANGED <<act, want, java, native, rest>>

RunFrame ==
  /\ At("calc", "frame") /\ GoTo("calc", "top")
  /\ UNCHANGED <<act, want, java, native, rest>>

Runs(op) == At("calc", "locked") /\ queue # <<>> /\ Head(queue).op = op
Done == queue' = Tail(queue)

\* lpCalc is a slot whose keypad, LCD and link are there
Built == cur # 0 /\ slots[cur].built

RunInitialize ==
  /\ Runs("init")
  /\ IF FreeSlots(slots) = {} THEN Crash
     ELSE /\ cur' = FirstFree(slots)
          /\ slots' = [slots EXCEPT ![FirstFree(slots)] =
                         [Empty EXCEPT !.active = TRUE, !.event = TRUE]]
          /\ Done
          /\ UNCHANGED <<act, pc, want, pausing, manager, rest>>

RunReset ==
  /\ Runs("reset")
  /\ IF cur # 0 /\ ~slots[cur].built THEN Crash
     ELSE /\ Done
          /\ UNCHANGED <<act, pc, want, pausing, manager, native, rest>>

\* Faulty: a calculator that is there already is taken for the one asked for.
RunLoadOnce ==
  /\ Runs("load")
  /\ slots' = IF Loads(currentRom) /\ ~slots[cur].built
              THEN [slots EXCEPT ![cur] = Loaded(@, files[currentRom])] ELSE slots
  /\ GoTo("calc", IF Loads(currentRom) THEN "unpause" ELSE "failed")
  /\ UNCHANGED <<act, want, java, cur, rest>>

\* Faulty: the pause the constructor asked for is never lifted.
RunLoadStaysPaused ==
  /\ Runs("load")
  /\ slots' = IF Loads(currentRom)
              THEN [slots EXCEPT ![cur] = Loaded(@, files[currentRom])] ELSE slots
  /\ GoTo("calc", IF Loads(currentRom) THEN "loaded" ELSE "failed")
  /\ UNCHANGED <<act, want, java, cur, rest>>

\* LoadRomRunnable: the path is read now, not when the load was asked for
RunLoad ==
  /\ Runs("load")
  /\ \E spoils \in SpoilOutcomes(currentRom) :
       /\ slots' = IF Loads(currentRom)
                   THEN [slots EXCEPT ![cur] = Loaded(@, files[currentRom])]
                   ELSE IF spoils THEN [slots EXCEPT ![cur] = Spoiled(@)] ELSE slots
       /\ spoilt' = (spoilt \/ spoils)
  /\ GoTo("calc", IF Loads(currentRom) THEN "unpause" ELSE "failed")
  /\ UNCHANGED <<act, want, java, cur, disk, created, bounds>>

\* handleRomLoaded, whose callback releases the task that waits
HandleRomLoaded(place, success) ==
  /\ At("calc", place)
  /\ hasLoaded' = success
  /\ pc' = [pc EXCEPT !["calc"] = "locked",
                      !["task"] = IF Head(queue).by = "task" THEN "idle" ELSE @]
  /\ Done
  /\ UNCHANGED <<act, want, pausing, currentRom, native, rest>>

\* A file sent over the link; an OS or an application sets the calculator running
RunSend ==
  /\ Runs("send")
  /\ IF ~Built THEN Crash
     ELSE /\ \E isFlash \in BOOLEAN : slots' = [slots EXCEPT ![cur].running = @ \/ isFlash]
          /\ GoTo("task", "idle")
          /\ Done
          /\ UNCHANGED <<act, want, pausing, manager, cur, rest>>

\* Faulty: the path is remembered before anything is written.
RunSaveRemembers ==
  /\ Runs("save")
  /\ currentRom' = Sav /\ romPath' = Sav
  /\ GoTo("calc", "save")
  /\ UNCHANGED <<act, want, queue, pausing, hasLoaded, native, files, history, bounds>>

\* SaveCurrentRomRunnable: the path is stored, and read back for the save
RunSave ==
  /\ Runs("save")
  /\ currentRom' = Sav
  /\ GoTo("calc", "save")
  /\ UNCHANGED <<act, want, queue, pausing, hasLoaded, native, rest>>

\* SaveSlot, then WriteSave up to where the file is opened and emptied
OpenSave ==
  /\ At("calc", "save")
  /\ IF slots[cur].active /\ ~Built THEN Crash
     ELSE /\ \/ GoTo("calc", "locked") /\ Done /\ UNCHANGED <<want, files>>
             \/ /\ slots[cur].active
                /\ files' = [files EXCEPT ![currentRom] = Torn]
                /\ want' = [want EXCEPT !["calc"] = currentRom]
                /\ GoTo("calc", "write") /\ UNCHANGED queue
          /\ UNCHANGED <<act, pausing, manager, native, romPath, history, bounds>>

FinishSave ==
  /\ At("calc", "write")
  /\ \/ /\ files' = [files EXCEPT ![want["calc"]] = slots[cur].rom]
        /\ GoTo("calc", "remember") /\ UNCHANGED queue
     \/ GoTo("calc", "locked") /\ Done /\ UNCHANGED files
  /\ want' = [want EXCEPT !["calc"] = NoFile]
  /\ UNCHANGED <<act, pausing, manager, native, romPath, history, bounds>>

UpdateCurrentRomSetting ==
  /\ At("calc", "remember")
  /\ romPath' = currentRom
  /\ GoTo("calc", "locked") /\ Done
  /\ UNCHANGED <<act, want, pausing, manager, native, files, history, bounds>>

\* Faulty: the old calculator is not freed.
RunCreateKeeps ==
  /\ Runs("create")
  /\ IF FreeSlots(slots) = {} THEN Crash
     ELSE /\ cur' = FirstFree(slots)
          /\ slots' = [slots EXCEPT ![FirstFree(slots)] =
               [active |-> TRUE, built |-> TRUE, running |-> FALSE,
                event |-> TRUE, rom |-> Head(queue).rom]]
          /\ created' = TRUE
          /\ Done
          /\ UNCHANGED <<act, pc, want, pausing, manager, disk, spoilt, bounds>>

\* CreateRom frees lpCalc and builds a new slot; a failure leaves it there,
\* with no event registered.  After a failed download the error dialog is
\* raised on this thread, which kills the process.
RunCreate ==
  /\ Runs("create")
  /\ LET freed == IF cur = 0 THEN slots ELSE [slots EXCEPT ![cur] = Freed(@)]
         i == FirstFree(freed)
     IN IF FreeSlots(freed) = {} THEN Crash
        ELSE \/ /\ cur' = i
                /\ \E success \in BOOLEAN :
                     /\ slots' = [freed EXCEPT ![i] =
                          [active |-> TRUE, built |-> TRUE, running |-> FALSE,
                           event |-> success, rom |-> IF success THEN Head(queue).rom ELSE Blank]]
                     /\ spoilt' = (spoilt \/ ~success)
                /\ created' = TRUE
                /\ Done
                /\ UNCHANGED <<act, pc, want, pausing, manager, disk, bounds>>
             \/ Crash

CalcStep ==
  \/ TakeLock \/ Drained \/ TestPaused \/ RunFrame
  \/ RunInitialize \/ RunReset \/ RunLoad \/ RunSend \/ RunCreate
  \/ Unpause("calc")
  \/ HandleRomLoaded("loaded", TRUE) \/ HandleRomLoaded("failed", FALSE)
  \/ RunSave \/ OpenSave \/ FinishSave \/ UpdateCurrentRomSetting

Next == UiStep \/ User \/ TaskStep \/ CalcStep \/ Kill

\* Threads are scheduled; a thread blocked on the lock gets it some time,
\* for the calc thread sleeps or runs a frame between two drains.  What the
\* user and the system do is not fair.
Fairness ==
  /\ WF_vars(CalcStep)
  /\ SF_vars(UiStep)
  /\ SF_vars(TaskStep)

Spec == Init /\ [][Next]_vars
FairSpec == Spec /\ Fairness

----
(* Properties.                                                             *)

\* No load is asked for, queued or running
AtRest == /\ At("ui", "idle") /\ At("task", "idle") /\ queue = <<>> /\ LockFree

\* wabbitemujni.c:77, "Do not allow more than one calc currently": at any
\* time at most one slot of calcs[] is active, lpCalc.
OneCalcActive == \A i \in 1 .. MaxCalcs : slots[i].active => i = cur

\* savestate.cpp:623, "if (keypad == NULL) throw": a save is only taken of
\* a calculator that has its keypad.
SaveHasKeypad == At("calc", "save") /\ slots[cur].active => slots[cur].built

\* Once every request is answered, the manager's word that a ROM is loaded
\* is true: the slot holds what its file holds, unless the path has already
\* moved on to the save file, or the wizard has put another ROM there.  A
\* slot left half built voids it.
LoadedAgrees ==
  AtRest /\ hasLoaded /\ ~spoilt =>
    /\ Built /\ slots[cur].rom \in Good
    /\ currentRom = Sav \/ created \/ slots[cur].rom = files[currentRom]

\* load_settings stays registered through every free and reload of the
\* slot, so a ROM that is loaded is also set running (calc_run_tstates
\* steps nothing otherwise) until the wizard replaces the slot.
LoadedRuns == AtRest /\ hasLoaded /\ ~created => slots[cur].running

\* setPaused, from where it is called to its end
Unpausing == {"unpause", "look", "move", "read", "shrink", "shrunk", "dropped", "size", "clear"}
Pausing == {"list", "insert", "grown", "stored", "pause"}
NoneCalling == pc["ui"] \notin Unpausing \cup Pausing /\ pc["calc"] \notin Unpausing

\* The pause list and its flag are changed by two threads, an access at a time.
\* When both are done, the emulator is paused only while nothing has been
\* loaded or the activity is not in front, and the key of who wants it is
\* listed.  Two calls of the list at once, of which one changes it, may leave
\* an entry that nobody removes; without any entry the activity in front is
\* not paused even then.
PauseHasReason ==
  NoneCalling /\ isPaused =>
    \/ \E i \in 1 .. pauseList.size :
         \/ pauseList.at[i] = Key.calc /\ ~hasLoaded
         \/ pauseList.at[i] = Key.ui /\ act # "resumed"
    \/ overlapped /\ (act = "resumed" => pauseList.size # 0)

\* The save file is remembered for the next start only once something has
\* been written to it, whenever the process is killed.
RememberedWritten == romPath = Sav => files[Sav] # NoFile

\* A task waiting for its callback is released, or its process dies: the
\* runnables are drained whether the emulator is paused or not.
LoadAnswered == At("task", "await") ~> At("task", "idle")

\* With the activity in front and a ROM loaded, frames are run for ever; only
\* an entry that two calls of the pause list at once have left there can
\* prevent it.
ResumedRuns ==
  \/ []<>~(act = "resumed" /\ At("ui", "idle") /\ hasLoaded)
  \/ []<>At("calc", "frame")
  \/ <>[](overlapped /\ pauseList.size # 0)

====
