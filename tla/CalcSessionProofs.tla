---- MODULE CalcSessionProofs ----
(* What TLAPS proves of CalcSession. *)
EXTENDS CalcSession, TLAPS, WellFoundedInduction

----
(* The pause list: what its array holds between the steps of a call, and who is on it. *)

PcOfThreads == DOMAIN pc = Threads

(* The list with the keys of some of the two threads: its size, its array, and where in it
   the key of t is. *)
Callers == {"ui", "calc"}
Count(who) == (IF "calc" \in who THEN 1 ELSE 0) + (IF "ui" \in who THEN 1 ELSE 0)
KeysOf(who) ==
  [i \in ArrayPlaces |->
     IF i = 1 THEN IF "calc" \in who THEN Key.calc ELSE IF "ui" \in who THEN Key.ui ELSE Nothing
     ELSE IF i = 2 /\ "calc" \in who /\ "ui" \in who THEN Key.ui ELSE Nothing]
PlaceOf(t, who) == IF t = "ui" /\ "calc" \in who THEN 2 ELSE 1

(* The array when what lies behind the key of t has been moved. *)
Closed(t, who) ==
  [i \in ArrayPlaces |-> IF PlaceOf(t, who) <= i /\ i < Count(who) THEN KeysOf(who)[i + 1]
                         ELSE KeysOf(who)[i]]

Holds(size, array) == pauseList.size = size /\ pauseList.at = array

(* What a call of t has made of the list that held these keys when it began. *)
HalfDone(t, who) ==
  /\ pc[t] = "look" =>
       /\ call[t].size = Count(who) /\ call[t].index \in 1 .. Count(who) + 1
       /\ t \in who => call[t].index <= PlaceOf(t, who)
  /\ pc[t] \in {"move", "read", "shrink", "shrunk", "dropped"} =>
       t \in who /\ call[t].index = PlaceOf(t, who) /\ call[t].size = Count(who)
  /\ pc[t] = "move" => Holds(Count(who), KeysOf(who))
  /\ pc[t] \in {"read", "shrink"} => Holds(Count(who), Closed(t, who))
  /\ pc[t] = "shrunk" => Holds(Count(who) - 1, Closed(t, who))
  /\ pc[t] = "dropped" => Holds(Count(who), [Closed(t, who) EXCEPT ![Count(who)] = Nothing])
  /\ pc[t] \in {"insert", "grown", "stored"} => t \notin who /\ call[t].size = Count(who)
  /\ pc[t] = "insert" => Holds(Count(who), KeysOf(who))
  /\ pc[t] = "grown" => Holds(Count(who) + 1, KeysOf(who))
  /\ pc[t] = "stored" => Holds(Count(who), [KeysOf(who) EXCEPT ![Count(who) + 1] = Key.ui])

(* Who is listed, by what the threads and the activity are at. *)
ListedFor(who) ==
  /\ "calc" \in who =>
       /\ ~hasLoaded /\ pc["calc"] \notin {"size", "clear", "loaded"}
       /\ pc["ui"] # "already" /\ pc["task"] # "already"
  /\ "ui" \in who => act # "resumed" \/ pc["ui"] \in Unpausing \ {"size", "clear"}
  /\ pc["ui"] = "list" => "ui" \notin who
  /\ pc["ui"] = "pause" => "ui" \in who

NobodyChanges == pc["ui"] \notin Changing /\ pc["calc"] \notin Changing

ListedAs(who) == /\ HalfDone("ui", who) /\ HalfDone("calc", who) /\ ListedFor(who)
                 /\ NobodyChanges => Holds(Count(who), KeysOf(who))

(* As long as no two calls that change the list have met, it is what they say. *)
Apart == \A t \in Callers : pc[t] \in Changing => pc[Other(t)] \notin InList
ListExact == ~overlapped => Apart /\ \E who \in SUBSET Callers : ListedAs(who)

(* A thread that finds the list empty goes on to lower the flag. *)
FlagFollows ==
  isPaused /\ pauseList.size = 0 /\ (act = "resumed" \/ ~overlapped) =>
    pc["ui"] \in Unpausing \/ pc["calc"] \in Unpausing

(* The UI thread calls setPaused where the activity comes and goes. *)
CallsOfActivity == /\ DOMAIN call = Callers /\ DOMAIN pauseList = {"size", "at"}
                   /\ pc["ui"] \in Pausing => act = "paused"
                   /\ pc["ui"] \in Unpausing => act = "resumed"
                   /\ pc["calc"] \notin Pausing

PauseInv == PcOfThreads /\ CallsOfActivity /\ FlagFollows /\ ListExact

(* What nearly every step below looks at. *)
USE DEF PcOfThreads, At, GoTo, Threads, java, pausing, listing

(* The lists there are. *)
LEMMA ListsThere ==
  ASSUME NEW who \in SUBSET Callers
  PROVE  /\ Count(who) \in 0 .. 2
         /\ Count(who) = 0 => who = {}
         /\ \A t \in who : PlaceOf(t, who) \in 1 .. Count(who) /\ KeysOf(who)[PlaceOf(t, who)] = Key[t]
         /\ \A t \in Callers : \A i \in 1 .. Count(who) :
              KeysOf(who)[i] = Key[t] => t \in who /\ i = PlaceOf(t, who)
<1>1. Key["ui"] = "EmulatorFragment" /\ Key["calc"] = "pauseKey"
  BY DEF Key
<1> QED BY <1>1 DEF Count, KeysOf, PlaceOf, ArrayPlaces, Key, Nothing, Callers

(* An array is what stands at its three places. *)
Arrays == [ArrayPlaces -> {"EmulatorFragment", "pauseKey", "null"}]

LEMMA ArraysThere ==
  ASSUME NEW who, NEW t
  PROVE  KeysOf(who) \in Arrays /\ Closed(t, who) \in Arrays
<1>1. KeysOf(who) \in Arrays
  BY DEF KeysOf, Arrays, Key, Nothing
<1>2. \A i \in ArrayPlaces : PlaceOf(t, who) <= i /\ i < Count(who) => i + 1 \in ArrayPlaces
  BY DEF Count, ArrayPlaces
<1>3. Closed(t, who) \in Arrays
  BY <1>1, <1>2 DEF Closed, Arrays
<1> QED BY <1>1, <1>3

LEMMA SameArray ==
  ASSUME NEW a \in Arrays, NEW b \in Arrays, a[1] = b[1], a[2] = b[2], a[3] = b[3]
  PROVE  a = b
BY DEF Arrays, ArrayPlaces

(* A key is taken, when its place is closed, the last place nulled and the size lowered. *)
LEMMA RemovedWhole ==
  ASSUME NEW who \in SUBSET Callers, NEW t \in who
  PROVE  /\ Count(who) - 1 = Count(who \ {t})
         /\ [Closed(t, who) EXCEPT ![Count(who)] = Nothing] = KeysOf(who \ {t})
<1> DEFINE a == [Closed(t, who) EXCEPT ![Count(who)] = Nothing]
           b == KeysOf(who \ {t})
<1>1. Count(who) - 1 = Count(who \ {t})
  BY DEF Count, Callers
<1>2. a \in Arrays /\ b \in Arrays
  BY ArraysThere DEF Arrays, Nothing
<1>3. a[1] = b[1] /\ a[2] = b[2] /\ a[3] = b[3]
  <2>1. CASE t = "ui"
    BY <2>1 DEF Count, KeysOf, Closed, PlaceOf, ArrayPlaces, Callers, Nothing
  <2>2. CASE t = "calc"
    BY <2>2 DEF Count, KeysOf, Closed, PlaceOf, ArrayPlaces, Callers, Nothing
  <2> QED BY <2>1, <2>2 DEF Callers
<1> QED BY <1>1, <1>2, <1>3, SameArray

(* And one is added, when it is stored behind the others and the size raised. *)
LEMMA AddedWhole ==
  ASSUME NEW who \in SUBSET Callers, "ui" \notin who
  PROVE  /\ Count(who) + 1 = Count(who \cup {"ui"})
         /\ [KeysOf(who) EXCEPT ![Count(who) + 1] = Key.ui] = KeysOf(who \cup {"ui"})
<1> DEFINE a == [KeysOf(who) EXCEPT ![Count(who) + 1] = Key.ui]
           b == KeysOf(who \cup {"ui"})
<1>1. a \in Arrays /\ b \in Arrays
  BY ArraysThere DEF Arrays, Key
<1>2. a[1] = b[1] /\ a[2] = b[2] /\ a[3] = b[3]
  BY DEF Count, KeysOf, ArrayPlaces
<1>3. Count(who) + 1 = Count(who \cup {"ui"})
  BY DEF Count
<1> QED BY <1>1, <1>2, <1>3, SameArray

LEMMA FreshKeepsPauseInv == Fresh => PauseInv'
<1> SUFFICES ASSUME Fresh PROVE PauseInv'
  OBVIOUS
<1>1. pauseList' = OneKey
  BY DEF Fresh
<1>2. OneKey.size = Count({"calc"}) /\ OneKey.at = KeysOf({"calc"}) /\ DOMAIN OneKey = {"size", "at"}
  BY DEF OneKey, Count, KeysOf
<1>3. Holds(Count({"calc"}), KeysOf({"calc"}))' /\ pauseList'.size = 1
  BY <1>1, <1>2 DEF Holds, OneKey
<1>4. ListedAs({"calc"})'
  BY <1>3 DEF Fresh, ListedAs, HalfDone, ListedFor
<1>5. {"calc"} \in SUBSET Callers
  BY DEF Callers
<1>6. Apart'
  BY DEF Apart, Callers, Changing, Fresh
<1>7. CallsOfActivity' /\ FlagFollows' /\ PcOfThreads'
  BY <1>1, <1>2, <1>3 DEF CallsOfActivity, FlagFollows, Fresh, NoCalls, Pausing, Unpausing, Callers
<1> QED BY <1>4, <1>5, <1>6, <1>7 DEF PauseInv, ListExact

LEMMA InitPauseInv == Init => PauseInv
<1> SUFFICES ASSUME Init PROVE PauseInv
  OBVIOUS
<1>1. OneKey.size = Count({"calc"}) /\ OneKey.at = KeysOf({"calc"}) /\ DOMAIN OneKey = {"size", "at"}
  BY DEF OneKey, Count, KeysOf
<1>2. Holds(Count({"calc"}), KeysOf({"calc"})) /\ pauseList.size = 1
  BY <1>1 DEF Holds, OneKey, Init
<1>3. ListedAs({"calc"}) /\ {"calc"} \in SUBSET Callers
  BY <1>2 DEF Init, ListedAs, HalfDone, ListedFor, Callers
<1>4. Apart /\ CallsOfActivity /\ FlagFollows /\ PcOfThreads
  BY <1>1, <1>2 DEF Apart, Changing, CallsOfActivity, FlagFollows, Init, NoCalls, Pausing, Unpausing, Callers
<1> QED BY <1>3, <1>4 DEF PauseInv, ListExact

(* A step of one thread leaves what the other is doing to the list as it is, if the other
   is in the list only while this one leaves the list alone. *)
LEMMA TouchKeepsExact ==
  ASSUME PauseInv, NEW t \in Callers, NEW list, NEW mine, NEW place, Touch(t, list, mine, place),
         NEW who \in SUBSET Callers, NEW now \in SUBSET Callers, ListedAs(who), ListedFor(now)',
         HalfDone(t, now)', ~overlapped', Apart,
         pc[Other(t)] \in InList => now = who /\ list = pauseList,
         place \notin Changing /\ pc[Other(t)] \notin Changing => Holds(Count(now), KeysOf(now))'
  PROVE  ListExact'
<1>1. /\ Other(t) \in Callers /\ Other(t) # t /\ Other(Other(t)) = t /\ Callers = {t, Other(t)}
  BY DEF Other, Callers
<1>2. /\ pc'[t] = place /\ pc'[Other(t)] = pc[Other(t)] /\ call'[Other(t)] = call[Other(t)]
      /\ pauseList' = list
  BY <1>1 DEF Touch, PauseInv, CallsOfActivity, Callers
<1>3. HalfDone(Other(t), now)'
  <2>1. CASE pc[Other(t)] \in InList
    BY <1>1, <1>2, <2>1 DEF ListedAs, HalfDone, Holds, Callers
  <2>2. CASE pc[Other(t)] \notin InList
    BY <1>2, <2>2 DEF HalfDone, InList, Changing
  <2> QED BY <2>1, <2>2
<1>4. ListedAs(now)'
  BY <1>1, <1>2, <1>3 DEF ListedAs, NobodyChanges, Callers
<1>5. Apart'
  BY <1>1, <1>2 DEF Apart, Touch, InList
<1> QED BY <1>4, <1>5 DEF ListExact

(* Where a call to remove may go on to. *)
LEMMA RemoveMoves ==
  ASSUME PauseInv, NEW t \in Callers, Remove(t)
  PROVE  /\ pc[t] \in Unpausing
         /\ \E place \in Unpausing : pc' = [pc EXCEPT ![t] = place]
         /\ UNCHANGED <<act, want, queue, isPaused, manager, native, rest>>
         /\ CallsOfActivity'
BY DEF Remove, BeginRemove, Look, Move, ReadSize, Shrink, Drop, Touch, PauseInv, CallsOfActivity, Unpausing,
       Callers, Pausing

LEMMA LooksKeepExact ==
  ASSUME PauseInv, NEW t \in Callers, ~overlapped', BeginRemove(t) \/ Look(t)
  PROVE  ListExact'
<1>1. ~overlapped /\ Apart
  BY DEF BeginRemove, Look, Touch, PauseInv, ListExact
<1>2. PICK who \in SUBSET Callers : ListedAs(who)
  BY <1>1 DEF PauseInv, ListExact
<1>3. pc[t] \notin Changing /\ t \in DOMAIN pc /\ t \in DOMAIN call /\ Other(t) \in Callers /\ Other(t) # t
      /\ Other(Other(t)) = t
  BY DEF BeginRemove, Look, Changing, PauseInv, CallsOfActivity, Callers, Other
<1>4. Count(who) \in 0 .. 2
  BY ListsThere
<1>5. CASE BeginRemove(t)
  <2>1. Touch(t, pauseList, [index |-> 1, size |-> pauseList.size], "look") /\ pc[t] = "unpause"
    BY <1>5 DEF BeginRemove
  <2>2. pc[Other(t)] \notin Changing
    BY <2>1 DEF Touch, InList, Changing
  <2>3. Holds(Count(who), KeysOf(who)) /\ Holds(Count(who), KeysOf(who))'
    BY <1>2, <1>3, <2>1, <2>2 DEF ListedAs, NobodyChanges, Callers, Touch, Holds
  <2>4. HalfDone(t, who)'
    BY <1>3, <1>4, <2>1, <2>3 DEF Touch, HalfDone, Holds, PlaceOf
  <2>5. ListedFor(who)'
    BY <1>2, <2>1 DEF ListedAs, ListedFor, Touch, manager, Unpausing, PauseInv, Callers
  <2> QED BY <1>1, <1>2, <2>1, <2>3, <2>4, <2>5, TouchKeepsExact
<1>6. CASE Look(t)
  <2> DEFINE i == call[t].index
  <2>1. /\ pc[t] = "look" /\ call[t].size = Count(who) /\ i \in 1 .. Count(who) + 1
        /\ t \in who => i <= PlaceOf(t, who)
    BY <1>2, <1>6 DEF Look, ListedAs, HalfDone, Callers
  <2>2. pc[Other(t)] \notin Changing
    BY <1>1, <1>3, <2>1 DEF Apart, InList
  <2>3. Holds(Count(who), KeysOf(who))
    BY <1>2, <1>3, <2>2 DEF ListedAs, NobodyChanges, Callers
  <2>4. SizesRead(t) = {Count(who)}
    BY <2>1, <2>3 DEF SizesRead, Holds
  <2>5. CASE i > Count(who) /\ Touch(t, pauseList, NoCall, "size")
    <3>1. t \notin who
      BY <1>4, <2>1, <2>5, ListsThere
    <3>2. Holds(Count(who), KeysOf(who))' /\ HalfDone(t, who)'
      BY <1>3, <2>3, <2>5 DEF Touch, HalfDone, Holds
    <3>3. ListedFor(who)'
      BY <1>2, <2>5, <3>1 DEF ListedAs, ListedFor, Touch, manager, Unpausing, PauseInv, Callers
    <3> QED BY <1>1, <1>2, <2>5, <3>2, <3>3, TouchKeepsExact
  <2>6. CASE i <= Count(who) /\ pauseList.at[i] = Key[t] /\ Touch(t, pauseList, call[t], "move")
    <3>1. t \in who /\ i = PlaceOf(t, who)
      BY <2>1, <2>3, <2>6, ListsThere DEF Holds
    <3>2. Holds(Count(who), KeysOf(who))' /\ HalfDone(t, who)'
      BY <1>3, <2>1, <2>3, <2>6, <3>1 DEF Touch, HalfDone, Holds
    <3>3. ListedFor(who)'
      BY <1>2, <2>6, <3>1 DEF ListedAs, ListedFor, Touch, manager, Unpausing, PauseInv, Callers
    <3> QED BY <1>1, <1>2, <2>6, <3>2, <3>3, TouchKeepsExact
  <2>7. CASE /\ i <= Count(who) /\ pauseList.at[i] # Key[t]
             /\ Touch(t, pauseList, [call[t] EXCEPT !.index = i + 1], "look")
    <3>1. t \in who => i # PlaceOf(t, who)
      BY <2>3, <2>7, ListsThere DEF Holds
    <3>2. Holds(Count(who), KeysOf(who))'
      BY <2>3, <2>7 DEF Touch, Holds
    <3>3. call'[t].index = i + 1 /\ call'[t].size = call[t].size
      BY <1>3, <2>7 DEF Touch, PauseInv, CallsOfActivity
    <3>4. PlaceOf(t, who) \in 1 .. 2
      BY DEF PlaceOf
    <3>5. HalfDone(t, who)'
      BY <1>3, <1>4, <2>1, <2>7, <3>1, <3>3, <3>4 DEF Touch, HalfDone
    <3>6. ListedFor(who)'
      BY <1>2, <2>7 DEF ListedAs, ListedFor, Touch, manager, Unpausing, PauseInv, Callers
    <3> QED BY <1>1, <1>2, <2>7, <3>2, <3>5, <3>6, TouchKeepsExact
  <2> QED BY <1>6, <2>4, <2>5, <2>6, <2>7 DEF Look
<1> QED BY <1>5, <1>6

LEMMA TakingKeepsExact ==
  ASSUME PauseInv, NEW t \in Callers, ~overlapped', Move(t) \/ ReadSize(t) \/ Shrink(t) \/ Drop(t)
  PROVE  ListExact'
<1> DEFINE Taking == {"move", "read", "shrink", "shrunk", "dropped"}
<1>1. ~overlapped /\ Apart
  BY DEF Move, ReadSize, Shrink, Drop, Touch, PauseInv, ListExact
<1>2. PICK who \in SUBSET Callers : ListedAs(who)
  BY <1>1 DEF PauseInv, ListExact
<1>3. /\ pc[t] \in Taking /\ pc[t] \in Changing /\ t \in DOMAIN pc /\ t \in DOMAIN call
      /\ DOMAIN pauseList = {"size", "at"}
      /\ Other(t) \in Callers /\ Other(t) # t /\ Other(Other(t)) = t
  BY DEF Move, ReadSize, Shrink, Drop, Changing, PauseInv, CallsOfActivity, Callers, Other
<1>4. pc[Other(t)] \notin InList
  BY <1>1, <1>3 DEF Apart
<1>5. HalfDone(t, who) /\ t \in who /\ call[t].index = PlaceOf(t, who) /\ call[t].size = Count(who)
  BY <1>2, <1>3 DEF ListedAs, HalfDone, Callers
<1>6. Count(who) - 1 = Count(who \ {t}) /\ [Closed(t, who) EXCEPT ![Count(who)] = Nothing] = KeysOf(who \ {t})
  BY <1>5, RemovedWhole
<1>7. Count(who) \in 1 .. 2 /\ who \ {t} \in SUBSET Callers
  BY <1>5, <1>6, ListsThere DEF Callers
(* Between the moves. *)
<1>8. ASSUME NEW list, NEW mine, NEW place \in {"read", "shrink", "shrunk", "dropped"},
             Touch(t, list, mine, place), HalfDone(t, who)'
      PROVE  ListExact'
  <2>1. ListedFor(who)'
    BY <1>2, <1>3, <1>8 DEF ListedAs, ListedFor, Touch, manager, Unpausing, PauseInv, Callers
  <2> QED BY <1>1, <1>2, <1>4, <1>8, <2>1, TouchKeepsExact DEF Changing
(* The last of them. *)
<1>9. ASSUME NEW list, NEW mine, Touch(t, list, mine, "size"),
             Holds(Count(who \ {t}), KeysOf(who \ {t}))'
      PROVE  ListExact'
  <2>1. ListedFor(who \ {t})'
    BY <1>2, <1>3, <1>9 DEF ListedAs, ListedFor, Touch, manager, Unpausing, PauseInv, Callers
  <2>2. HalfDone(t, who \ {t})'
    BY <1>3, <1>9 DEF HalfDone, Touch
  <2> QED BY <1>1, <1>2, <1>4, <1>7, <1>9, <2>1, <2>2, TouchKeepsExact
<1>10. CASE Move(t)
  <2>1. pc[t] = "move" /\ Holds(Count(who), KeysOf(who)) /\ SizesRead(t) = {Count(who)}
    BY <1>5, <1>10 DEF Move, HalfDone, Holds, SizesRead
  <2>2. Touch(t, [pauseList EXCEPT !.at = [i \in ArrayPlaces |->
                   IF call[t].index <= i /\ i < Count(who) THEN pauseList.at[i + 1] ELSE pauseList.at[i]]],
              [call[t] EXCEPT !.size = Count(who)], "read")
    BY <1>10, <2>1 DEF Move
  <2>3. pauseList'.size = Count(who) /\ pauseList'.at = Closed(t, who)
    BY <1>3, <1>5, <2>1, <2>2 DEF Touch, Closed, Holds
  <2>4. call'[t].index = call[t].index /\ call'[t].size = Count(who)
    BY <1>3, <1>5, <2>2 DEF Touch, PauseInv, CallsOfActivity
  <2>5. HalfDone(t, who)'
    BY <1>3, <1>5, <2>2, <2>3, <2>4 DEF HalfDone, Holds, Touch
  <2> QED BY <1>8, <2>2, <2>5
<1>11. CASE ReadSize(t)
  <2>1. pc[t] = "read" /\ Holds(Count(who), Closed(t, who)) /\ SizesRead(t) = {Count(who)}
    BY <1>5, <1>11 DEF ReadSize, HalfDone, Holds, SizesRead
  <2>2. Touch(t, pauseList, [call[t] EXCEPT !.size = Count(who)], "shrink")
    BY <1>11, <2>1 DEF ReadSize
  <2>3. call'[t].index = call[t].index /\ call'[t].size = Count(who)
    BY <1>3, <1>5, <2>2 DEF Touch, PauseInv, CallsOfActivity
  <2>4. HalfDone(t, who)'
    BY <1>3, <1>5, <2>1, <2>2, <2>3 DEF HalfDone, Holds, Touch
  <2> QED BY <1>8, <2>2, <2>4
<1>12. CASE Shrink(t)
  <2> DEFINE list == [pauseList EXCEPT !.size = call[t].size - 1]
  <2>1. list.size = Count(who) - 1 /\ list.at = pauseList.at
    BY <1>3, <1>5
  <2>2. CASE pc[t] = "shrink"
    <3>1. Touch(t, list, call[t], "shrunk")
      BY <1>12, <2>2 DEF Shrink
    <3> HIDE DEF list
    <3>2. HalfDone(t, who)'
      BY <1>3, <1>5, <2>1, <2>2, <3>1 DEF HalfDone, Holds, Touch
    <3> QED BY <1>8, <3>1, <3>2
  <2>3. CASE pc[t] = "dropped"
    <3>1. Touch(t, list, NoCall, "size")
      BY <1>12, <2>3 DEF Shrink
    <3> HIDE DEF list
    <3>2. Holds(Count(who \ {t}), KeysOf(who \ {t}))'
      BY <1>5, <1>6, <2>1, <2>3, <3>1 DEF HalfDone, Holds, Touch
    <3> QED BY <1>9, <3>1, <3>2
  <2> QED BY <1>12, <2>2, <2>3 DEF Shrink
<1>13. CASE Drop(t)
  <2> DEFINE list == [pauseList EXCEPT !.at[call[t].size] = Nothing]
  <2>1. list.size = pauseList.size /\ list.at = [pauseList.at EXCEPT ![Count(who)] = Nothing]
    BY <1>3, <1>5
  <2>2. CASE pc[t] = "shrink"
    <3>1. Touch(t, list, call[t], "dropped")
      BY <1>13, <2>2 DEF Drop
    <3> HIDE DEF list
    <3>2. HalfDone(t, who)'
      BY <1>3, <1>5, <2>1, <2>2, <3>1 DEF HalfDone, Holds, Touch
    <3> QED BY <1>8, <3>1, <3>2
  <2>3. CASE pc[t] = "shrunk"
    <3>1. Touch(t, list, NoCall, "size")
      BY <1>13, <2>3 DEF Drop
    <3> HIDE DEF list
    <3>2. Holds(Count(who \ {t}), KeysOf(who \ {t}))'
      BY <1>5, <1>6, <2>1, <2>3, <3>1 DEF HalfDone, Holds, Touch
    <3> QED BY <1>9, <3>1, <3>2
  <2> QED BY <1>13, <2>2, <2>3 DEF Drop
<1> QED BY <1>10, <1>11, <1>12, <1>13

(* Every step of setPaused(key, false). *)
LEMMA UnpauseMoves ==
  ASSUME PcOfThreads, NEW t \in Callers, Unpause(t)
  PROVE  /\ pc[t] \in Unpausing
         /\ \E place \in Unpausing \cup {After(t)} : pc' = [pc EXCEPT ![t] = place]
         /\ UNCHANGED <<act, want, queue, manager, native, rest>>
BY DEF Unpause, Remove, BeginRemove, Look, Move, ReadSize, Shrink, Drop, Touch, TestSize, ClearPause, Unpausing

LEMMA UnpauseKeepsPauseInv ==
  ASSUME PauseInv, NEW t \in Callers, Unpause(t)
  PROVE  PauseInv'
<1>1. CASE Remove(t)
  <2>1. /\ pc[t] \in Unpausing /\ CallsOfActivity'
        /\ UNCHANGED <<act, want, queue, isPaused, manager, native, rest>>
    BY <1>1, RemoveMoves
  <2>2. PICK place \in Unpausing : pc' = [pc EXCEPT ![t] = place]
    BY <1>1, RemoveMoves
  <2>3. PcOfThreads' /\ FlagFollows'
    BY <2>2 DEF FlagFollows, PauseInv, Callers
  <2>4. ListExact'
    BY <1>1, LooksKeepExact, TakingKeepsExact DEF ListExact, Remove
  <2> QED BY <2>1, <2>3, <2>4 DEF PauseInv
<1>2. CASE TestSize(t) \/ ClearPause(t)
  <2>1. /\ pc[t] \in {"size", "clear"} /\ UNCHANGED <<act, hasLoaded, listing>>
        /\ pauseList.size = 0 /\ pc[t] = "size" => pc' = [pc EXCEPT ![t] = "clear"] /\ isPaused' = isPaused
        /\ pauseList.size # 0 /\ pc[t] = "size" => pc' = [pc EXCEPT ![t] = After(t)] /\ isPaused' = isPaused
        /\ pc[t] = "clear" => pc' = [pc EXCEPT ![t] = After(t)] /\ isPaused' = FALSE
    BY <1>2 DEF TestSize, ClearPause, manager
  <2>2. CallsOfActivity' /\ PcOfThreads' /\ FlagFollows'
    BY <2>1 DEF CallsOfActivity, FlagFollows, Pausing, Unpausing, Callers, After, PauseInv
  <2>3. ListExact'
    <3>1. \A who \in SUBSET Callers : ListedAs(who) => ListedAs(who)'
      BY <2>1 DEF ListedAs, HalfDone, ListedFor, NobodyChanges, Holds, Changing, Callers, After, PauseInv, Unpausing
    <3>2. Apart => Apart'
      BY <2>1 DEF Apart, Changing, InList, Other, Callers, After, PauseInv
    <3> QED BY <2>1, <3>1, <3>2 DEF ListExact, PauseInv
  <2> QED BY <2>2, <2>3 DEF PauseInv
<1> QED BY <1>1, <1>2 DEF Unpause

(* The steps of setPaused(key, true). *)
LEMMA AddMoves ==
  ASSUME PcOfThreads, BeginAdd \/ Grow \/ Store
  PROVE  /\ pc["ui"] \in Pausing
         /\ \E place \in Pausing : pc' = [pc EXCEPT !["ui"] = place]
         /\ UNCHANGED <<act, want, queue, isPaused, manager, native, rest>>
BY DEF BeginAdd, Grow, Store, Touch, Pausing

LEMMA AddKeepsExact ==
  ASSUME PauseInv, ~overlapped', BeginAdd \/ Grow \/ Store
  PROVE  ListExact'
<1> DEFINE here == {"insert", "grown", "stored"}
<1>1. ~overlapped /\ Apart
  BY DEF BeginAdd, Grow, Store, Touch, PauseInv, ListExact
<1>2. PICK who \in SUBSET Callers : ListedAs(who)
  BY <1>1 DEF PauseInv, ListExact
<1>3. /\ pc["ui"] \in Pausing /\ "ui" \in DOMAIN pc /\ "ui" \in DOMAIN call /\ "ui" \in Callers
      /\ DOMAIN pauseList = {"size", "at"} /\ act = "paused" /\ Other("ui") = "calc"
  BY DEF BeginAdd, Grow, Store, PauseInv, CallsOfActivity, Callers, Other, Pausing
<1>4. CASE BeginAdd
  <2>1. pc["ui"] = "list" /\ "ui" \notin who
    BY <1>2, <1>4 DEF BeginAdd, ListedAs, ListedFor
  <2>2. CASE Touch("ui", pauseList, [index |-> 1, size |-> pauseList.size], "insert")
    <3>1. pc["calc"] \notin InList
      BY <1>3, <2>2 DEF Touch, InList, Changing
    <3>2. Holds(Count(who), KeysOf(who))
      BY <1>2, <2>1, <3>1 DEF ListedAs, NobodyChanges, InList, Changing
    <3>3. HalfDone("ui", who)'
      BY <1>3, <2>1, <2>2, <3>2 DEF Touch, HalfDone, Holds
    <3>4. ListedFor(who)'
      BY <1>2, <1>3, <2>2 DEF ListedAs, ListedFor, Touch, manager, PauseInv
    <3> QED BY <1>1, <1>2, <1>3, <2>2, <3>1, <3>3, <3>4, TouchKeepsExact DEF Changing
  <2>3. CASE \E i \in 1 .. pauseList.size : pauseList.at[i] = Key.ui
    <3>1. PICK i \in 1 .. pauseList.size : pauseList.at[i] = Key.ui
      BY <2>3
    <3>2. Count(who) \in 0 .. 1 /\ (Count(who) = 1 => "calc" \in who)
      BY <2>1 DEF Count
    <3>3. \A j \in ArrayPlaces : KeysOf(who)[j] # Key.ui /\ Closed("calc", who)[j] # Key.ui
      <4>1. \A j \in ArrayPlaces : KeysOf(who)[j] # Key.ui
        BY <2>1 DEF KeysOf, Key, Nothing
      <4> QED BY <3>2, <4>1 DEF Closed, ArrayPlaces
    <3>4. pauseList.size \in 0 .. 1 /\ \A j \in ArrayPlaces : pauseList.at[j] # Key.ui
      <4>1. CASE pc["calc"] \in {"move", "read", "shrink", "shrunk", "dropped"}
        <5>1. HalfDone("calc", who) /\ Count(who) = 1
          BY <1>2, <3>2, <4>1, ListsThere DEF ListedAs, HalfDone
        <5>2. \A j \in ArrayPlaces : [Closed("calc", who) EXCEPT ![Count(who)] = Nothing][j] # Key.ui
          BY <3>3, ArraysThere DEF Arrays, Key, Nothing
        <5>3. pauseList.size \in 0 .. 1
          BY <4>1, <5>1 DEF HalfDone, Holds
        <5>4. \/ pauseList.at = KeysOf(who) \/ pauseList.at = Closed("calc", who)
              \/ pauseList.at = [Closed("calc", who) EXCEPT ![Count(who)] = Nothing]
          BY <4>1, <5>1 DEF HalfDone, Holds
        <5> QED BY <3>3, <5>2, <5>3, <5>4
      <4>2. CASE pc["calc"] \notin {"move", "read", "shrink", "shrunk", "dropped"}
        <5>1. NobodyChanges
          BY <2>1, <4>2 DEF NobodyChanges, Changing, PauseInv, CallsOfActivity, Pausing
        <5> QED BY <1>2, <3>2, <3>3, <5>1 DEF ListedAs, Holds
      <4> QED BY <4>1, <4>2
    <3> QED BY <3>1, <3>4 DEF ArrayPlaces
  <2> QED BY <1>4, <2>2, <2>3 DEF BeginAdd
<1>5. CASE Grow \/ Store
  <2>1. /\ pc["ui"] \in here /\ pc["ui"] \in Changing
    BY <1>5 DEF Grow, Store, Changing
  <2>2. pc["calc"] \notin InList
    BY <1>1, <1>3, <2>1 DEF Apart
  <2>3. HalfDone("ui", who) /\ "ui" \notin who /\ call["ui"].size = Count(who)
    BY <1>2, <2>1 DEF ListedAs, HalfDone
  <2>4. /\ Count(who) + 1 = Count(who \cup {"ui"}) /\ who \cup {"ui"} \in SUBSET Callers
        /\ [KeysOf(who) EXCEPT ![Count(who) + 1] = Key.ui] = KeysOf(who \cup {"ui"})
    BY <2>3, AddedWhole DEF Callers
  <2>5. ASSUME NEW list, NEW place \in {"grown", "stored"}, Touch("ui", list, call["ui"], place),
               HalfDone("ui", who)'
        PROVE  ListExact'
    <3>1. ListedFor(who)'
      BY <1>2, <1>3, <2>5 DEF ListedAs, ListedFor, Touch, manager, PauseInv
    <3> QED BY <1>1, <1>2, <1>3, <2>2, <2>5, <3>1, TouchKeepsExact DEF Changing
  <2>6. ASSUME NEW list, Touch("ui", list, NoCall, "pause"),
               Holds(Count(who \cup {"ui"}), KeysOf(who \cup {"ui"}))'
        PROVE  ListExact'
    <3>1. ListedFor(who \cup {"ui"})'
      BY <1>2, <1>3, <2>6 DEF ListedAs, ListedFor, Touch, manager, PauseInv
    <3>2. HalfDone("ui", who \cup {"ui"})'
      BY <1>3, <2>6 DEF HalfDone, Touch
    <3> QED BY <1>1, <1>2, <1>3, <2>2, <2>4, <2>6, <3>1, <3>2, TouchKeepsExact
  <2>7. CASE Grow
    <3> DEFINE list == [pauseList EXCEPT !.size = call["ui"].size + 1]
    <3>1. list.size = Count(who) + 1 /\ list.at = pauseList.at
      BY <1>3, <2>3
    <3>2. CASE pc["ui"] = "insert"
      <4>1. Touch("ui", list, call["ui"], "grown")
        BY <2>7, <3>2 DEF Grow
      <4> HIDE DEF list
      <4>2. HalfDone("ui", who)'
        BY <1>3, <2>3, <3>1, <3>2, <4>1 DEF HalfDone, Holds, Touch
      <4> QED BY <2>5, <4>1, <4>2
    <3>3. CASE pc["ui"] = "stored"
      <4>1. Touch("ui", list, NoCall, "pause")
        BY <2>7, <3>3 DEF Grow
      <4> HIDE DEF list
      <4>2. Holds(Count(who \cup {"ui"}), KeysOf(who \cup {"ui"}))'
        BY <2>3, <2>4, <3>1, <3>3, <4>1 DEF HalfDone, Holds, Touch
      <4> QED BY <2>6, <4>1, <4>2
    <3> QED BY <2>7, <3>2, <3>3 DEF Grow
  <2>8. CASE Store
    <3> DEFINE list == [pauseList EXCEPT !.at[call["ui"].size + 1] = Key.ui]
    <3>1. list.size = pauseList.size /\ list.at = [pauseList.at EXCEPT ![Count(who) + 1] = Key.ui]
      BY <1>3, <2>3
    <3>2. CASE pc["ui"] = "insert"
      <4>1. Touch("ui", list, call["ui"], "stored")
        BY <2>8, <3>2 DEF Store
      <4> HIDE DEF list
      <4>2. HalfDone("ui", who)'
        BY <1>3, <2>3, <3>1, <3>2, <4>1 DEF HalfDone, Holds, Touch
      <4> QED BY <2>5, <4>1, <4>2
    <3>3. CASE pc["ui"] = "grown"
      <4>1. Touch("ui", list, NoCall, "pause")
        BY <2>8, <3>3 DEF Store
      <4> HIDE DEF list
      <4>2. Holds(Count(who \cup {"ui"}), KeysOf(who \cup {"ui"}))'
        BY <2>3, <2>4, <3>1, <3>3, <4>1 DEF HalfDone, Holds, Touch
      <4> QED BY <2>6, <4>1, <4>2
    <3> QED BY <2>8, <3>2, <3>3 DEF Store
  <2> QED BY <1>5, <2>7, <2>8
<1> QED BY <1>4, <1>5

LEMMA AddKeepsPauseInv ==
  ASSUME PauseInv, BeginAdd \/ Grow \/ Store
  PROVE  PauseInv'
<1>1. /\ pc["ui"] \in Pausing /\ UNCHANGED <<act, isPaused, hasLoaded>>
  BY AddMoves DEF PauseInv, manager
<1>2. PICK place \in Pausing : pc' = [pc EXCEPT !["ui"] = place]
  BY AddMoves DEF PauseInv
<1>3. /\ DOMAIN call' = DOMAIN call /\ DOMAIN pauseList' = DOMAIN pauseList
      /\ overlapped => overlapped'
  BY DEF BeginAdd, Grow, Store, Touch
<1>4. PcOfThreads' /\ CallsOfActivity'
  BY <1>1, <1>2, <1>3 DEF PauseInv, CallsOfActivity, Pausing, Unpausing
<1>5. ListExact'
  BY AddKeepsExact DEF ListExact
<1>6. FlagFollows'
  <2>1. CASE overlapped'
    BY <1>1, <2>1 DEF FlagFollows, PauseInv, CallsOfActivity
  <2>2. CASE ~overlapped' /\ pauseList.size = 0 /\ pc["calc"] \notin Unpausing
    <3>1. ~isPaused
      BY <1>1, <1>3, <2>2 DEF FlagFollows, PauseInv, Pausing, Unpausing
    <3> QED BY <1>1, <3>1 DEF FlagFollows
  <2>3. CASE pc["calc"] \in Unpausing
    BY <1>2, <2>3 DEF FlagFollows
  <2>4. CASE ~overlapped' /\ pauseList.size # 0
    <3>1. pauseList'.size # 0
      <4> USE DEF CallsOfActivity, PauseInv
      <4>1. CASE BeginAdd
        BY <2>4, <4>1 DEF BeginAdd, Touch
      <4>2. CASE Store
        <5> DEFINE list == [pauseList EXCEPT !.at[call["ui"].size + 1] = Key.ui]
        <5>1. list.size = pauseList.size
          OBVIOUS
        <5> HIDE DEF list
        <5>2. pauseList' = list
          BY <4>2 DEF Store, Touch, list
        <5> QED BY <2>4, <5>1, <5>2
      <4>3. CASE Grow
        <5>1. PICK who \in SUBSET Callers : HalfDone("ui", who)
          BY <1>3, <2>4 DEF PauseInv, ListExact, ListedAs
        <5>2. call["ui"].size \in 0 .. 2
          BY <4>3, <5>1, ListsThere DEF Grow, HalfDone
        <5>3. pauseList' = [pauseList EXCEPT !.size = call["ui"].size + 1]
          BY <4>3 DEF Grow, Touch
        <5>4. pauseList'.size = call["ui"].size + 1
          BY <5>3
        <5> QED BY <5>2, <5>4
      <4> QED BY <4>1, <4>2, <4>3
    <3> QED BY <3>1 DEF FlagFollows
  <2> QED BY <2>1, <2>2, <2>3, <2>4
<1> QED BY <1>4, <1>5, <1>6 DEF PauseInv

(* Steps that leave the list and the flag alone. *)
LEMMA ElsewhereKeepsPauseInv ==
  ASSUME PauseInv, UNCHANGED pausing, PcOfThreads',
         \A t \in Callers : pc'[t] # pc[t] =>
           pc[t] \notin Unpausing \cup Pausing /\ pc'[t] \notin (Unpausing \cup Pausing) \ {"unpause", "list"},
         pc'["ui"] \in Pausing => act' = "paused", pc'["ui"] \in Unpausing => act' = "resumed",
         pc'["calc"] # "list", act' = "resumed" => act = "resumed" \/ pc'["ui"] = "unpause",
         \A who : ListedFor(who) => ListedFor(who)'
  PROVE  PauseInv'
<1> USE DEF Unpausing, Pausing, Callers
<1>1. CallsOfActivity' /\ FlagFollows'
  BY DEF CallsOfActivity, FlagFollows, PauseInv
<1>2. ASSUME NEW who \in SUBSET Callers, ListedAs(who) PROVE ListedAs(who)'
  BY <1>2 DEF ListedAs, HalfDone, NobodyChanges, Holds, Changing
<1>3. Apart => Apart'
  BY DEF Apart, Changing, InList, Other
<1> QED BY <1>1, <1>2, <1>3 DEF PauseInv, ListExact

LEMMA LoadRomFileKeepsPauseInv ==
  ASSUME PauseInv, NEW t \in {"ui", "task"}, LoadRomFile(t)
  PROVE  PauseInv'
<1> USE ElsewhereKeepsPauseInv DEF ListedFor, Callers, Pausing, Unpausing, PauseInv, CallsOfActivity, manager
<1>1. CASE CheckLoaded(t)
  BY <1>1 DEF CheckLoaded
<1>2. CASE AnswerAlready(t)
  BY <1>2 DEF AnswerAlready
<1>3. CASE AssignRom(t)
  BY <1>3 DEF AssignRom
<1>4. CASE QueueLoad(t)
  BY <1>4 DEF QueueLoad
<1> QED BY <1>1, <1>2, <1>3, <1>4 DEF LoadRomFile

LEMMA SetPausedKeepsPauseInv == ASSUME PauseInv, SetPaused PROVE PauseInv'
<1> USE DEF Callers, Pausing, Unpausing
<1>1. /\ pc["ui"] = "pause" /\ pc' = [pc EXCEPT !["ui"] = "save"] /\ act = "paused"
      /\ UNCHANGED <<act, pauseList, call, overlapped, hasLoaded>>
  BY DEF SetPaused, PauseInv, CallsOfActivity, manager
<1>2. PcOfThreads' /\ CallsOfActivity'
  BY <1>1 DEF PauseInv, CallsOfActivity
<1>3. ASSUME NEW who \in SUBSET Callers, ListedAs(who) PROVE ListedAs(who)'
  BY <1>1, <1>3 DEF ListedAs, HalfDone, NobodyChanges, Holds, Changing, ListedFor, PauseInv
<1>4. Apart => Apart'
  BY <1>1 DEF Apart, Changing, InList, Other, PauseInv
<1>5. ASSUME ~overlapped, pc["calc"] \notin Unpausing PROVE pauseList.size # 0
  <2>1. PICK who \in SUBSET Callers : ListedAs(who)
    BY <1>5 DEF PauseInv, ListExact
  <2>2. NobodyChanges /\ "ui" \in who
    BY <1>1, <1>5, <2>1 DEF NobodyChanges, Changing, ListedAs, ListedFor, PauseInv, CallsOfActivity
  <2> QED BY <2>1, <2>2, ListsThere DEF ListedAs, Holds
<1>6. FlagFollows'
  BY <1>1, <1>5 DEF FlagFollows, PauseInv
<1> QED BY <1>1, <1>2, <1>3, <1>4, <1>6 DEF PauseInv, ListExact

LEMMA UiKeepsPauseInv == ASSUME PauseInv, UiStep PROVE PauseInv'
<1> USE ElsewhereKeepsPauseInv DEF ListedFor, Callers, Pausing, Unpausing, PauseInv, CallsOfActivity, manager
<1>1. CASE Initialize
  BY <1>1 DEF Initialize
<1>2. CASE SaveCurrentRom
  BY <1>2 DEF SaveCurrentRom
<1> QED BY <1>1, <1>2, LoadRomFileKeepsPauseInv, UnpauseKeepsPauseInv, AddKeepsPauseInv,
           SetPausedKeepsPauseInv DEF UiStep

LEMMA UserKeepsPauseInv == ASSUME PauseInv, User PROVE PauseInv'
<1> USE ElsewhereKeepsPauseInv DEF ListedFor, Callers, Pausing, Unpausing, PauseInv, CallsOfActivity, manager
<1>1. CASE OnCreate
  BY <1>1 DEF OnCreate
<1>2. CASE OnResume
  BY <1>2 DEF OnResume
<1>3. CASE OnPause
  BY <1>3 DEF OnPause
<1>4. CASE OnDestroy
  BY <1>4 DEF OnDestroy
<1>5. CASE ResetCalc
  BY <1>5 DEF ResetCalc
<1>6. CASE \E f \in Roms \cup {VarFile} : HandleFile(f)
  BY <1>6 DEF HandleFile
<1>7. CASE \E f \in Good : CreateRom(f)
  BY <1>7 DEF CreateRom
<1> QED BY <1>1, <1>2, <1>3, <1>4, <1>5, <1>6, <1>7 DEF User

LEMMA TaskKeepsPauseInv == ASSUME PauseInv, TaskStep PROVE PauseInv'
<1> USE ElsewhereKeepsPauseInv DEF ListedFor, Callers, Pausing, Unpausing, PauseInv, CallsOfActivity, manager
<1>1. CASE StartRom
  BY <1>1 DEF StartRom
<1>2. CASE SendVar
  BY <1>2 DEF SendVar
<1> QED BY <1>1, <1>2, LoadRomFileKeepsPauseInv DEF TaskStep

(* The steps of the calc thread outside setPaused. *)
LEMMA CalcElsewhere ==
  ASSUME PauseInv, CalcStep, ~Unpause("calc")
  PROVE  PauseInv'
<1> USE ElsewhereKeepsPauseInv DEF ListedFor, Callers, Pausing, Unpausing, PauseInv, CallsOfActivity, manager
<1>1. CASE TakeLock \/ Drained \/ TestPaused \/ RunFrame
  BY <1>1 DEF TakeLock, Drained, TestPaused, RunFrame
<1>2. CASE RunInitialize
  BY <1>2, FreshKeepsPauseInv DEF RunInitialize, Crash
<1>3. CASE RunReset
  BY <1>3, FreshKeepsPauseInv DEF RunReset, Crash
<1>4. CASE RunLoad
  BY <1>4 DEF RunLoad, Runs
<1>5. CASE RunSend
  BY <1>5, FreshKeepsPauseInv DEF RunSend, Runs, Crash
<1>6. CASE RunCreate
  BY <1>6, FreshKeepsPauseInv DEF RunCreate, Crash
<1>7. CASE HandleRomLoaded("loaded", TRUE) \/ HandleRomLoaded("failed", FALSE)
  BY <1>7 DEF HandleRomLoaded
<1>8. CASE RunSave
  BY <1>8 DEF RunSave, Runs
<1>9. CASE OpenSave
  BY <1>9, FreshKeepsPauseInv DEF OpenSave, Crash
<1>10. CASE FinishSave \/ UpdateCurrentRomSetting
  BY <1>10 DEF FinishSave, UpdateCurrentRomSetting
<1> QED BY <1>1, <1>2, <1>3, <1>4, <1>5, <1>6, <1>7, <1>8, <1>9, <1>10 DEF CalcStep

(* When both threads are done, the emulator is paused only while nothing has been loaded or
   the activity is not in front, with the key of who wants it on the list, unless two calls
   of the list have met; and whether or not they have, not with nothing listed and the
   activity in front.  CalcThread.setPaused (CalcThread.java:87) for any files, a read or
   write of the ArrayList at a time, and whenever the process ends. *)
THEOREM PausedForAReason == Spec => []PauseHasReason
<1>1. PauseInv /\ [Next]_vars => PauseInv'
  <2> SUFFICES ASSUME PauseInv, [Next]_vars PROVE PauseInv'
    OBVIOUS
  <2>1. CASE CalcStep
    BY <2>1, CalcElsewhere, UnpauseKeepsPauseInv DEF Callers
  <2>2. CASE Kill
    BY <2>2, FreshKeepsPauseInv DEF Kill
  <2>3. CASE UNCHANGED vars
    BY <2>3, ElsewhereKeepsPauseInv
       DEF vars, ListedFor, PauseInv, CallsOfActivity, manager, Pausing, Unpausing, Callers
  <2> QED BY <2>1, <2>2, <2>3, UiKeepsPauseInv, UserKeepsPauseInv, TaskKeepsPauseInv DEF Next
<1>2. PauseInv => PauseHasReason
  <2> SUFFICES ASSUME PauseInv, NoneCalling, isPaused PROVE PauseHasReason
    BY DEF PauseHasReason
  <2>1. CASE overlapped
    BY <2>1 DEF PauseInv, FlagFollows, NoneCalling, PauseHasReason
  <2>2. CASE ~overlapped
    <3>1. PICK who \in SUBSET Callers : ListedAs(who)
      BY <2>2 DEF PauseInv, ListExact
    <3>2. Holds(Count(who), KeysOf(who)) /\ who # {}
      <4>1. NobodyChanges
        BY DEF NoneCalling, NobodyChanges, Unpausing, Pausing, Changing, PauseInv, CallsOfActivity
      <4>2. pauseList.size # 0
        BY <2>2 DEF PauseInv, FlagFollows, NoneCalling
      <4> QED BY <3>1, <4>1, <4>2 DEF ListedAs, Holds, Count
    <3>3. PICK t \in who : t \in Callers
      BY <3>2
    <3>4. PlaceOf(t, who) \in 1 .. pauseList.size /\ pauseList.at[PlaceOf(t, who)] = Key[t]
      BY <3>2, <3>3, ListsThere DEF Holds
    <3>5. Key["ui"] = Key.ui /\ Key["calc"] = Key.calc
      BY DEF Key
    <3>6. CASE t = "calc"
      BY <3>1, <3>3, <3>4, <3>5, <3>6 DEF ListedAs, ListedFor, PauseHasReason
    <3>7. CASE t = "ui"
      BY <3>1, <3>3, <3>4, <3>5, <3>7 DEF ListedAs, ListedFor, PauseHasReason, NoneCalling
    <3> QED BY <3>3, <3>6, <3>7 DEF Callers
  <2> QED BY <2>1, <2>2
<1> QED BY <1>1, <1>2, InitPauseInv, PTL DEF Spec

----
(* One calculator, as long as the activity is created once in a process.   *)

AllFree == \A i \in 1 .. MaxCalcs : ~slots[i].active

SlotsThere == /\ DOMAIN slots = 1 .. MaxCalcs
              /\ \A i \in 1 .. MaxCalcs : "active" \in DOMAIN slots[i]

(* The places of the calc thread at which the runnable in hand is still listed. *)
Busy == Unpausing \cup {"loaded", "failed", "save", "write", "remember"}

Runnables == UNION {[op : {"init", "reset", "save", "send"}],
                    [op : {"load"}, by : {"ui", "task"}], [op : {"create"}, rom : Good]}

QueueThere == /\ queue \in Seq(Runnables)
              /\ pc["calc"] \in Busy => queue # <<>>

(* Nothing is under way before the calculator has been asked for. *)
Untouched == /\ queue = <<>> /\ AllFree /\ pc["task"] = "idle"

InitOnce == /\ recreations = 0
            /\ act = "none" => Untouched /\ pc["ui"] = "idle"
            /\ pc["ui"] = "initialize" => Untouched /\ act = "created"
            /\ \A i \in 1 .. Len(queue) :
                 queue[i].op = "init" => i = 1 /\ AllFree /\ pc["calc"] \notin Busy

CalcInv == PcOfThreads /\ SlotsThere /\ QueueThere /\ InitOnce /\ OneCalcActive

USE DEF CalcInv, SlotsThere, QueueThere, InitOnce, OneCalcActive, Untouched, AllFree, Busy,
        native, rest, bounds, manager, disk, history, Unpausing, Pausing

LEMMA FreshCalcInv == Fresh => CalcInv'
BY DEF Fresh, Empty

LEMMA InitCalcInv == Init => CalcInv
BY DEF Init, Empty

LEMMA RunnablesThere ==
  /\ [op |-> "init"] \in Runnables /\ [op |-> "reset"] \in Runnables
  /\ [op |-> "save"] \in Runnables /\ [op |-> "send"] \in Runnables
  /\ \A t \in {"ui", "task"} : [op |-> "load", by |-> t] \in Runnables
  /\ \A f \in Good : [op |-> "create", rom |-> f] \in Runnables
BY DEF Runnables

LEMMA QueueKeeps ==
  ASSUME QueueThere, NEW item \in Runnables, Queue(item)
  PROVE  /\ queue' \in Seq(Runnables) /\ queue' # <<>>
         /\ Len(queue') = Len(queue) + 1 /\ queue'[Len(queue')] = item
         /\ \A i \in 1 .. Len(queue) : queue'[i] = queue[i]
         /\ pc["calc"] \notin Busy
BY DEF Queue, LockFree

(* Once it is touched, anything but a calculator may be asked for. *)
LEMMA AskKeepsCalcInv ==
  ASSUME CalcInv, NEW item \in Runnables, Queue(item), item.op # "init",
         act # "none", pc["ui"] # "initialize", act' # "none", pc'["ui"] # "initialize",
         PcOfThreads', UNCHANGED <<native, recreations>>, pc'["calc"] = pc["calc"]
  PROVE  CalcInv'
<1>1. \A i \in 1 .. Len(queue') : queue'[i].op = "init" => i \in 1 .. Len(queue) /\ queue[i].op = "init"
  BY QueueKeeps
<1> QED BY <1>1, QueueKeeps

LEMMA LoadRomFileKeepsCalcInv ==
  ASSUME CalcInv, NEW t \in {"ui", "task"}, LoadRomFile(t)
  PROVE  CalcInv'
<1>1. CASE CheckLoaded(t)
  BY <1>1 DEF CheckLoaded
<1>2. CASE AnswerAlready(t)
  BY <1>2 DEF AnswerAlready
<1>3. CASE AssignRom(t)
  BY <1>3 DEF AssignRom
<1>4. CASE QueueLoad(t)
  <2>1. Queue([op |-> "load", by |-> t]) /\ act' = act /\ UNCHANGED <<native, recreations>>
        /\ pc["ui"] # "initialize" /\ pc'["ui"] # "initialize" /\ pc'["calc"] = pc["calc"]
        /\ PcOfThreads' /\ act # "none"
    BY <1>4 DEF QueueLoad
  <2> QED BY <2>1, RunnablesThere, AskKeepsCalcInv
<1> QED BY <1>1, <1>2, <1>3, <1>4 DEF LoadRomFile

LEMMA UiKeepsCalcInv == ASSUME CalcInv, UiStep PROVE CalcInv'
<1>1. CASE Initialize
  <2>1. Queue([op |-> "init"]) /\ queue = <<>> /\ AllFree
        /\ act' = act /\ UNCHANGED <<native, recreations>> /\ act # "none"
        /\ pc'["ui"] # "initialize" /\ pc'["calc"] = pc["calc"] /\ PcOfThreads'
    BY <1>1 DEF Initialize
  <2>2. Len(queue') = 1
    BY <2>1, QueueKeeps, RunnablesThere
  <2> QED BY <2>1, <2>2, QueueKeeps, RunnablesThere
<1>2. CASE SetPaused
  BY <1>2 DEF SetPaused
<1>3. CASE SaveCurrentRom
  <2>1. act' = act /\ UNCHANGED <<native, recreations>> /\ act # "none"
        /\ pc["ui"] # "initialize" /\ pc'["ui"] # "initialize" /\ pc'["calc"] = pc["calc"]
        /\ PcOfThreads' /\ (Queue([op |-> "save"]) \/ queue' = queue)
    BY <1>3 DEF SaveCurrentRom
  <2> QED BY <2>1, RunnablesThere, AskKeepsCalcInv
<1>4. CASE Unpause("ui")
  BY <1>4, UnpauseMoves DEF Callers, After
<1>5. CASE BeginAdd \/ Grow \/ Store
  BY <1>5, AddMoves
<1> QED BY <1>1, <1>2, <1>3, <1>4, <1>5, LoadRomFileKeepsCalcInv DEF UiStep

LEMMA UserKeepsCalcInv == ASSUME CalcInv, MaxRecreations = 0, User PROVE CalcInv'
<1>1. CASE OnCreate
  BY <1>1 DEF OnCreate
<1>2. CASE OnResume
  BY <1>2 DEF OnResume
<1>3. CASE OnPause
  BY <1>3 DEF OnPause
<1>4. CASE OnDestroy
  BY <1>4 DEF OnDestroy
<1>5. CASE ResetCalc
  BY <1>5, RunnablesThere, AskKeepsCalcInv DEF ResetCalc
<1>6. CASE \E f \in Roms \cup {VarFile} : HandleFile(f)
  BY <1>6 DEF HandleFile
<1>7. CASE \E f \in Good : CreateRom(f)
  BY <1>7, RunnablesThere, AskKeepsCalcInv DEF CreateRom
<1> QED BY <1>1, <1>2, <1>3, <1>4, <1>5, <1>6, <1>7 DEF User

LEMMA TaskKeepsCalcInv == ASSUME CalcInv, TaskStep PROVE CalcInv'
<1>1. CASE StartRom
  BY <1>1 DEF StartRom
<1>2. CASE SendVar
  <2>1. Queue([op |-> "send"]) /\ act' = act /\ UNCHANGED <<native, recreations>>
        /\ pc["ui"] # "initialize" /\ pc'["ui"] # "initialize" /\ pc'["calc"] = pc["calc"]
        /\ PcOfThreads' /\ act # "none"
    BY <1>2 DEF SendVar
  <2> QED BY <2>1, RunnablesThere, AskKeepsCalcInv
<1> QED BY <1>1, <1>2, LoadRomFileKeepsCalcInv DEF TaskStep

(* The steps of the calc thread. *)

LEMMA FirstOfFree ==
  ASSUME NEW table, \A i \in 1 .. MaxCalcs : ~table[i].active
  PROVE  FirstFree(table) \in 1 .. MaxCalcs
<1>1. 1 \in FreeSlots(table) /\ \A j \in FreeSlots(table) : 1 <= j
  BY CalcsAssumption DEF FreeSlots
<1> QED BY <1>1 DEF FirstFree, FreeSlots

LEMMA DoneShifts ==
  ASSUME QueueThere, queue # <<>>, Done
  PROVE  /\ queue' \in Seq(Runnables) /\ Len(queue') = Len(queue) - 1
         /\ \A i \in 1 .. Len(queue') : queue'[i] = queue[i + 1]
BY DEF Done

LEMMA DoneKeepsQueue ==
  ASSUME CalcInv, queue # <<>>, Done
  PROVE  /\ queue' \in Seq(Runnables)
         /\ \A i \in 1 .. Len(queue') : queue'[i].op # "init"
<1>1. /\ queue' \in Seq(Runnables) /\ Len(queue') = Len(queue) - 1
      /\ \A i \in 1 .. Len(queue') : queue'[i] = queue[i + 1]
  BY DoneShifts
<1>2. \A i \in 1 .. Len(queue') : i + 1 \in 1 .. Len(queue) /\ i + 1 # 1
  BY <1>1
<1> QED BY <1>1, <1>2

(* A runnable that was run, when the calculators are as they were or the first was built. *)
LEMMA RunKeepsCalcInv ==
  ASSUME CalcInv, queue # <<>>, Done, PcOfThreads', SlotsThere', OneCalcActive',
         act' = act, recreations' = recreations, pc'["calc"] = "locked",
         pc'["ui"] = pc["ui"]
  PROVE  CalcInv'
BY DoneKeepsQueue

LEMMA CalcKeepsCalcInv == ASSUME CalcInv, CalcStep PROVE CalcInv'
<1>1. CASE TakeLock
  BY <1>1 DEF TakeLock
<1>2. CASE Drained \/ TestPaused \/ RunFrame
  BY <1>2 DEF Drained, TestPaused, RunFrame
<1>3. CASE RunReset
  BY <1>3, FreshCalcInv, RunKeepsCalcInv DEF RunReset, Crash, Runs
<1>4. CASE RunLoad
  <2>1. /\ act' = act /\ queue' = queue /\ recreations' = recreations /\ cur' = cur
        /\ pc["calc"] = "locked" /\ pc' \in {[pc EXCEPT !["calc"] = "unpause"],
                                             [pc EXCEPT !["calc"] = "failed"]}
        /\ queue # <<>> /\ Head(queue).op = "load"
    BY <1>4 DEF RunLoad, Runs
  <2>2. \/ slots' = slots
        \/ \E content : slots' = [slots EXCEPT ![cur] = Loaded(@, content)]
        \/ slots' = [slots EXCEPT ![cur] = Spoiled(@)]
    BY <1>4 DEF RunLoad
  <2>3. SlotsThere' /\ OneCalcActive'
    BY <2>1, <2>2 DEF Loaded, Spoiled, Freed
  <2>4. ~\E i \in 1 .. Len(queue) : queue[i].op = "init"
    BY <2>1
  <2> QED BY <2>1, <2>3, <2>4
<1>5. CASE RunSend
  BY <1>5, FreshCalcInv, RunKeepsCalcInv DEF RunSend, Runs, Crash
<1>6. CASE Unpause("calc")
  BY <1>6, UnpauseMoves DEF Callers, After
<1>7. CASE HandleRomLoaded("loaded", TRUE) \/ HandleRomLoaded("failed", FALSE)
  BY <1>7, RunKeepsCalcInv DEF HandleRomLoaded
<1>8. CASE RunSave
  BY <1>8 DEF RunSave, Runs
<1>9. CASE OpenSave
  BY <1>9, FreshCalcInv, RunKeepsCalcInv DEF OpenSave, Crash
<1>10. CASE FinishSave \/ UpdateCurrentRomSetting
  BY <1>10, RunKeepsCalcInv DEF FinishSave, UpdateCurrentRomSetting
<1>11. CASE RunInitialize
  <2>1. AllFree
    BY <1>11 DEF RunInitialize, Runs
  <2>2. FirstFree(slots) \in 1 .. MaxCalcs
    BY <2>1, FirstOfFree
  <2>3. ASSUME ~Crash PROVE SlotsThere' /\ OneCalcActive'
    BY <1>11, <2>1, <2>2, <2>3 DEF RunInitialize, Empty
  <2> QED BY <1>11, <2>3, FreshCalcInv, RunKeepsCalcInv DEF RunInitialize, Crash, Runs
<1>12. CASE RunCreate
  <2> DEFINE freed == IF cur = 0 THEN slots ELSE [slots EXCEPT ![cur] = Freed(@)]
             i == FirstFree(freed)
  <2>1. /\ DOMAIN freed = 1 .. MaxCalcs
        /\ \A j \in 1 .. MaxCalcs : "active" \in DOMAIN freed[j] /\ ~freed[j].active
    BY DEF Freed
  <2>2. i \in 1 .. MaxCalcs
    BY <2>1, FirstOfFree
  <2>3. ASSUME ~Crash
        PROVE  /\ cur' = i
               /\ \E s : slots' = [freed EXCEPT ![i] = s] /\ "active" \in DOMAIN s
    BY <1>12, <2>3 DEF RunCreate
  <2> HIDE DEF freed, i
  <2>4. ASSUME ~Crash PROVE SlotsThere' /\ OneCalcActive'
    BY <2>1, <2>2, <2>3, <2>4
  <2> QED BY <1>12, <2>4, FreshCalcInv, RunKeepsCalcInv DEF RunCreate, Crash, Runs
<1> QED BY <1>1, <1>2, <1>3, <1>4, <1>5, <1>6, <1>7, <1>8, <1>9, <1>10, <1>11, <1>12
        DEF CalcStep

LEMMA NextKeepsCalcInv == ASSUME MaxRecreations = 0, CalcInv, [Next]_vars PROVE CalcInv'
<1>1. CASE Kill
  BY <1>1, FreshCalcInv DEF Kill
<1>2. CASE UNCHANGED vars
  BY <1>2 DEF vars
<1> QED BY <1>1, <1>2, UiKeepsCalcInv, UserKeepsCalcInv, TaskKeepsCalcInv, CalcKeepsCalcInv DEF Next

(* No order of loads, resets, saves, wizard ROMs and deaths of the process leaves two
   calculators active, or one that lpCalc has lost, while a process creates its activity
   once: rom_load frees the slot it fills (calc.c:310), CreateRom the one it replaces (wabbitemujni.c:79).
   Without the assumption it is false, as the run session_second_calc shows. *)
THEOREM OneCalcOfOneActivity ==
  ASSUME MaxRecreations = 0
  PROVE  Spec => []OneCalcActive
<1>1. CalcInv /\ [Next]_vars => CalcInv'
  BY NextKeepsCalcInv
<1>2. CalcInv => OneCalcActive
  OBVIOUS
<1> QED BY <1>1, <1>2, InitCalcInv, PTL DEF Spec

----
(* The save file, for any number of activities in a process.               *)

HIDE DEF CalcInv, SlotsThere, InitOnce,
         OneCalcActive, Untouched, AllFree

Paths == Roms \cup {Sav}

FilesTyped ==
  /\ files \in [Paths -> Roms \cup {NoFile, Blank, Torn}]
  /\ want \in [Threads -> Paths \cup {NoFile, VarFile}]
  /\ currentRom \in Paths \cup {NoFile} /\ romPath \in Paths \cup {NoFile}
  /\ pc["task"] = "pending" => want["task"] \in Roms \cup {VarFile}
  /\ \A t \in {"ui", "task"} : pc[t] \in {"check", "already", "assign"} => want[t] \in Paths

SlotsTyped == slots \in [1 .. MaxCalcs -> Slots] /\ cur \in 0 .. MaxCalcs

(* Whatever reaches the calc thread finds a calculator: the first runnable makes one. *)
CurThere ==
  cur = 0 =>
    \/ /\ queue = <<>> /\ pc["task"] = "idle"
       /\ pc["ui"] = "initialize" \/ (pc["ui"] = "idle" /\ act = "none")
    \/ queue # <<>> /\ queue[1].op = "init" /\ pc["calc"] \notin Busy

(* The save file may hold nothing only as long as nobody has its path, but for a save
   that is about to open it. *)
SavKnown ==
  \/ files[Sav] # NoFile
  \/ /\ romPath # Sav /\ want["ui"] # Sav /\ want["task"] # Sav
     /\ pc["calc"] \in {"write", "remember"} => currentRom # Sav

SaveInv == PcOfThreads /\ QueueThere /\ FilesTyped /\ SlotsTyped /\ CurThere /\ SavKnown

USE DEF SaveInv, FilesTyped, SlotsTyped, CurThere, SavKnown, Paths

LEMMA FilesDistinct ==
  /\ Sav \notin Roms /\ NoFile \notin Roms /\ Blank \notin Roms /\ Torn \notin Roms
  /\ VarFile \notin Roms /\ VarFile # Sav /\ VarFile # NoFile /\ Good \subseteq Roms
  /\ Sav # NoFile /\ Blank # NoFile /\ Torn # NoFile /\ Blank # Torn
BY FilesAssumption DEF Sav, NoFile, Blank, Torn, Roms

LEMMA EmptyTyped == Empty \in Slots
BY DEF Empty, Slots

LEMMA FreshSaveInv ==
  ASSUME FilesTyped, SavKnown, Fresh, UNCHANGED disk
  PROVE  SaveInv'
BY FilesDistinct, EmptyTyped, CalcsAssumption DEF Fresh

LEMMA InitSaveInv == Init => SaveInv
BY FilesDistinct, EmptyTyped, CalcsAssumption DEF Init

(* Once the calculator has been asked for, something else may be. *)
LEMMA AskKeepsSaveInv ==
  ASSUME SaveInv, NEW item \in Runnables, Queue(item), PcOfThreads', FilesTyped',
         UNCHANGED <<native, files, romPath, currentRom>>, pc'["calc"] = pc["calc"],
         \A t \in {"ui", "task"} : want'[t] \in {want[t], NoFile},
         pc["task"] # "idle" \/ ~(pc["ui"] = "initialize" \/ (pc["ui"] = "idle" /\ act = "none"))
  PROVE  SaveInv'
<1>1. QueueThere' /\ CurThere'
  BY QueueKeeps
<1>2. SavKnown'
  BY FilesDistinct
<1> QED BY <1>1, <1>2

LEMMA LoadRomFileKeepsSaveInv ==
  ASSUME SaveInv, NEW t \in {"ui", "task"}, LoadRomFile(t)
  PROVE  SaveInv'
<1>1. CASE CheckLoaded(t)
  BY <1>1 DEF CheckLoaded
<1>2. CASE AnswerAlready(t)
  BY <1>2, FilesDistinct DEF AnswerAlready
<1>3. CASE AssignRom(t)
  BY <1>3, FilesDistinct DEF AssignRom
<1>4. CASE QueueLoad(t)
  BY <1>4, RunnablesThere, AskKeepsSaveInv DEF QueueLoad
<1> QED BY <1>1, <1>2, <1>3, <1>4 DEF LoadRomFile

LEMMA UiKeepsSaveInv == ASSUME SaveInv, UiStep PROVE SaveInv'
<1>1. CASE Initialize
  <2>1. Queue([op |-> "init"]) /\ [op |-> "init"] \in Runnables
    BY <1>1, RunnablesThere DEF Initialize
  <2>2. QueueThere' /\ CurThere'
    BY <1>1, <2>1, QueueKeeps DEF Initialize
  <2> QED BY <1>1, <2>2, FilesDistinct DEF Initialize
<1>2. CASE SetPaused
  BY <1>2 DEF SetPaused
<1>3. CASE SaveCurrentRom
  <2>1. FilesTyped' /\ PcOfThreads' /\ UNCHANGED <<native, files, romPath, currentRom>>
        /\ pc'["calc"] = pc["calc"]
        /\ \A t \in {"ui", "task"} : want'[t] \in {want[t], NoFile}
    BY <1>3 DEF SaveCurrentRom
  <2>2. CASE queue' = queue
    BY <1>3, <2>1, <2>2, FilesDistinct DEF SaveCurrentRom
  <2>3. CASE Queue([op |-> "save"])
    BY <1>3, <2>1, <2>3, RunnablesThere, AskKeepsSaveInv DEF SaveCurrentRom
  <2> QED BY <1>3, <2>2, <2>3 DEF SaveCurrentRom
<1>4. CASE Unpause("ui")
  BY <1>4, UnpauseMoves DEF Callers, After
<1>5. CASE BeginAdd \/ Grow \/ Store
  BY <1>5, AddMoves
<1> QED BY <1>1, <1>2, <1>3, <1>4, <1>5, LoadRomFileKeepsSaveInv DEF UiStep

LEMMA UserKeepsSaveInv == ASSUME SaveInv, User PROVE SaveInv'
<1>1. CASE OnCreate
  BY <1>1 DEF OnCreate
<1>2. CASE OnResume
  BY <1>2 DEF OnResume
<1>3. CASE OnPause
  BY <1>3 DEF OnPause
<1>4. CASE OnDestroy
  BY <1>4 DEF OnDestroy
<1>5. CASE ResetCalc
  BY <1>5, RunnablesThere, AskKeepsSaveInv DEF ResetCalc
<1>6. CASE \E f \in Roms \cup {VarFile} : HandleFile(f)
  BY <1>6, FilesDistinct DEF HandleFile
<1>7. CASE \E f \in Good : CreateRom(f)
  BY <1>7, RunnablesThere, AskKeepsSaveInv DEF CreateRom
<1> QED BY <1>1, <1>2, <1>3, <1>4, <1>5, <1>6, <1>7 DEF User

LEMMA TaskKeepsSaveInv == ASSUME SaveInv, TaskStep PROVE SaveInv'
<1>1. CASE StartRom
  BY <1>1, FilesDistinct DEF StartRom
<1>2. CASE SendVar
  BY <1>2, RunnablesThere, AskKeepsSaveInv DEF SendVar
<1> QED BY <1>1, <1>2, LoadRomFileKeepsSaveInv DEF TaskStep

LEMMA SlotsKept ==
  ASSUME NEW s \in Slots
  PROVE  /\ Freed(s) \in Slots /\ Spoiled(s) \in Slots
         /\ \A content \in Good \cup {Blank} : Loaded(s, content) \in Slots
BY DEF Freed, Spoiled, Loaded, Slots

LEMMA CalcThere ==
  ASSUME SaveInv,
         \/ pc["calc"] = "locked" /\ queue # <<>> /\ Head(queue).op # "init"
         \/ pc["calc"] \in Busy
  PROVE  cur \in 1 .. MaxCalcs /\ queue # <<>>
<1>1. queue # <<>> => Head(queue) = queue[1]
  OBVIOUS
<1> QED BY <1>1

LEMMA FreeTyped ==
  ASSUME NEW table, FreeSlots(table) # {}
  PROVE  FirstFree(table) \in 1 .. MaxCalcs
<1>1. FreeSlots(table) \subseteq Nat
  BY DEF FreeSlots
<1>2. PICK i \in FreeSlots(table) : \A j \in FreeSlots(table) : <<j, i>> \notin OpToRel(<, Nat)
  BY <1>1, WFMin, NatLessThanWellFounded
<1>3. ASSUME NEW j \in FreeSlots(table) PROVE i <= j
  <2>1. i \in Nat /\ j \in Nat /\ <<j, i>> \in Nat \X Nat /\ <<j, i>> \notin OpToRel(<, Nat)
    BY <1>1, <1>2
  <2>2. ~(j < i)
    BY <2>1, Zenon DEF OpToRel
  <2>3. i \in Nat /\ j \in Nat
    BY <1>1
  <2> QED BY <2>2, <2>3
<1> QED BY <1>2, <1>3 DEF FirstFree, FreeSlots

(* A runnable that was run, with the disk and the paths as they were. *)
LEMMA RunKeepsSaveInv ==
  ASSUME SaveInv, queue # <<>>, Done, PcOfThreads', SlotsTyped', cur' # 0,
         FilesTyped', SavKnown', pc'["calc"] = "locked"
  PROVE  SaveInv'
BY DoneShifts

LEMMA CalcKeepsSaveInv == ASSUME SaveInv, CalcStep PROVE SaveInv'
<1>1. CASE TakeLock
  BY <1>1 DEF TakeLock
<1>2. CASE Drained \/ TestPaused \/ RunFrame
  BY <1>2 DEF Drained, TestPaused, RunFrame
<1>3. CASE RunReset
  BY <1>3, FreshSaveInv, RunKeepsSaveInv, CalcThere DEF RunReset, Crash, Runs
<1>4. CASE RunLoad
  <2>1. cur \in 1 .. MaxCalcs /\ queue # <<>>
    BY <1>4, CalcThere DEF RunLoad, Runs
  <2>2. slots' \in [1 .. MaxCalcs -> Slots]
    <3>1. \/ slots' = slots \/ slots' = [slots EXCEPT ![cur] = Spoiled(@)]
          \/ \E content \in Good \cup {Blank} : slots' = [slots EXCEPT ![cur] = Loaded(@, content)]
      BY <1>4 DEF RunLoad, Loads
    <3> QED BY <2>1, <3>1, SlotsKept
  <2> QED BY <1>4, <2>1, <2>2 DEF RunLoad, Runs
<1>5. CASE RunSend
  <2>1. cur \in 1 .. MaxCalcs /\ queue # <<>>
    BY <1>5, CalcThere DEF RunSend, Runs
  <2>2. ASSUME ~Crash PROVE SlotsTyped'
    BY <1>5, <2>1, <2>2 DEF RunSend, Slots
  <2> QED BY <1>5, <2>1, <2>2, FreshSaveInv, RunKeepsSaveInv DEF RunSend, Runs, Crash
<1>6. CASE Unpause("calc")
  BY <1>6, UnpauseMoves DEF Callers, After
<1>7. CASE HandleRomLoaded("loaded", TRUE) \/ HandleRomLoaded("failed", FALSE)
  BY <1>7, RunKeepsSaveInv, CalcThere DEF HandleRomLoaded
<1>8. CASE RunSave
  BY <1>8, CalcThere DEF RunSave, Runs
<1>9. CASE OpenSave
  BY <1>9, FreshSaveInv, RunKeepsSaveInv, CalcThere, FilesDistinct DEF OpenSave, Crash
<1>10. CASE FinishSave
  <2>1. cur \in 1 .. MaxCalcs /\ queue # <<>>
    BY <1>10, CalcThere DEF FinishSave
  <2>2. slots[cur].rom \in Roms \cup {Blank} /\ slots[cur].rom # NoFile
    BY <2>1, FilesDistinct DEF Slots
  <2> QED BY <1>10, <2>1, <2>2, RunKeepsSaveInv, FilesDistinct DEF FinishSave
<1>11. CASE UpdateCurrentRomSetting
  BY <1>11, RunKeepsSaveInv, CalcThere, FilesDistinct DEF UpdateCurrentRomSetting
<1>12. CASE RunInitialize
  <2>1. ASSUME ~Crash PROVE SlotsTyped' /\ cur' # 0
    <3>1. [Empty EXCEPT !.active = TRUE, !.event = TRUE] \in Slots
      BY DEF Empty, Slots
    <3> QED BY <1>12, <2>1, <3>1, FreeTyped DEF RunInitialize
  <2> QED BY <1>12, <2>1, FreshSaveInv, RunKeepsSaveInv DEF RunInitialize, Crash, Runs
<1>13. CASE RunCreate
  <2>1. cur \in 1 .. MaxCalcs /\ queue # <<>> /\ Head(queue) \in Runnables /\ Head(queue).op = "create"
    BY <1>13, CalcThere DEF RunCreate, Runs
  <2>2. Head(queue).rom \in Good
    BY <2>1 DEF Runnables
  <2> DEFINE freed == IF cur = 0 THEN slots ELSE [slots EXCEPT ![cur] = Freed(@)]
             i == FirstFree(freed)
  <2>3. freed \in [1 .. MaxCalcs -> Slots]
    BY <2>1, SlotsKept
  <2>4. ASSUME ~Crash
        PROVE  /\ i \in 1 .. MaxCalcs /\ cur' = i
               /\ \E s \in Slots : slots' = [freed EXCEPT ![i] = s]
    <3>1. i \in 1 .. MaxCalcs
      BY <1>13, <2>4, FreeTyped DEF RunCreate
    <3> QED BY <1>13, <2>2, <2>4, <3>1 DEF RunCreate, Slots
  <2> HIDE DEF freed, i
  <2>5. ASSUME ~Crash PROVE SlotsTyped' /\ cur' # 0
    BY <2>3, <2>4, <2>5
  <2> QED BY <1>13, <2>1, <2>5, FreshSaveInv, RunKeepsSaveInv DEF RunCreate, Crash, Runs
<1> QED BY <1>1, <1>2, <1>3, <1>4, <1>5, <1>6, <1>7, <1>8, <1>9, <1>10, <1>11, <1>12, <1>13
        DEF CalcStep

LEMMA NextKeepsSaveInv == SaveInv /\ [Next]_vars => SaveInv'
<1> SUFFICES ASSUME SaveInv, [Next]_vars PROVE SaveInv'
  OBVIOUS
<1>1. CASE Kill
  BY <1>1, FreshSaveInv DEF Kill
<1>2. CASE UNCHANGED vars
  BY <1>2 DEF vars
<1> QED BY <1>1, <1>2, UiKeepsSaveInv, UserKeepsSaveInv, TaskKeepsSaveInv, CalcKeepsSaveInv DEF Next

(* Whenever the process dies, and whichever thread moves mCurrentRomFile while
   SaveCurrentRomRunnable (CalculatorManager.java:21) is at work, the path of the save
   file is only remembered for the next start once that file has been opened for writing. *)
THEOREM RememberedIsWritten == Spec => []RememberedWritten
<1>1. SaveInv => RememberedWritten
  BY DEF RememberedWritten
<1> QED BY <1>1, InitSaveInv, NextKeepsSaveInv, PTL DEF Spec

----
(* The order of loads, as long as the activity is created once in a process. *)

HIDE DEF SaveInv, FilesTyped, SlotsTyped, CurThere, SavKnown, Paths

Places == 1 .. Len(queue)
Load(i) == queue[i].op = "load"
UiLoad(i) == Load(i) /\ queue[i].by = "ui"
TaskItem(i) == queue[i].op = "send" \/ (Load(i) /\ queue[i].by = "task")
Handled == Unpausing \cup {"loaded", "failed"}

(* The UI thread asks for its ROM before anything else can happen. *)
Starting == act = "none" \/ pc["ui"] \in {"initialize", "check", "assign", "queue"}
StartsFirst ==
  /\ Starting => /\ act \in {"none", "created"} /\ pc["task"] = "idle" /\ ~hasLoaded
                 /\ pc["calc"] \notin Busy
                 /\ Len(queue) <= 1 /\ (queue # <<>> => queue[1].op = "init")
  /\ pc["ui"] # "already"

(* Its load is answered before any other, and nothing is loaded before that. *)
UiLoadFirst ==
  \A i \in Places :
    /\ UiLoad(i) => ~hasLoaded /\ (i = 1 \/ (i = 2 /\ queue[1].op = "init"))
    /\ queue[i].op = "init" => ~hasLoaded

(* The task waits for the one thing it has asked for. *)
TaskWaits ==
  /\ \A i \in Places : TaskItem(i) => pc["task"] = "await"
  /\ \A i, j \in Places : TaskItem(i) /\ TaskItem(j) => i = j
  /\ pc["task"] = "already" => hasLoaded

(* The calc thread is at the load, or the save, it found first; a load has a path. *)
LoadInHand ==
  /\ pc["calc"] \in Handled => Load(1)
  /\ pc["calc"] \in {"save", "write", "remember"} => queue[1].op = "save"
  /\ pc["ui"] = "queue" \/ pc["task"] = "queue" \/ (\E i \in Places : Load(i))
       => currentRom # NoFile

(* While a save is at work, the path is moved only by a task that goes on to ask for a load. *)
SaveMoved ==
  pc["calc"] \in {"save", "write", "remember"} => currentRom = Sav \/ pc["task"] = "queue"

OrderInv == StartsFirst /\ UiLoadFirst /\ TaskWaits /\ LoadInHand /\ SaveMoved

USE DEF Places, Load, UiLoad, TaskItem, Handled, Starting, OrderInv,
        StartsFirst, UiLoadFirst, TaskWaits, LoadInHand, SaveMoved

LEMMA FreshOrderInv == Fresh => OrderInv'
BY DEF Fresh

LEMMA InitOrderInv == Init => OrderInv
BY DEF Init

(* What the order of loads takes from the invariants above. *)
Base == /\ PcOfThreads /\ QueueThere
        /\ act = "none" \/ pc["ui"] = "initialize" => queue = <<>>
        /\ act = "none" => pc["ui"] = "idle"
        /\ pc["ui"] = "initialize" => act = "created"
        /\ \A i \in Places : queue[i].op = "init" => i = 1 /\ pc["calc"] \notin Busy
        /\ \A t \in {"ui", "task"} : pc[t] \in {"check", "already", "assign"} => want[t] # NoFile
        /\ romPath # NoFile => romPath \in Paths

LEMMA BaseHolds == CalcInv /\ SaveInv => Base
BY FilesDistinct DEF CalcInv, InitOnce, Untouched, SaveInv, FilesTyped, Base, Paths

USE DEF Base

(* Something other than a load or a file is asked for, once the activity is there. *)
LEMMA AskKeepsOrderInv ==
  ASSUME Base, OrderInv, NEW item \in {[op |-> "reset"], [op |-> "save"]} \cup [op : {"create"}, rom : Good],
         Queue(item), ~Starting, ~Starting', PcOfThreads',
         UNCHANGED <<hasLoaded, currentRom>>, pc'["calc"] = pc["calc"],
         pc'["ui"] # "already", pc'["ui"] # "queue", pc'["task"] = pc["task"] \/ pc["task"] = "pending",
         pc'["task"] \notin {"queue", "already"} \/ pc'["task"] = pc["task"]
  PROVE  OrderInv'
<1>1. item \in Runnables /\ item.op \notin {"load", "send", "init"}
  BY DEF Runnables
<1>2. /\ Len(queue') = Len(queue) + 1 /\ queue'[Len(queue')] = item
      /\ \A i \in 1 .. Len(queue) : queue'[i] = queue[i]
      /\ pc["calc"] \notin Busy
  BY <1>1, QueueKeeps
<1> QED BY <1>1, <1>2

LEMMA LoadRomFileKeepsOrderInv ==
  ASSUME Base, OrderInv, NEW t \in {"ui", "task"}, LoadRomFile(t)
  PROVE  OrderInv'
<1>1. CASE CheckLoaded(t)
  BY <1>1 DEF CheckLoaded
<1>2. CASE AnswerAlready(t)
  BY <1>2 DEF AnswerAlready
<1>3. CASE AssignRom(t)
  BY <1>3 DEF AssignRom
<1>4. CASE QueueLoad(t)
  <2> DEFINE item == [op |-> "load", by |-> t]
  <2>1. /\ Len(queue') = Len(queue) + 1 /\ queue'[Len(queue')] = item
        /\ \A i \in 1 .. Len(queue) : queue'[i] = queue[i]
        /\ pc["calc"] \notin Busy
    BY <1>4, RunnablesThere, QueueKeeps DEF QueueLoad
  <2>2. Len(queue) \in Nat /\ (queue # <<>> => Len(queue) >= 1) /\ (queue = <<>> => Len(queue) = 0)
    OBVIOUS
  <2>3. CASE t = "ui"
    <3>1. /\ act = "created" /\ act' = act /\ ~hasLoaded /\ pc["task"] = "idle"
          /\ pc' = [pc EXCEPT !["ui"] = "idle"]
          /\ UNCHANGED <<hasLoaded, currentRom>>
      BY <1>4, <2>3 DEF QueueLoad
    <3>2. Len(queue) <= 1 /\ (queue # <<>> => queue[1].op = "init")
      BY <1>4, <2>3 DEF QueueLoad
    <3>3. StartsFirst'
      BY <3>1
    <3>4. UiLoadFirst'
      BY <2>1, <2>2, <3>1, <3>2
    <3>5. TaskWaits'
      BY <2>1, <2>2, <2>3, <3>1, <3>2
    <3>6. LoadInHand' /\ SaveMoved'
      BY <1>4, <2>1, <2>2, <2>3, <3>1 DEF QueueLoad
    <3> QED BY <3>3, <3>4, <3>5, <3>6
  <2>4. CASE t = "task"
    BY <1>4, <2>1, <2>2, <2>4 DEF QueueLoad
  <2> QED BY <2>3, <2>4
<1> QED BY <1>1, <1>2, <1>3, <1>4 DEF LoadRomFile

LEMMA UiKeepsOrderInv == ASSUME Base, OrderInv, UiStep PROVE OrderInv'
<1>1. CASE Initialize
  <2>1. /\ queue = <<>> /\ Len(queue') = 1 /\ queue'[1].op = "init" /\ pc["calc"] \notin Busy
    BY <1>1, RunnablesThere, QueueKeeps DEF Initialize
  <2> QED BY <1>1, <2>1 DEF Initialize
<1>2. CASE SetPaused
  BY <1>2 DEF SetPaused
<1>3. CASE SaveCurrentRom
  <2>1. CASE queue' = queue
    BY <1>3, <2>1 DEF SaveCurrentRom
  <2>2. CASE Queue([op |-> "save"])
    BY <1>3, <2>2, AskKeepsOrderInv DEF SaveCurrentRom
  <2> QED BY <1>3, <2>1, <2>2 DEF SaveCurrentRom
<1>4. CASE Unpause("ui")
  BY <1>4, UnpauseMoves DEF Callers, After
<1>5. CASE BeginAdd \/ Grow \/ Store
  BY <1>5, AddMoves
<1> QED BY <1>1, <1>2, <1>3, <1>4, <1>5, LoadRomFileKeepsOrderInv DEF UiStep

LEMMA UserKeepsOrderInv == ASSUME Base, OrderInv, MaxRecreations = 0, recreations = 0, User PROVE OrderInv'
<1>1. CASE OnCreate
  BY <1>1 DEF OnCreate
<1>2. CASE OnResume
  BY <1>2 DEF OnResume
<1>3. CASE OnPause
  BY <1>3 DEF OnPause
<1>4. CASE OnDestroy
  BY <1>4 DEF OnDestroy
<1>5. CASE ResetCalc
  BY <1>5, AskKeepsOrderInv DEF ResetCalc
<1>6. CASE \E f \in Roms \cup {VarFile} : HandleFile(f)
  BY <1>6 DEF HandleFile
<1>7. CASE \E f \in Good : CreateRom(f)
  BY <1>7, AskKeepsOrderInv DEF CreateRom
<1> QED BY <1>1, <1>2, <1>3, <1>4, <1>5, <1>6, <1>7 DEF User

LEMMA TaskKeepsOrderInv == ASSUME Base, OrderInv, TaskStep PROVE OrderInv'
<1>1. CASE StartRom
  BY <1>1 DEF StartRom
<1>2. CASE SendVar
  <2>1. /\ Len(queue') = Len(queue) + 1 /\ queue'[Len(queue')] = [op |-> "send"]
        /\ \A i \in 1 .. Len(queue) : queue'[i] = queue[i]
        /\ pc["calc"] \notin Busy
    BY <1>2, RunnablesThere, QueueKeeps DEF SendVar
  <2>2. Len(queue) \in Nat /\ (queue # <<>> => Len(queue) >= 1) /\ (queue = <<>> => Len(queue) = 0)
    OBVIOUS
  <2> QED BY <1>2, <2>1, <2>2 DEF SendVar
<1> QED BY <1>1, <1>2, LoadRomFileKeepsOrderInv DEF TaskStep

(* A runnable that was run and is gone; a task that it answers is one that waited for it. *)
LEMMA RunKeepsOrderInv ==
  ASSUME Base, OrderInv, queue # <<>>, Done, act' = act, PcOfThreads',
         pc'["calc"] = "locked", pc'["ui"] = pc["ui"], currentRom' = currentRom,
         hasLoaded' = hasLoaded \/ Load(1),
         pc'["task"] = pc["task"] \/ (TaskItem(1) /\ pc'["task"] = "idle")
  PROVE  OrderInv'
<1>1. /\ Len(queue') = Len(queue) - 1 /\ Len(queue) \in Nat /\ Len(queue) >= 1
      /\ \A i \in 1 .. Len(queue') : queue'[i] = queue[i + 1] /\ i + 1 \in Places /\ i + 1 # 1
      /\ 1 \in Places /\ (queue' # <<>> => Len(queue') >= 1)
  BY DoneShifts
<1>2. StartsFirst'
  BY <1>1
<1>3. UiLoadFirst'
  BY <1>1
<1>4. TaskWaits'
  <2>1. Load(1) => UiLoad(1) \/ TaskItem(1)
    <3>1. queue[1] \in Runnables
      BY <1>1
    <3> QED BY <3>1 DEF Runnables
  <2>2. pc'["task"] = "already" => hasLoaded'
    BY <1>1, <2>1
  <2>3. \A i \in Places' : TaskItem(i)' => TaskItem(i + 1) /\ ~TaskItem(1)
    BY <1>1
  <2>4. \A i \in Places' : TaskItem(i)' => pc'["task"] = "await"
    BY <1>1, <2>3
  <2>5. ASSUME NEW i \in Places', NEW j \in Places', TaskItem(i)', TaskItem(j)'
        PROVE  i = j
    BY <1>1, <2>3, <2>5
  <2> QED BY <2>2, <2>4, <2>5
<1>5. LoadInHand' /\ SaveMoved'
  BY <1>1
<1> QED BY <1>2, <1>3, <1>4, <1>5

LEMMA CalcKeepsOrderInv == ASSUME Base, OrderInv, CalcStep PROVE OrderInv'
<1>1. CASE TakeLock \/ Drained \/ TestPaused \/ RunFrame
  BY <1>1 DEF TakeLock, Drained, TestPaused, RunFrame
<1>2. CASE RunInitialize
  BY <1>2, FreshOrderInv, RunKeepsOrderInv DEF RunInitialize, Crash, Runs
<1>3. CASE RunReset
  BY <1>3, FreshOrderInv, RunKeepsOrderInv DEF RunReset, Crash, Runs
<1>4. CASE RunLoad
  BY <1>4 DEF RunLoad, Runs
<1>5. CASE RunSend
  BY <1>5, FreshOrderInv, RunKeepsOrderInv DEF RunSend, Crash, Runs
<1>6. CASE RunCreate
  BY <1>6, FreshOrderInv, RunKeepsOrderInv DEF RunCreate, Crash, Runs
<1>7. CASE Unpause("calc")
  BY <1>7, UnpauseMoves DEF Callers, After
<1>8. CASE HandleRomLoaded("loaded", TRUE) \/ HandleRomLoaded("failed", FALSE)
  BY <1>8, RunKeepsOrderInv DEF HandleRomLoaded
<1>9. CASE RunSave
  BY <1>9, FilesDistinct DEF RunSave, Runs
<1>10. CASE OpenSave
  BY <1>10, FreshOrderInv, RunKeepsOrderInv DEF OpenSave, Crash
<1>11. CASE FinishSave \/ UpdateCurrentRomSetting
  BY <1>11, RunKeepsOrderInv DEF FinishSave, UpdateCurrentRomSetting
<1> QED BY <1>1, <1>2, <1>3, <1>4, <1>5, <1>6, <1>7, <1>8, <1>9, <1>10, <1>11 DEF CalcStep

----
(* What is believed loaded.                                                *)

(* hasLoaded, or what it is about to say of the load that has just been made. *)
Believed == pc["calc"] \in Unpausing \cup {"loaded"} \/ (hasLoaded /\ pc["calc"] # "failed")

(* A load that will put things right is asked for, and not made yet. *)
LoadComing ==
  \/ pc["ui"] = "queue" \/ pc["task"] = "queue"
  \/ \E i \in Places : Load(i) /\ (i = 1 => pc["calc"] \notin Handled)

RunsBelieved ==
  /\ Believed => cur # 0
  /\ cur # 0 /\ ~created => slots[cur].event /\ (Believed => slots[cur].running)

RomBelieved ==
  ~spoilt =>
    /\ \A f \in Paths : files[f] # Blank
    /\ \A i \in 1 .. MaxCalcs : slots[i].built => slots[i].rom \in Good
    /\ pc["calc"] = "write" => slots[cur].built
    /\ Believed => /\ slots[cur].built
                   /\ created \/ currentRom = Sav \/ LoadComing \/ slots[cur].rom = files[currentRom]

LoadInv == RunsBelieved /\ RomBelieved

USE DEF Believed, LoadComing, RunsBelieved, RomBelieved, LoadInv, Paths
HIDE DEF QueueThere, Base, StartsFirst, UiLoadFirst, TaskWaits, LoadInHand, SaveMoved, OrderInv

(* All that has been shown so far. *)
SessionInv == CalcInv /\ SaveInv /\ OrderInv

LEMMA OrderFacts ==
  ASSUME SessionInv
  PROVE  /\ PcOfThreads /\ QueueThere /\ SlotsTyped
         /\ pc["ui"] # "already" /\ (pc["task"] = "already" => hasLoaded)
         /\ pc["ui"] \in {"initialize", "check", "assign", "queue"} => pc["calc"] \notin Busy
         /\ \A i \in Places : queue[i].op = "init" => ~hasLoaded
         /\ (\E i \in Places : Load(i)) => currentRom \in Paths
         /\ pc["calc"] \in {"save", "write", "remember"} => currentRom = Sav \/ pc["task"] = "queue"
BY DEF SessionInv, CalcInv, SaveInv, FilesTyped, OrderInv, StartsFirst, UiLoadFirst, TaskWaits,
       LoadInHand, SaveMoved, QueueThere

LEMMA FreshLoadInv ==
  ASSUME LoadInv, Fresh, UNCHANGED <<disk, spoilt>> PROVE LoadInv'
BY DEF Fresh, Empty

LEMMA InitLoadInv == Init => LoadInv
BY FilesDistinct DEF Init, Empty

(* A step that leaves the calculator and the disk alone, and moves the path only when a
   load is to follow. *)
LEMMA ElsewhereKeepsLoadInv ==
  ASSUME LoadInv, UNCHANGED <<native, files, spoilt, created>>,
         pc'["calc"] = pc["calc"], hasLoaded' => hasLoaded,
         LoadComing => LoadComing', currentRom' = currentRom \/ LoadComing'
  PROVE  LoadInv'
OBVIOUS

LEMMA AskedLoadComing ==
  ASSUME QueueThere, NEW item \in Runnables, Queue(item), pc'["calc"] = pc["calc"],
         pc["ui"] = "queue" => pc'["ui"] = "queue" \/ item.op = "load",
         pc["task"] = "queue" => pc'["task"] = "queue" \/ item.op = "load"
  PROVE  LoadComing => LoadComing'
<1>1. /\ Len(queue') = Len(queue) + 1 /\ queue'[Len(queue')] = item
      /\ \A i \in 1 .. Len(queue) : queue'[i] = queue[i]
      /\ pc["calc"] \notin Busy
  BY QueueKeeps
<1>2. Len(queue) \in Nat
  BY DEF QueueThere
<1>3. item.op = "load" => LoadComing'
  <2>1. Len(queue') \in Places' /\ pc'["calc"] \notin Handled
    BY <1>1, <1>2
  <2> QED BY <1>1, <2>1
<1> QED BY <1>1, <1>2, <1>3

LEMMA LoadRomFileKeepsLoadInv ==
  ASSUME SessionInv, LoadInv, NEW t \in {"ui", "task"}, LoadRomFile(t)
  PROVE  LoadInv'
<1>1. CASE CheckLoaded(t)
  BY <1>1, OrderFacts, ElsewhereKeepsLoadInv DEF CheckLoaded
<1>2. CASE AnswerAlready(t)
  BY <1>2, OrderFacts, ElsewhereKeepsLoadInv DEF AnswerAlready
<1>3. CASE AssignRom(t)
  BY <1>3, OrderFacts, ElsewhereKeepsLoadInv DEF AssignRom
<1>4. CASE QueueLoad(t)
  BY <1>4, OrderFacts, RunnablesThere, AskedLoadComing, ElsewhereKeepsLoadInv DEF QueueLoad
<1> QED BY <1>1, <1>2, <1>3, <1>4 DEF LoadRomFile

LEMMA UiKeepsLoadInv == ASSUME SessionInv, LoadInv, UiStep PROVE LoadInv'
<1>1. CASE Initialize
  BY <1>1, OrderFacts, RunnablesThere, AskedLoadComing, ElsewhereKeepsLoadInv DEF Initialize
<1>2. CASE SetPaused
  BY <1>2, OrderFacts, ElsewhereKeepsLoadInv DEF SetPaused
<1>3. CASE SaveCurrentRom
  BY <1>3, OrderFacts, RunnablesThere, AskedLoadComing, ElsewhereKeepsLoadInv DEF SaveCurrentRom
<1>4. CASE Unpause("ui")
  BY <1>4, OrderFacts, ElsewhereKeepsLoadInv, UnpauseMoves DEF Callers, After
<1>5. CASE BeginAdd \/ Grow \/ Store
  BY <1>5, OrderFacts, ElsewhereKeepsLoadInv, AddMoves
<1> QED BY <1>1, <1>2, <1>3, <1>4, <1>5, LoadRomFileKeepsLoadInv DEF UiStep

LEMMA UserKeepsLoadInv == ASSUME SessionInv, LoadInv, User PROVE LoadInv'
<1>1. CASE OnCreate \/ OnResume \/ OnPause \/ OnDestroy
  BY <1>1, OrderFacts, ElsewhereKeepsLoadInv DEF OnCreate, OnResume, OnPause, OnDestroy
<1>2. CASE ResetCalc
  BY <1>2, OrderFacts, RunnablesThere, AskedLoadComing, ElsewhereKeepsLoadInv DEF ResetCalc
<1>3. CASE \E f \in Roms \cup {VarFile} : HandleFile(f)
  BY <1>3, OrderFacts, ElsewhereKeepsLoadInv DEF HandleFile
<1>4. CASE \E f \in Good : CreateRom(f)
  BY <1>4, OrderFacts, RunnablesThere, AskedLoadComing, ElsewhereKeepsLoadInv DEF CreateRom
<1> QED BY <1>1, <1>2, <1>3, <1>4 DEF User

LEMMA TaskKeepsLoadInv == ASSUME SessionInv, LoadInv, TaskStep PROVE LoadInv'
<1>1. CASE StartRom
  BY <1>1, OrderFacts, ElsewhereKeepsLoadInv DEF StartRom
<1>2. CASE SendVar
  BY <1>2, OrderFacts, RunnablesThere, AskedLoadComing, ElsewhereKeepsLoadInv DEF SendVar
<1> QED BY <1>1, <1>2, LoadRomFileKeepsLoadInv DEF TaskStep

(* The load at the head goes when it has been answered, any other head is no load: the
   one to come stays. *)
LEMMA DoneLoadComing ==
  ASSUME QueueThere, PcOfThreads, queue # <<>>, Done, pc'["calc"] = "locked",
         pc["calc"] \in Handled \/ ~Load(1),
         pc'["ui"] = pc["ui"], pc["task"] = "queue" => pc'["task"] = "queue"
  PROVE  LoadComing => LoadComing'
<1>1. /\ Len(queue') = Len(queue) - 1 /\ Len(queue) \in Nat
      /\ \A i \in 1 .. Len(queue') : queue'[i] = queue[i + 1]
  BY DoneShifts DEF QueueThere
<1>2. ASSUME NEW i \in Places, Load(i), i = 1 => pc["calc"] \notin Handled
      PROVE  LoadComing'
  <2>1. i # 1
    BY <1>2
  <2>2. i - 1 \in Places' /\ queue'[i - 1] = queue[i]
    BY <1>1, <1>2, <2>1
  <2> QED BY <1>2, <2>2
<1> QED BY <1>2

(* A runnable that was run and leaves calculator, disk and path alone. *)
LEMMA RunKeepsLoadInv ==
  ASSUME SessionInv, LoadInv, queue # <<>>, Done, pc'["calc"] = "locked",
         pc["calc"] \in Handled \/ ~Load(1),
         UNCHANGED <<native, files, spoilt, created, currentRom>>,
         Believed' => Believed,
         pc'["ui"] = pc["ui"], pc["task"] = "queue" => pc'["task"] = "queue"
  PROVE  LoadInv'
<1>1. LoadComing => LoadComing'
  BY DoneLoadComing, OrderFacts
<1> QED BY <1>1

LEMMA HeadIsFirst ==
  ASSUME SessionInv
  PROVE  /\ queue # <<>> => Head(queue) = queue[1] /\ 1 \in Places
         /\ pc["calc"] \in Handled => Load(1)
         /\ pc["calc"] \in {"save", "write", "remember"} => ~Load(1)
BY DEF SessionInv, CalcInv, QueueThere, OrderInv, LoadInHand

LEMMA ThereInSession ==
  ASSUME SessionInv,
         \/ pc["calc"] = "locked" /\ queue # <<>> /\ Head(queue).op # "init"
         \/ pc["calc"] \in Busy
  PROVE  cur \in 1 .. MaxCalcs /\ queue # <<>>
BY CalcThere DEF SessionInv

LEMMA CalcKeepsLoadInv == ASSUME SessionInv, LoadInv, CalcStep PROVE LoadInv'
<1> USE OrderFacts, HeadIsFirst, ThereInSession
<1>1. CASE TakeLock \/ Drained \/ TestPaused \/ RunFrame
  BY <1>1 DEF TakeLock, Drained, TestPaused, RunFrame
<1>2. CASE RunReset
  BY <1>2, FreshLoadInv, RunKeepsLoadInv DEF RunReset, Crash, Runs
<1>3. CASE RunLoad
  <2>1. /\ cur \in 1 .. MaxCalcs /\ queue # <<>> /\ currentRom \in Paths
        /\ UNCHANGED <<queue, currentRom, hasLoaded, cur, files, created>>
        /\ pc["calc"] = "locked" /\ SlotsTyped
    BY <1>3 DEF RunLoad, Runs
  <2>2. CASE Loads(currentRom)
    <3>1. /\ slots' = [slots EXCEPT ![cur] = Loaded(@, files[currentRom])]
          /\ pc' = [pc EXCEPT !["calc"] = "unpause"] /\ (spoilt => spoilt')
      BY <1>3, <2>2 DEF RunLoad
    <3>2. /\ slots'[cur].built /\ slots'[cur].rom = files[currentRom]
          /\ slots'[cur].event = slots[cur].event
          /\ slots[cur].event => slots'[cur].running
          /\ \A i \in 1 .. MaxCalcs : i # cur => slots'[i] = slots[i]
      BY <2>1, <3>1 DEF Loaded, Freed, SlotsTyped, Slots
    <3> QED BY <2>1, <2>2, <3>1, <3>2 DEF Loads
  <2>3. CASE ~Loads(currentRom)
    <3>1. /\ pc' = [pc EXCEPT !["calc"] = "failed"]
          /\ spoilt => spoilt'
          /\ \/ slots' = slots
             \/ slots' = [slots EXCEPT ![cur] = Spoiled(@)] /\ spoilt'
      BY <1>3, <2>3 DEF RunLoad, SpoilOutcomes
    <3>2. slots'[cur].event = slots[cur].event
      <4>1. slots \in [1 .. MaxCalcs -> Slots]
        BY <2>1 DEF SlotsTyped
      <4>2. slots[cur] \in Slots
        BY <2>1, <4>1
      <4>3. Spoiled(slots[cur]).event = slots[cur].event
        BY <4>2 DEF Spoiled, Freed, Slots
      <4> QED BY <2>1, <3>1, <4>1, <4>3
    <3> QED BY <2>1, <3>1, <3>2
  <2> QED BY <2>2, <2>3
<1>4. CASE RunSend
  <2>1. CASE Crash
    BY <2>1, FreshLoadInv DEF Crash
  <2>2. CASE ~Crash
    <3>1. /\ cur \in 1 .. MaxCalcs /\ queue # <<>> /\ Done /\ ~Load(1)
          /\ UNCHANGED <<currentRom, hasLoaded, cur, files, spoilt, created>>
          /\ pc["calc"] = "locked" /\ pc' = [pc EXCEPT !["task"] = "idle"]
          /\ \E isFlash \in BOOLEAN : slots' = [slots EXCEPT ![cur].running = @ \/ isFlash]
      BY <1>4, <2>2 DEF RunSend, Runs
    <3>2. pc["task"] # "queue"
      BY <1>4, <2>2 DEF RunSend, Runs, SessionInv, OrderInv, TaskWaits
    <3>3. LoadComing => LoadComing'
      BY <3>1, <3>2, DoneLoadComing
    <3>4. /\ \A i \in 1 .. MaxCalcs : slots'[i].built = slots[i].built /\ slots'[i].rom = slots[i].rom
          /\ slots'[cur].event = slots[cur].event
          /\ slots[cur].running => slots'[cur].running
      BY <3>1 DEF SlotsTyped, Slots
    <3> QED BY <3>1, <3>3, <3>4
  <2> QED BY <2>1, <2>2
<1>5. CASE Unpause("calc")
  BY <1>5, UnpauseMoves DEF Callers, After
<1>6. CASE HandleRomLoaded("loaded", TRUE) \/ HandleRomLoaded("failed", FALSE)
  <2>1. pc["task"] = "queue" => pc'["task"] = "queue"
    <3>1. pc["task"] = "queue" => ~TaskItem(1)
      BY <1>6 DEF HandleRomLoaded, SessionInv, OrderInv, TaskWaits
    <3> QED BY <1>6, <3>1 DEF HandleRomLoaded
  <2> QED BY <1>6, <2>1, RunKeepsLoadInv DEF HandleRomLoaded
<1>7. CASE RunSave
  BY <1>7 DEF RunSave, Runs
<1>8. CASE OpenSave
  <2>1. CASE Crash
    BY <2>1, FreshLoadInv DEF Crash
  <2>2. CASE GoTo("calc", "locked") /\ Done /\ UNCHANGED <<want, files>> /\ ~Crash
    BY <1>8, <2>2, RunKeepsLoadInv DEF OpenSave
  <2>3. CASE slots[cur].active /\ files' = [files EXCEPT ![currentRom] = Torn]
             /\ GoTo("calc", "write") /\ UNCHANGED queue /\ ~Crash
    <3>1. slots[cur].built
      BY <1>8, <2>3 DEF OpenSave, Built
    <3>2. \A f \in Paths : files[f] # Blank => files'[f] # Blank
      BY <2>3, FilesDistinct DEF SessionInv, SaveInv, FilesTyped
    <3> QED BY <1>8, <2>3, <3>1, <3>2 DEF OpenSave
  <2> QED BY <1>8, <2>1, <2>2, <2>3 DEF OpenSave
<1>9. CASE FinishSave
  <2>1. CASE GoTo("calc", "locked") /\ Done /\ UNCHANGED files
    BY <1>9, <2>1, RunKeepsLoadInv DEF FinishSave
  <2>2. CASE files' = [files EXCEPT ![want["calc"]] = slots[cur].rom]
             /\ GoTo("calc", "remember") /\ UNCHANGED queue
    <3>1. ASSUME ~spoilt PROVE \A f \in Paths : files'[f] # Blank
      <4>1. slots[cur].rom \in Good
        BY <1>9, <3>1 DEF FinishSave
      <4>2. \A f \in Paths : files[f] # Blank
        BY <3>1
      <4> QED BY <2>2, <4>1, <4>2, FilesDistinct DEF SessionInv, SaveInv, FilesTyped
    <3> QED BY <1>9, <2>2, <3>1 DEF FinishSave
  <2> QED BY <1>9, <2>1, <2>2 DEF FinishSave
<1>10. CASE UpdateCurrentRomSetting
  BY <1>10, RunKeepsLoadInv DEF UpdateCurrentRomSetting
<1>11. CASE RunInitialize
  <2>1. CASE Crash
    BY <2>1, FreshLoadInv DEF Crash
  <2>2. CASE ~Crash
    <3>1. ~hasLoaded /\ pc["calc"] = "locked"
      BY <1>11 DEF RunInitialize, Runs
    <3>2. FirstFree(slots) \in 1 .. MaxCalcs
      BY <1>11, <2>2, FreeTyped DEF RunInitialize
    <3>3. /\ slots'[cur'].event
          /\ \A i \in 1 .. MaxCalcs : slots'[i] = slots[i] \/ ~slots'[i].built
      BY <1>11, <2>2, <3>2 DEF RunInitialize, Empty, SlotsTyped
    <3> QED BY <1>11, <2>2, <3>1, <3>3 DEF RunInitialize
  <2> QED BY <2>1, <2>2
<1>12. CASE RunCreate
  <2>1. CASE Crash
    BY <2>1, FreshLoadInv DEF Crash
  <2>2. CASE ~Crash
    <3> DEFINE freed == IF cur = 0 THEN slots ELSE [slots EXCEPT ![cur] = Freed(@)]
               i == FirstFree(freed)
    <3>1. /\ cur \in 1 .. MaxCalcs /\ queue # <<>> /\ pc["calc"] = "locked" /\ pc' = pc
          /\ Head(queue) \in Runnables /\ Head(queue).op = "create"
          /\ UNCHANGED <<files, hasLoaded, currentRom>> /\ created'
      BY <1>12, <2>2 DEF RunCreate, Runs, QueueThere
    <3>2. Head(queue).rom \in Good
      BY <3>1 DEF Runnables
    <3>3. i \in 1 .. MaxCalcs /\ cur' = i
      BY <1>12, <2>2, FreeTyped DEF RunCreate
    <3>4. PICK success \in BOOLEAN :
            /\ slots' = [freed EXCEPT ![i] =
                 [active |-> TRUE, built |-> TRUE, running |-> FALSE, event |-> success,
                  rom |-> IF success THEN Head(queue).rom ELSE Blank]]
            /\ spoilt' = (spoilt \/ ~success)
      BY <1>12, <2>2 DEF RunCreate
    <3>5. DOMAIN freed = 1 .. MaxCalcs /\ \A j \in 1 .. MaxCalcs : freed[j] = slots[j] \/ freed[j].rom = Blank
      BY <3>1 DEF Freed, SlotsTyped
    <3>6. \A j \in 1 .. MaxCalcs : freed[j].built => freed[j] = slots[j]
      BY <3>1 DEF Freed, SlotsTyped, Slots
    <3> HIDE DEF freed, i
    <3>7. RunsBelieved'
      BY <3>1, <3>3
    <3>8. ASSUME ~spoilt'
          PROVE  /\ ~spoilt /\ slots'[i].built /\ slots'[i].rom \in Good
                 /\ \A j \in 1 .. MaxCalcs : j # i => slots'[j] = freed[j]
      BY <3>2, <3>3, <3>4, <3>5, <3>8
    <3>9. RomBelieved'
      BY <3>1, <3>3, <3>6, <3>8
    <3> QED BY <3>7, <3>9
  <2> QED BY <2>1, <2>2
<1> QED BY <1>1, <1>2, <1>3, <1>4, <1>5, <1>6, <1>7, <1>8, <1>9, <1>10, <1>11, <1>12
        DEF CalcStep

(* The order of loads goes by what is asked of the calc thread, the belief by both. *)
LEMMA NextKeepsSession ==
  ASSUME MaxRecreations = 0, SessionInv, LoadInv, [Next]_vars
  PROVE  SessionInv' /\ LoadInv'
<1>1. Base /\ recreations = 0
  BY BaseHolds DEF SessionInv, CalcInv, InitOnce
<1>2. CalcInv' /\ SaveInv'
  BY NextKeepsCalcInv, NextKeepsSaveInv DEF SessionInv
<1>3. OrderInv'
  <2>1. CASE Kill
    BY <2>1, FreshOrderInv DEF Kill
  <2>2. CASE UNCHANGED vars
    BY <2>2 DEF SessionInv, vars, OrderInv, StartsFirst, UiLoadFirst, TaskWaits, LoadInHand, SaveMoved
  <2> QED BY <1>1, <2>1, <2>2, UiKeepsOrderInv, UserKeepsOrderInv, TaskKeepsOrderInv,
             CalcKeepsOrderInv DEF Next, SessionInv
<1>4. LoadInv'
  <2>1. CASE Kill
    BY <2>1, FreshLoadInv DEF Kill
  <2>2. CASE UNCHANGED vars
    BY <2>2 DEF vars
  <2> QED BY <2>1, <2>2, UiKeepsLoadInv, UserKeepsLoadInv, TaskKeepsLoadInv, CalcKeepsLoadInv
          DEF Next
<1> QED BY <1>2, <1>3, <1>4 DEF SessionInv

(* Whatever loads, saves, resets, wizard ROMs and deaths of the process came before and in
   whatever order the three threads took their steps: when no request is open and
   CalculatorManager says that a ROM is loaded, the slot is built and holds the ROM its
   file holds, but for the cases the property names; handleRomLoaded
   (CalculatorManager.java) is never late for another load.  For a process that creates
   its activity once, as for the one calculator above. *)
THEOREM LoadedIsThere ==
  ASSUME MaxRecreations = 0
  PROVE  Spec => []LoadedAgrees
<1>1. SessionInv /\ LoadInv => LoadedAgrees
  <2> SUFFICES ASSUME SessionInv, LoadInv, AtRest, hasLoaded, ~spoilt
               PROVE  /\ Built /\ slots[cur].rom \in Good
                      /\ currentRom = Sav \/ created \/ slots[cur].rom = files[currentRom]
    BY DEF LoadedAgrees
  <2>1. Believed /\ ~LoadComing
    BY DEF AtRest, LockFree
  <2>2. cur \in 1 .. MaxCalcs
    BY <2>1, OrderFacts DEF SlotsTyped
  <2> QED BY <2>1, <2>2 DEF Built
<1>2. Init => SessionInv /\ LoadInv
  BY InitCalcInv, InitSaveInv, InitOrderInv, InitLoadInv DEF SessionInv
<1>3. SessionInv /\ LoadInv /\ [Next]_vars => SessionInv' /\ LoadInv'
  BY NextKeepsSession
<1> QED BY <1>1, <1>2, <1>3, PTL DEF Spec

(* As long as the wizard has not replaced the slot, a ROM that is believed loaded is also
   running: load_settings (wabbitemujni.c), registered on the slot before the first load, is
   there for every load after it. *)
THEOREM LoadedIsRunning ==
  ASSUME MaxRecreations = 0
  PROVE  Spec => []LoadedRuns
<1>1. SessionInv /\ LoadInv => LoadedRuns
  BY DEF LoadedRuns, AtRest, LockFree
<1>2. Init => SessionInv /\ LoadInv
  BY InitCalcInv, InitSaveInv, InitOrderInv, InitLoadInv DEF SessionInv
<1>3. SessionInv /\ LoadInv /\ [Next]_vars => SessionInv' /\ LoadInv'
  BY NextKeepsSession
<1> QED BY <1>1, <1>2, <1>3, PTL DEF Spec

====
