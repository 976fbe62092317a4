# Wabbitemu for Android: a TLA+ model

Wabbitemu is an emulator of Texas Instruments Z80 calculators. The native
library (`src/app/src/main/jni`, C and C++) emulates the hardware; the Android
application (`src/app/src/main/java`, Java and Kotlin) runs it on a thread of
its own, draws its screen, feeds it keys and files and keeps its state over
restarts. The repository has no tests. This directory holds TLA+ modules of its
control logic, TLC configurations that check them on small instances, and
proofs, checked by TLAPS, of the properties that hold for every size.

Paths below are relative to `src/app/src/main/jni` for `.c`, `.cpp` and `.h` files
and to `src/app/src/main/java/io/github/angelsl/wabbitemu` for `.java` and `.kt`.

## 1. The system

| Component | State it keeps | Operations | What makes it correct |
|---|---|---|---|
| Memory mapper (`core/core.c`, `hardware/83psehw.c`, `83phw.c`) | two tables of banks, a pointer to one, page latches, the flag `hasChangedPage0` | `change_page`, `update_bootmap_pages`, ports 4, 5, 6, 7, 0E, 0F, `CPU_reset`, opcode fetch | the program sees the pages it selected, whatever half it wrote last |
| Memory protection (`core/core.c`, ports 14, 21 to 28) | flash lock, execution limits, remaps | `is_priveleged_page`, `is_allowed_exec`, `mem_read`, `mem_write` | protected ports and pages are reached from privileged code only |
| Flash chip (`core/core.c`) | `step`, `flash_error`, the bytes | `flash_write`, `flash_read`, endings by fetch and read | the bytes change by complete commands only |
| Z80 (`core/alu.c`, `control.c`, `indexcb.c`, `optable.h`) | registers, flags, IFF, halt | one instruction per `CPU_step` | results and flags are those of integer and decimal arithmetic; an interrupt between two rounds of a block instruction changes nothing |
| Timers, interrupts (`hardware/83psehw.c`) | masks, latches, crystal timers | ports 2 to 4, 30 to 38, device polling | who asks can be seen, no stale tick is delivered, HALT ends |
| Link (`hardware/link.c`, the assist in `83psehw.c`, `utilities/linksendvar.c`) | two wires per side, the byte of the assist, packets | bytes, packets, `forceload_app` | bytes arrive in order or the transfer times out |
| LCD (`hardware/lcd.c`, `colorlcd.c`) | cursor, mode, display memory, queue of pictures | commands, data | a word changes its own pixels, and the grey scale shows the last pictures in order |
| Native slots (`interface/calc.c`, `wabbitemujni.c`) | `calcs[]`, `lpCalc`, events | new, free, load, create, run | one active calculator, complete before it is used |
| Session (`calc/CalcThread.java`, `calc/CalculatorManager.java`, `fragment/EmulatorFragment.java`) | runnables, pause list, current ROM, what is loaded | life cycle, load, save, pause | what is asked for is loaded and runs; what is saved can be opened |
| Key input (`CalcSkin.java`, `WabbitLCD.java`, `CalcKeyManager.java`) | fingers, keys down, pending presses, delayed releases | touch, key events, retries | a key let go of comes up, and a press is seen |
| Screen (`calc/MainThread.java`, `WabbitLCD.java`) | surface, frame buffer | update, draw, destroy | nothing is drawn on a surface that is gone |
| Wizard (`wizard/*`, `activity/WizardActivity.kt`) | page stack, finish data, download | next, back, finish | the ROM is the one chosen, and a finish ends |
| Save states (`utilities/savestate.cpp`) | chunks of a file | save, load | what was saved comes back field by field, also when chunks are missing or short or the file is cut |
| Files, skins, sound, debugger | see PROJECT.json | | |

How they interact. One thread, `CalcThread`, enters the native library. The UI
thread, an `AsyncTask` that loads files, and a timer executor that repeats early
releases hand it runnables through a synchronized list, which it drains under the
list's lock before each frame, paused or not. Whether it runs frames is decided by a
flag and a list of reasons to pause, which the UI and the calc thread change
without a lock. `CalculatorManager`'s fields are shared by all of them in the same
way. The native side is sequential; its difficulty is state that must agree with
other state (copies, latches, flags, command steps) over operations a Z80
program may issue in any order, and what is lost when the session is saved and
loaded in a new process.

The behaviours that are hard to test, each with the line where it bites and the
properties that watch it, are listed in PROJECT.json under `hazards`.

## 2. Modules

| Module | Models | Kind |
|---|---|---|
| `PageMap` | what the mapper promises: four selections, one switch, and the view they imply | abstract specification |
| `BankSwitch` | tables, pointer, latches, ports, fetch, reset, restart of the flash models | detailed, implements `PageMap` |
| `BankSwitchProofs` | invariants and the refinement | proofs |
| `FlashCommand` | the flash command machine, reads, fetches, guards, lock, restart | detailed |
| `FlashCommandProofs` | all that the run of the chip checks | proofs |
| `CalcSession` | UI thread, loading task, calc thread, slots, files, process death | detailed, three threads |
| `CalcSessionProofs` | the pause list and its flag; one active calculator; what is remembered, loaded and running | proofs |
| `KeyInput` | fingers and keys, press and release runnables, retries, ROM loads | detailed, four threads |
| `KeyInputProofs` | pending presses | proofs |
| `MemMap` | reads and writes through remaps, the check of an execution, ports 21 to 28 | operators |
| `MemMapProofs` | that the three agree, and what the ports can express | proofs |
| `Z80Alu` | every arithmetic operation with its flags, and its meaning in integers | operators and their reference |
| `Z80` | the opcode tables, prefixes, block instructions, interrupts, HALT | detailed, one instruction a step |
| `MCZ80` | programs and what must hold at their ends | model checking |
| `Z80Proofs` | that the arithmetic means what the integers say, that every step of the processor stays typed and computes it, and what decimal, idle and block programs do | proofs |
| `Interrupts` | standard timers, ON key, crystal timers, requests of link assist and USB, polling, HALT | detailed |
| `LinkPort` | the virtual link, the assist and the program on the two wires | detailed, two sides |
| `Lcd` | cursor, words, delay and grey scale of the display | detailed |
| `SaveState` | chunks as written and as read, lost and short chunks, files cut off | detailed |
| `MCDevices` | these four modules, one in each behaviour | model checking |
| `DevicesProofs` | timers, link, display and save files | proofs |
| `Wizard` | the pages of the first ROM, their data and tasks, the finish | detailed, UI and calc thread |
| `MCApplication` | the session and the wizard, one in each behaviour | model checking |
| `ApplicationProofs` | the wizard's data, its assertions and the ROM it makes | proofs |
| other `MC...` | constants for TLC | model checking |

An operator whose comment begins with "Faulty:" is not part of a specification: it is a
definition as a plausible bug would leave it, kept beside the right one to
show which property notices.

### BankSwitch

`normal` and `bootmap` are the two arrays of `bank_state_t`, `banksPtr` the pointer
`memc.banks`, and `active` the table behind it. A page number keeps its flash or RAM
bit; `addr` is a function of it and is left out. `ChangePage` is `change_page` with
the refresh of the copy it ends in; each `OutPort...` is the write branch of a port
handler, possible only when an instruction has been fetched (`Out`), because
`device_output` runs inside an instruction. `Fetch` is `CPU_opcode_fetch`: it
switches bank 0 from the boot page to page 0 the first time code runs from the bank
of port 6. `Reset` is `CPU_reset`. `Restart` is `SaveMEM` followed by `LoadMEM` in memory a
new process has initialised; latches and `hasChangedPage0` are not in the file.
One model serves both families: `SE` selects the latched ports, `FlashVersion` the
rule for odd halves in the boot mapping.

### FlashCommand

The 16 KB pages are counted in halves, as `flash_write` does for sectors; an
address is its half and whether its low bits are AAA, 555 or anything else, which
is what the code compares. A byte is its set of one bits, so programming is an
intersection. `CommandTable` is the nested switch of `flash_write` as a relation; the `Write...`
actions are its cases, and exactly one is possible for each write.
`command` is a history variable, the writes that really came, against which
`CommandComplete` holds the step.

### CalcSession

Each thread has a place in `pc`; a step ends where another thread can get in:
between the test of `mHasLoadedRom` and the assignment of `mCurrentRomFile`, between
storing the save path and reading it again, between opening and finishing the save file,
and within `setPaused` at every access of the pause list. That list is a plain
`ArrayList` that no lock guards: `pauseList` is its array and size, and `call` what a thread has
read of it. `add` reads the size, then stores the greater size and the key; `remove` looks for the key,
moves what lies behind it, reads the size, then stores the smaller size and a null; `setPaused` goes on with the test of the size
and the change of the flag. Versions of `ArrayList` differ in the order of the two stores and in where they read the size
again, and both ways are steps here (`SizesRead`). `overlapped` remembers that two calls, one of which changes the list, have met.
TLC shows what that can do: the calc thread moves `EmulatorFragment` to the first place while the UI thread looks for it and misses it, the
key stays, and the emulator in front stays paused. No document promises otherwise, so the properties except that state, and only that one. A queued runnable
waits for the lock that the calc thread holds while it drains. Native calls are
atomic, for one thread makes them. `Crash` is a null pointer dereferenced by native code, or an
exception that leaves the calc thread, and `Kill` the system ending the process; both start
over from what is on disk. A slot records whether it is active, built (keypad,
LCD and link), running, and whether `load_settings` is registered, because
`calc_slot_free` clears some of these and not others. What a wizard's `CreateRom` leaves
when it fails is abstracted to a blank slot without the event, also for a failed export.

### KeyInput

An input event is turned into the list `todo` of `doKeyDown` and `doKeyUp` calls it
makes: `CalcSkin.onTouchEvent` hands every finger on the screen to the handler
with the action of the event. `MarkPending` and `QueuePress` are the two halves of
`pressKey`, `CheckRelease` and `QueueRelease` those of `releaseKey`, `Retry` and `RetryQueue` those
of the task in `mRepressExecutor` that finds the wait over (one that does not is a stuttering
step). `elapsed` counts a few ticks in place of 600 or 25000 T-states and is cut off
at the minimum; a ROM load may set it back below zero.

### MemMap

`place` is the flash or RAM page and offset an address leads to; `mem_read`, `mem_write` and
`is_allowed_exec` each search it in their own words in the code and are translated one by
one. Ports 21 to 28 are their conversions of a byte to a limit, with the widths and the operator
precedence of the source. `OfMode` is the test `page & (2 >> (mode + 1))` of the code. The module has
operators and no state; the bank tables it takes are those of `BankSwitch`, and the two are not composed.

### Z80Alu and Z80

A byte is a number and the flags a set. `Z80Alu` follows `alu.c`: masks, half carries
from low nibbles, overflow from signs, `DAA` from its flags. Its last part defines what
the operations are for, in integers and without a mask. `Z80` finds the opcode by the
two, three and three bits the tables are ordered by, so that one operator stands
for a quarter of a table. Its five actions are a step of `CPU_step`: fetch and run, poll
the devices (`Devices`, which may ask or not), clear P after `LD A, I`, and take the interrupt
unless `EI` blocks it. `cpu.mem` is the 64 KB the program sees. T-states are left out.
The code reads a row of `DD` and `FD` by recursion; a row that fills the whole memory has no last prefix
and no step here either (`RowEnds`). `Machines` may be any set of processors (`MachinesAssumption`): registers, memory and flags of their
widths, and no prefix pending, as `CPU_init` and every completed step leave them.

### Interrupts

A timer is the time since its last tick. `handle_pio` counts each device down and runs its
handler after every instruction, the standard ones each time, the crystal timers when `skip_count` comes to
zero, an `unsigned char` that wraps (`Wrap`). A timer asks when more than a period has passed and is caught up by
whole periods by an acknowledgement, by unmasking and by a change of rate. Of the link assist the module keeps the flags that
port 8 enables and that may ask (`asking`), which a poll may set as the assist does in `LinkPort`; of USB the line that
`GenerateUSBEvent` raises (`line`) when port 4A is written. Both raise the same `cpu->interrupt` as the timers.

### LinkPort

`link_wait` runs the processor, so the two sides take turns in one thread: `LinkStep` is a look of
the virtual link at the wires, `Calculator` an instruction that runs while it waits, with
the poll of the assist that may follow. `prog` is the program on the calculator, which may read and write ports 0A and 0D at
any moment, switch the assist on and off, pull lines itself, or do nothing. The ports have no guards, as in the code: a byte may be written to 0D while
the last one is going out, and the lines be pulled through port 0 while the assist drives them. A program that changes lines, throws a byte away
or sends one out of turn interferes (`Interferes`, bounded by `Switches`) and has lost the transfer. A packet is header, data and checksum. A byte is a number
below 2^`Bits`, and its bits leave the lowest first, as `vlink_send` and the assist shift them; `LinkOK` says what the packets,
answers and counts of a link are.

### Lcd

The display is rows of bytes; a word of six bits is merged into two of them, by the shifts of the code as
products and quotients by powers of two. A column is counted around the row as the cursor is. `Follower` is the
byte `cursor[1]` of the code: behind the last byte of a row it is the first of the next row, and behind the
display the low byte of `front` (`lcd.h`), so that a word in column 21 of six bits goes on in the next row or changes which picture of the queue is the first.
`DisplayOK` says what sizes a display has. `word_len` is 8 after a reset, as in the code. Contrast is left out,
and when a picture is put into the queue is free, because the code decides it by floating point times.

### SaveState

A chunk is a sequence of bytes, each known by the field it belongs to. Savers and loaders are two lists in
the code and here; `SaveSlot` writes those of a model. `LoseChunk` and `ShortenChunk` are files of another build. `CutBefore` and `CutWithin` are a file
that was cut off: `ReadSave` notices the end of a file only at the tag or the size of a chunk, takes the size from the header and ignores what `fread` returns, so a file
cut within its last chunk has a chunk of full size whose end is what `malloc` gave (`Stray`). An uncompressed file, or one whose `temp.sav` a full
disk had cut before it was compressed, is such a file.
`LoadChunk` reads chunk by chunk, with the size check that abandons a load and the tests for chunks that may be missing.
The bytes of a row of fields and where each field ends are recursive functions, and the slot is the set of the fields
that have been loaded, so that all of it can be reasoned about. `SaveOK` says that the five banks the loader counts are `NUM_BANKS`.

### MCDevices

Timers, link, display and save files share nothing but the processor's turn, so a behaviour is one of
them alone (`part`), and one run covers four modules. The crystal timers are a part beside the standard
ones, for their product is too large to enumerate and they meet in nothing but the interrupt line.

### Wizard

The wizard is one record. A page is shown with the data the last one handed over, which
are kept on a stack for the way back, and casts them to the class it expects; a wrong class ends the
wizard in `"cast"`, like the other exceptions, each under a name of its own. `animating` is the end of an animation that is to come: only
then a page is told of the buttons (`known`) and hides the next one, so that until then a user can press the button of the page before.
A page that is left drops its search; the vendor's web page, which cannot be stopped, may answer late and moves whatever page is shown.
The finish runs through `tryDownloadAndCreateRom`, with the flag `finishing`, one download that a pause or the user cancels, and the ROM the
calc thread creates. The user's selections and what the network and the disk give are taken from `Views` at the
moment the code looks. `CreateRom` itself is in `CalcSession`.

TLC reaches four exceptions in this module that no property excludes, because the repository says nothing to the contrary:
Back on `browse_os` and Next on `os` for a TI-84+CSE hand a `CalcModel` to a page that casts it to `OSDownloadData`; Next pressed twice
towards `browse_rom` finishes with no data; and a first search that fails before the animation ends uses a navigation that is not set.

## 3. Runs

| Run | Instance | Shows |
|---|---|---|
| `bank_switch` | 32 flash pages, of which ports 6 and 7 name half, 4 RAM pages, latched ports with extension bits | all properties of the latched mapper, and the refinement of `PageMap` |
| `flash_command` | 8 pages of 2 halves, 3 tracked bytes, 5 addresses, 9 data bytes | all properties of the chip |
| `flash_read_only` | the same | violation: the flag `read_only` does not protect a page |
| `session` | `MCApplication`: two good ROMs, a missing file, a corrupt save, one kill, 4 requests; in the wizard two calculators, 6 moves, every outcome of a finish (2.6 million states) | races of loads, saves and pauses, the pause list access by access, and what survives failures; the wizard keeps its data and makes the ROM that was chosen |
| `session_liveness` | `MCApplication`: one good ROM, a missing file, 3 requests, a process created again, and an activity with a slot left for it; the wizard as before | loads are answered, frames run, a finish ends |
| `session_second_calc` | an activity created twice | violation: two active calculators |
| `session_save_blank` | a first ROM that cannot be read | violation: a slot without keypad is saved |
| `keys` | two fingers and two key codes over two keys, 4 events, ROM loads among them | a pending press is on its way, no key is stuck |
| `z80` | 4800 programs of one to four instructions, counted with their operands, each opcode of each table, block instructions and idle loops with a handler that saves registers | arithmetic, decimal adjustment, interrupted blocks, no nesting of handlers |
| `devices` | two rates, one crystal timer with a wrap of 3; bytes of two bits, a request and three answers, 2 attempts, 2 interferences; a display of 2 rows of 4 bytes, columns 5 and 6, and 4 accesses; three models, each save lost, short or cut in every place | all properties of the four device modules |
| `save_se_aux` | three models, small blocks | violation: the fields of the SE hardware come back mixed |
| `key_ids` | one key that repeats | violation: ids are not unique |

The properties, and what would break them:

- `BootMapCurrent`, `BootPageGone`, `LatchesDescribeBanks`: copy, flag and latches agree with
  the table. `ImplementsPageMap`: at each step one selection or the switch changes, and the table in use is the view.
- `CommandComplete`: the machine is never ahead of the writes that came; `ErrorIsReal`,
  `FlashChangesByCommand`, `BitsRiseByErase`, `EraseHitsItsSector` and `GuardedPagesKept` say what
  the bytes may do.
- `OneCalcActive`, `LoadedAgrees`, `LoadedRuns`, `RememberedWritten`, `PauseHasReason`: what the manager believes is
  true of the slot, the disk and the pause list, at the moments when nothing is in flight. Where two calls have met in the pause list,
  `PauseHasReason` says less: a paused emulator in front has at least an entry in it.
- `ArithmeticMeans`, `DecimalRight`: results, carries, half carries and overflow are those of
  integers, and `DAA` corrects decimal sums and differences. `BlockDone`: a block instruction interrupted
  between its rounds does what it would have done alone. `OneFrame`: `EI`, `RET` leaves no room for an interrupt in between.
- `PhaseKept`: the two standard timers keep a quarter of a period between them. `NoStaleTick`: unmasking either of them delivers no
  tick of the time before. `SourceVisible`: who asks for an interrupt is shown, the timers and the ON key by port 4, the link assist by
  port 9, the USB line by port 55.
- `BytesInOrder`: what either side has read is a beginning of what the other sent, unless
  a byte was abandoned or the program interfered. `CellWritten`: a word changes its own pixels, on into the next row for the column that has no room.
  `PicturesInOrder`: the queue has the last pictures, unless a word past the display has written over its front. `RestoredAsSaved`: each field of each chunk
  that is there comes back, whatever else is lost, but for the bytes past a cut within the last chunk.
- `AssertionsHold`: no page is left backwards without data, and no finish begins while a download runs. `RomAsChosen`: the
  OS of a ROM was searched for the calculator chosen last, whatever was searched before.
- `LoadAnswered`, `ResumedRuns`, `NoStuckKey`, `TimerWakes`, `TransferEnds`, `FinishEnds`: what must happen in the end.

Bounds. Mapper and chip are finite and checked completely for their instance: the
page counts are the smallest at which masks, boot page, privileged pages, extension bits and
sectors differ, and the proofs remove the bound. The unlatched ports of the 83+ (`SE = FALSE`, flash
version 0) have no run of their own; the theorems of `BankSwitchProofs` hold for them as for
the others. `MaxRequests`, `MaxRecreations` and `MaxKills` bound
what the user and the system do; four requests allow two loads, a save and a
pause or a reset to overlap, and each mutant of the session is found with them. Three are enough for liveness: a load, a pause and
another of either. `MaxCalcs` is 2 there, so that an activity created again in a living process finds a slot and goes on.
The pause list never gets longer than three places (`ArrayPlaces`) in these runs; in Java its array has room for ten. `MaxEvents` bounds touches, key events and ROM loads together: four
are enough for both fingers to go down and up, for a key to be pressed again while
its release is put off, and for a stale entry of `mKeysDown` to be found by a later event.
In `z80` operands are bytes on both sides of every boundary of the
arithmetic; the proofs cover all of them. In `devices` two bits are the smallest byte whose bits
can be swapped and lost, `Wrap` 3 the smallest at which counters wrap between two uses, and three answers
are one without data, one with a variable and one whose checksum is wrong. Four accesses are enough for a
command, two words and a picture. Column 5 of six bits has no room in a row of four bytes, column 6 begins it again. The queue has two pictures, where the code has six.
In the wizard six moves (`MaxMoves`) are enough to choose a calculator, go back during its search, choose another, and reach the
last page; `MaxTasks` is 1, for the flag `finishing` admits a second task only after an error that was told too early.
Deadlock is checked in every run but `z80`, whose programs come to an end.

Fairness. The calc thread is a loop that never waits (weak fairness of
`CalcStep`, `Drain`, `RunCalcs`). Threads that wait for the list's lock get it eventually in `CalcSession`
(strong fairness of `UiStep` and `TaskStep`): the calc thread sleeps 100 ms or runs a frame without the lock between two drains.
In `KeyInput` events are bounded, and weak fairness is enough. The calc thread steps the processor
for ever, so a halted one goes on taking time (weak fairness of `Halted`), and the virtual link, which runs the processor itself while it waits, takes
its steps (`LinkStep`) and instructions that do nothing to the link (`Plain`). Downloads end, cancelled tasks report, and the
calc and UI threads run what they are given (weak fairness of `Finish` of the wizard, taken together). Nothing is assumed of the user, the system or the order in
which threads come.

### Disagreements

1. `core/core.h:97` says a `read_only` bank cannot be written "not even if the flash is
   unlocked"; `CPU_mem_write` never looks at the flag for flash.
2. `wabbitemujni.c:77` says "Do not allow more than one calc currently"; `Initialize`,
   which runs once per activity, takes a new slot and frees none. Eight of them exhaust the table.
3. `savestate.cpp:623` throws when the keypad is missing; `saveCurrentRom` queues a save of a slot whose first
   load failed.
4. `CalcKeyManager.java:170` asks for ids unique "at any given time"; key repeats and resent pointers break this.

5. `savestate.cpp:191` says that a chunk of another size than the one expected is not loaded; `SaveSE_AUX` and `LoadSE_AUX` order
   the same bytes differently, and the link assist, delays and MD5 registers come back mixed.

## 4. Proofs

Each theorem holds for every value of the constants that satisfies the named
assumptions of its module; TLC evaluates those assumptions in the runs.

- `BankSwitchProofs`. The inductive invariant is `IInv`, the conjunction of `TypeOK`,
  `BootMapCurrent` and `BootPageGone`. Types are needed for the copy (a page halved and
  doubled stays in range because the page counts are even), and the copy's being
  current is what makes the view of `PageMap` equal to the table in use. `Refinement` shows that Init maps to `MapInit` and each
  action to a selection, the switch, a power-on or a stutter. `LatchesDescribe` adds the inductive `Latched` (banks 1 and 2
  hold what their latches decode to) and one lemma of arithmetic, `PageReadBack`: it needs that the width of the ports and
  the number of flash pages divide each other, as 5 bits and 32 pages, and 7 bits and 64, 128 or 256 pages do.
- `FlashCommandProofs`. `CommandComplete` is inductive by itself: one step for each row
  of the table. `ChangesByCommand` follows from it, and `BitsRise` with the type of the bytes. `ErrorsAreReal` rests on `TypesKept` and on what a program
  command does to the byte it names. `GuardedKept`: `WriteValid` refuses a program command for a byte of such a page, so that only
  an erase changes one. `EraseHits` compares the ranges of `SectorErased` with the sector an address lies in (`SectorMeant`), by
  cases of the small sectors at the top; it holds for any number of whole 64 KB.
- `CalcSessionProofs`. `PauseHasReason` is strengthened to `PauseInv`. As long as no two calls have met in the pause list, it holds
  exactly the keys of those who are listed, or what the one call under way has made of them by now (`ListExact`, with `HalfDone` for the places of a call, and
  `ListedFor` for who is listed, by what activity and threads are at). And whatever has met, a paused emulator in front
  whose list is empty has a thread on its way to lower the flag (`FlagFollows`).
  `OneCalcOfOneActivity` assumes `MaxRecreations = 0`, without which it is false (`session_second_calc`). `CalcInv` says that the
  one request for a calculator comes before every other and finds the table free, that the runnable in hand
  stays listed until it is done, and that every other slot is free when one is taken. `RememberedIsWritten` holds for any number of
  activities and rests on `SaveInv`, of which `SavKnown` is the part that matters: the save file may hold nothing only as long as no thread and no
  field has its path, except for a save that is about to open it. `LoadedIsThere` and
  `LoadedIsRunning` assume one activity again. `OrderInv` follows the requests: the UI thread's own load is answered before any other, the task waits for
  the one thing it has asked for, and the path does not move under a save unless another load follows. With it `LoadInv` says what may be
  believed of the calculator while a load is between two of its steps, or still to come. `FilesAssumption` keeps
  the names of files apart.
- `KeyInputProofs`. `PendingHasPress` needs only that the list is a sequence; two lemmas say what
  a sequence holds after an item is put at its end or taken off its front.

- `MemMapProofs`. A read finds what a write left, because both searches lead an address to the same place; an execution is
  checked at the place it is read from, for RAM outside the protection modes. Three theorems say what ports 24 to 26 cannot express.
- `ApplicationProofs`. `WizardInv` has three parts beside the types. `WayBack`: the stack holds something for each page that can be left
  backwards, and what it holds below `browse_os` is a `CalcModel`. `OneFinish`: unless a boot page could not be written, one thing at most is under way for a finish,
  and only while `finishing` is set. `ForChosen`: what a page was shown, and what was searched and found for it, is for the calculator chosen last.
  `NoAssertionFails` and `RomIsAsChosen` follow for any calculators, outcomes and number of moves.
- `DevicesProofs`. Timers: `PhaseIsKept` needs only that what is taken from a timer, by an acknowledgement, a change of rate or the cut of the model,
  is a multiple of the second's period; that is the content of the lemmas about multiples, and of `QuarterOK`. `Seen`, that a raised interrupt has a source in
  port 4, 9 or 55, is shown step by step with the types of the crystal timers and the flags of the assist, and `TimerInv` adds that a timer that is off has nothing
  overdue, from which `NoTickIsStale` follows. `NobodySleepsOver` and `TheTickComesNearer` are what `TimerWakes` rests on, without its fairness: a
  processor that waits with interrupts on is never behind a tick (`Awake`, which needs that the wait after `EI` is over by then), and each step of the wait
  takes the clocks of the unmasked timers on, up to their periods. Display: `QueueInv` keeps the
  ring of pictures and the order they were put in as one fact about indices modulo the length, with `front` in the ring as long as there is a picture to be found; `WordIsWritten` is one of arithmetic:
  a word shifted into two bytes by powers of two and read back changes the bits of its column and no others, in its row and the next, for every size
  that `DisplayOK` admits (`CellsOK` has the types, `front` any number). Link: `LinkInv` has a case for each place in `link_send` and `link_recv` at which the other side may run: no packet is on its way and
  all that was sent has been read (`Settled`), a byte of the assist that was left unfinished keeps the next packet from its first bit on (`Blocked`), a
  bit of a packet is on the wires, taken over or not yet (`Sends`), the program answers before the last bit is released
  (`AnsweredEarly`), or a bit of the answer is (`Listens`). The bits of a byte are compared by powers of two, and the first that differs by the
  least number principle. Save files: `SlotIsRestored` begins with rows of fields of any widths.
  By the same principle the bytes of a row are those of its fields one after another (`BytesAre`), `BytesGrow` says that a longer row begins with a shorter one, and
  `ReadsBack` that fields read where they end are the fields written. Loaders and savers list the same fields (`LoadersAreSavers`), except
  those of the SE hardware (`Misread`). `SaveInv` then follows a load: a chunk of the file is as it was saved up to a cut (`Written`, `Torn`), or shorter and then
  ends the load (`FileKept`); the slot (`SlotKept`) has what was saved in the chunks before `next` and nothing of those from there on.
- `Z80Proofs`. Addition, subtraction and comparison of 8 and 16 bits, and `DAA` after both, agree with
  the integers for all operands and carries; the masks are divided out by lemmas about one bit each, and `INC` and `DEC` are
  the addition and subtraction of 1 but for the carry. `ProcessorTyped` goes through all the tables: each operation keeps `Kept(s, q)`, that `s` is a processor
  whose index is among those `q` names and which, if `q` asks for it, is calm. Calm, that both
  flip-flops are down or an interrupt has to wait, is what an accepted interrupt leaves, whatever instruction mode 0 runs; so a step after which interrupts are as open as before
  took none, which is what `Undisturbed` says of it and `ArithmeticIsRight` needs. Prefixes in a row need that a non-empty
  set of numbers has a least one. `DecimalProgramsAreRight` puts the parts together for all pairs of decimal bytes: `DecimalInv` follows the
  two instructions, and `DecimalAssumption` says which programs are decimal. `FramesDoNotPile` is about every idle program
  (`IdleAssumption`: up to a hundred `NOP`, `HALT`, `DI` and `EI`, a jump back, a stack above the code) and every pattern of interrupts. Its
  invariant says where the processor is (`Where`): in the program on an empty stack; in the handler with interrupts shut
  out, above a return address into the program; or at the handler's `RET` with the wait `EI` asks for still to come. Without that last
  part it is not inductive: interrupts are on again while the frame is still there. That the stack never reaches the code is what keeps the opcodes known.
  `BlocksAreDone` is about every `LDIR`, `LDDR`, `CPIR` and `OTIR` whose bytes lie between the code and the stack (`BlockAssumption`; a copy overlaps, if
  it does, in the direction that repeats) with the handler between any two rounds. Its invariant, `BlockInv`, is
  a product of two parts: where the processor is, at the instruction or at one of the handler's six places, and how many rounds are done (`Rounds`), which each
  place finds somewhere else: the return address on the stack tells whether another round is to come, and inside the handler the accumulator and flags are in the word it has pushed.
  An overlapping copy after `j` rounds is periodic, which is arithmetic of remainders (`Periodic`), not induction.

Model-checked only. All liveness (`LoadAnswered`, `ResumedRuns`, `NoStuckKey`, `TimerWakes`, `TransferEnds`, `FinishEnds`), and what needs
ENABLED, is out of this prover's reach; of `TimerWakes` the steps are proved, and what is left is that they add up and are taken. Every invariant and every property of steps that a passing run has is proved.

## 5. Not modelled

In the order in which they would come next:

1. `AppLoader` (`utilities/linksendvar.c`): `forceload_app` and `forceload_os`, which write flash pages and the certificate directly.
2. The colour display (`hardware/colorlcd.c`): registers, windows and the two clocks of its drawing.
3. `Screen` (surface and frame buffer).
4. Events, turbo and speed of the native slots; keypad port 1; clock, MD5, delays and the rest of USB of the SE hardware.
5. `MemMap` with `BankSwitch` and the reset after a forbidden fetch; that reset with the flash command machine.
6. The models 73, 81, 82, 83, 85 and 86, whose mappers are simpler.

Left out for good: pure output (sound, GIF, screenshots, skins), file formats and
the MSI database (parsing), network I/O, themes and settings, and the tables of names
`bcalls.h` and `flags.h`, which are data of the debugger and hold no control.
`multiplatform_migration_plan.md` describes intentions, not code.
