----------------------------- MODULE SaveState -----------------------------
(***************************************************************************)
(* The chunks of a save file (savestate.cpp): what SaveSlot writes for a   *)
(* model, what may have become of the file, and how LoadSlot reads it back *)
(* field by field.  Savers and loaders are written twice in the code, and  *)
(* here: nothing but their order says which bytes are which field.         *)
(*                                                                         *)
(* A byte is known by the field it belongs to, a tag by its name without   *)
(* blanks.  The chunks are in the file in the order of Order.  Builds      *)
(* before this one, breakpoints, the compression and the model 73 are left *)
(* out.                                                                    *)
(***************************************************************************)
EXTENDS Naturals, Sequences, SequencesExt, FiniteSets

CONSTANTS
  Models,      \* of "83P", "84PSE" and "84PCSE"
  Interrupts,  \* the entries of pio.interrupt
  Banks,       \* NUM_BANKS
  Memory       \* the size of a block of memory

\* The loader counts to 5, the saver to NUM_BANKS.
SaveOK == Banks = 5 /\ Interrupts \in Nat /\ Memory \in Nat

VARIABLES
  model,   \* the model of the slot and the save
  file,    \* the chunks by their tags, as ReadSave has them
  missing, \* how many bytes the file has lost at its end
  slot,    \* the fields that have been loaded, each with its bytes
  at,      \* whether there is a save, and what became of it
  next     \* the chunk LoadSlot comes to

vars == <<model, file, missing, slot, at, next>>

(***************************************************************************)
(* Fields in a row, of the widths of WriteChar to WriteBlock.              *)
(***************************************************************************)
Indexed(width, names, i) == [k \in DOMAIN names |-> [name |-> names[k], index |-> i, width |-> width]]
Chars(names) == Indexed(1, names, 0)
Shorts(names) == Indexed(2, names, 0)
Ints(names) == Indexed(4, names, 0)
Longs(names) == Indexed(8, names, 0)
Doubles(names) == Indexed(8, names, 0)
Block(name) == Indexed(Memory, <<name>>, 0)
Each(n, row) == [k \in 1..(n * Len(row)) |->
                   [row[((k - 1) % Len(row)) + 1] EXCEPT !.index = ((k - 1) \div Len(row)) + 1]]

(***************************************************************************)
(* The savers.                                                             *)
(***************************************************************************)
SaveCPU ==
  Chars(<<"a", "f", "b", "c", "d", "e", "h", "l", "ap", "fp", "bp", "cp", "dp", "ep", "hp", "lp",
          "ixl", "ixh", "iyl", "iyh">>)
  \o Shorts(<<"pc", "sp">>) \o Chars(<<"i", "r", "bus">>)
  \o Ints(<<"imode", "interrupt", "ei_block", "iff1", "iff2", "halt",
            "read", "write", "output", "input", "prefix">>)
  \o Each(Interrupts, Ints(<<"device", "skip_factor", "skip_count">>))
  \o Ints(<<"model_bits">>)

SaveMEM ==
  Ints(<<"flash_size", "flash_pages", "ram_size", "ram_pages", "step",
         "boot_mapped", "flash_locked", "flash_version">>)
  \o Each(Banks, Ints(<<"page", "read_only", "ram", "no_exec">>))
  \o Ints(<<"read_OP_flash_tstates", "read_NOP_flash_tstates", "write_flash_tstates",
            "read_OP_ram_tstates", "read_NOP_ram_tstates", "write_ram_tstates",
            "flash_upper", "flash_lower">>)
SaveRemaps == Ints(<<"port27_remap_count", "port28_remap_count">>)
SaveLimits == Ints(<<"ram_upper", "ram_lower">>)

SaveTIMER == Longs(<<"tstates", "freq">>) \o Doubles(<<"elapsed", "lasttime">>)
SaveLINK == Chars(<<"host">>)
SaveKeypad == Chars(<<"group">>)
SaveSTDINT ==
  Chars(<<"intactive">>) \o Doubles(<<"lastchk1", "timermax1", "lastchk2", "timermax2">>)
  \o Each(4, Doubles(<<"freq">>)) \o Ints(<<"mem", "xy">>)

SaveLinkAssist ==
  Chars(<<"link_enable", "in", "out", "working">>)
  \o Ints(<<"receiving", "read", "ready", "error", "sending">>)
  \o Doubles(<<"last_access">>) \o Ints(<<"bit">>)
Clock == Chars(<<"enable">>) \o Ints(<<"set", "base">>) \o Doubles(<<"lasttime">>)
Delays == Each(7, Chars(<<"delay">>))
Md5 == Each(6, Ints(<<"md5">>)) \o Chars(<<"s", "mode">>)
Xtal ==
  Doubles(<<"lastTime">>) \o Longs(<<"ticks">>)
  \o Each(3, Longs(<<"lastTstates", "lastTicks", "divsor">>)
             \o Ints(<<"loop", "interrupt", "underflow", "generate", "active">>)
             \o Chars(<<"clock", "count", "max">>))
SaveSE_AUX == Clock \o SaveLinkAssist \o Delays \o Md5 \o Xtal
SaveUSB ==
  Ints(<<"USBLineState", "USBEvents", "USBEventMask", "LineInterrupt", "ProtocolInterrupt",
         "ProtocolInterruptEnabled", "DevAddress">>) \o Chars(<<"Port4A", "Port4C", "Port54">>)

Times == Doubles(<<"time", "ufps", "ufps_last", "lastgifframe", "write_avg", "write_last">>)
SaveLCD ==
  Ints(<<"active", "word_len", "x", "y", "z", "cursor_mode", "contrast", "base_level">>)
  \o Block("display") \o Ints(<<"front">>) \o Block("queue") \o Ints(<<"shades", "mode">>)
  \o Times \o Shorts(<<"screen_addr">>)
SaveColorLCD ==
  Ints(<<"active", "x", "y", "z", "cursor_mode", "contrast">>) \o Times
  \o Block("display") \o Block("queued_image") \o Block("registers")
  \o Ints(<<"current_register", "read_buffer", "write_buffer", "read_step", "write_step",
            "frame_rate", "front">>)

\* SaveSlot: the chunks of a model, and the fields of each.
Chunks == {"CPU", "MEMC", "ROM", "RAM", "RMAP", "RMLM", "TIME", "LCD", "LINK", "KEYS", "STDI", "SEAX"}
            \cup (IF model = "83P" THEN {} ELSE {"USB"})
Saved(tag) ==
  CASE tag = "CPU" -> SaveCPU
    [] tag = "MEMC" -> SaveMEM
    [] tag = "ROM" -> Block("flash")
    [] tag = "RAM" -> Block("ram")
    [] tag = "RMAP" -> SaveRemaps
    [] tag = "RMLM" -> SaveLimits
    [] tag = "TIME" -> SaveTIMER
    [] tag = "LCD" -> IF model = "84PCSE" THEN SaveColorLCD ELSE SaveLCD
    [] tag = "LINK" -> SaveLINK
    [] tag = "KEYS" -> SaveKeypad
    [] tag = "STDI" -> SaveSTDINT
    [] tag = "SEAX" -> IF model = "83P" THEN SaveLinkAssist ELSE SaveSE_AUX
    [] tag = "USB" -> SaveUSB

(***************************************************************************)
(* The loaders.                                                            *)
(***************************************************************************)
LoadCPU ==
  Chars(<<"a", "f", "b", "c", "d", "e", "h", "l", "ap", "fp", "bp", "cp", "dp", "ep", "hp", "lp",
          "ixl", "ixh", "iyl", "iyh">>)
  \o Shorts(<<"pc", "sp">>) \o Chars(<<"i", "r", "bus">>)
  \o Ints(<<"imode", "interrupt", "ei_block", "iff1", "iff2", "halt",
            "read", "write", "output", "input", "prefix">>)
  \o Each(Interrupts, Ints(<<"device", "skip_factor", "skip_count">>))
  \o Ints(<<"model_bits">>)

\* Faulty: the limits are read in the order of their ports.
LoadMEMSwapped ==
  Ints(<<"flash_size", "flash_pages", "ram_size", "ram_pages", "step",
         "boot_mapped", "flash_locked", "flash_version">>)
  \o Each(Banks, Ints(<<"page", "read_only", "ram", "no_exec">>))
  \o Ints(<<"read_OP_flash_tstates", "read_NOP_flash_tstates", "write_flash_tstates",
            "read_OP_ram_tstates", "read_NOP_ram_tstates", "write_ram_tstates",
            "flash_lower", "flash_upper">>)

LoadMEM ==
  Ints(<<"flash_size", "flash_pages", "ram_size", "ram_pages", "step",
         "boot_mapped", "flash_locked", "flash_version">>)
  \o Each(5, Ints(<<"page", "read_only", "ram", "no_exec">>))
  \o Ints(<<"read_OP_flash_tstates", "read_NOP_flash_tstates", "write_flash_tstates",
            "read_OP_ram_tstates", "read_NOP_ram_tstates", "write_ram_tstates",
            "flash_upper", "flash_lower">>)
LoadRemaps == Ints(<<"port27_remap_count", "port28_remap_count">>)
LoadLimits == Ints(<<"ram_upper", "ram_lower">>)
LoadTIMER == Longs(<<"tstates", "freq">>) \o Doubles(<<"elapsed", "lasttime">>)
LoadLCD ==
  Ints(<<"active", "word_len", "x", "y", "z", "cursor_mode", "contrast", "base_level">>)
  \o Block("display") \o Ints(<<"front">>) \o Block("queue") \o Ints(<<"shades", "mode">>)
  \o Doubles(<<"time", "ufps", "ufps_last", "lastgifframe", "write_avg", "write_last">>)
  \o Shorts(<<"screen_addr">>)
LoadColorLCD ==
  Ints(<<"active", "x", "y", "z", "cursor_mode", "contrast">>)
  \o Doubles(<<"time", "ufps", "ufps_last", "lastgifframe", "write_avg", "write_last">>)
  \o Block("display") \o Block("queued_image") \o Block("registers")
  \o Ints(<<"current_register", "read_buffer", "write_buffer", "read_step", "write_step",
            "frame_rate", "front">>)
LoadLINK == Chars(<<"host">>)
LoadKeypad == Chars(<<"group">>)
LoadSTDINT ==
  Chars(<<"intactive">>) \o Doubles(<<"lastchk1", "timermax1", "lastchk2", "timermax2">>)
  \o Each(4, Doubles(<<"freq">>)) \o Ints(<<"mem", "xy">>)
LoadLinkAssist ==
  Chars(<<"link_enable", "in", "out", "working">>)
  \o Ints(<<"receiving", "read", "ready", "error", "sending">>)
  \o Doubles(<<"last_access">>) \o Ints(<<"bit">>)
LoadSE_AUX ==
  Chars(<<"enable">>) \o Ints(<<"set", "base">>) \o Doubles(<<"lasttime">>)
  \o Each(7, Chars(<<"delay">>))
  \o Each(6, Ints(<<"md5">>)) \o Chars(<<"s", "mode">>)
  \o LoadLinkAssist
  \o Doubles(<<"lastTime">>) \o Longs(<<"ticks">>)
  \o Each(3, Longs(<<"lastTstates", "lastTicks", "divsor">>)
             \o Ints(<<"loop", "interrupt", "underflow", "generate", "active">>)
             \o Chars(<<"clock", "count", "max">>))
LoadUSB ==
  Ints(<<"USBLineState", "USBEvents", "USBEventMask", "LineInterrupt", "ProtocolInterrupt",
         "ProtocolInterruptEnabled", "DevAddress">>) \o Chars(<<"Port4A", "Port4C", "Port54">>)

\* LoadSlot: the chunks in the order they are read, the last one not for an 83+,
\* and those that may be missing.
Order == <<"CPU", "MEMC", "ROM", "RAM", "RMAP", "RMLM", "TIME", "LCD", "LINK", "KEYS", "STDI",
           "SEAX", "USB">>
Final == IF model = "83P" THEN 12 ELSE 13
Loaded(tag) ==
  CASE tag = "CPU" -> LoadCPU
    [] tag = "MEMC" -> LoadMEM
    [] tag = "ROM" -> Block("flash")
    [] tag = "RAM" -> Block("ram")
    [] tag = "RMAP" -> LoadRemaps
    [] tag = "RMLM" -> LoadLimits
    [] tag = "TIME" -> LoadTIMER
    [] tag = "LCD" -> IF model = "84PCSE" THEN LoadColorLCD ELSE LoadLCD
    [] tag = "LINK" -> LoadLINK
    [] tag = "KEYS" -> LoadKeypad
    [] tag = "STDI" -> LoadSTDINT
    [] tag = "SEAX" -> IF model = "83P" THEN LoadLinkAssist ELSE LoadSE_AUX
    [] tag = "USB" -> LoadUSB
Optional == {"RMAP", "RMLM", "KEYS", "SEAX", "USB"}

(***************************************************************************)
(* Bytes.                                                                  *)
(***************************************************************************)
Name(tag, field) == <<tag, field.name, field.index>>
BytesOf(tag, field) == [b \in 1..field.width |-> <<Name(tag, field), b>>]
Data(tag, fields) ==
  LET row[k \in 0..Len(fields)] == IF k = 0 THEN <<>> ELSE row[k - 1] \o BytesOf(tag, fields[k])
  IN row[Len(fields)]

\* Where each field ends, when they are read one after another.
Ends(fields) ==
  LET end[k \in 0..Len(fields)] == IF k = 0 THEN 0 ELSE end[k - 1] + fields[k].width
  IN end

\* The fields that CheckPNT lets be read from a chunk, with the bytes they are given.
FieldsRead(tag, fields, data) ==
  {<<Name(tag, fields[k]), SubSeq(data, Ends(fields)[k - 1] + 1, Ends(fields)[k])>> :
     k \in {k \in DOMAIN fields : Ends(fields)[k] <= Len(data)}}

(***************************************************************************)
(* The steps.                                                              *)
(***************************************************************************)
SaveSlot ==
  /\ at \in {"start", "loaded", "failed"}
  /\ file' = [tag \in Chunks |-> Data(tag, Saved(tag))]
  /\ at' = "saved" /\ missing' = 0 /\ slot' = {} /\ next' = 1
  /\ UNCHANGED model

Unread == at = "saved" /\ next = 1 /\ missing = 0
Intact == DOMAIN file = Chunks /\ \A tag \in Chunks : file[tag] = Data(tag, Saved(tag))

\* A file of another build: a chunk is not there, or is short.
LoseChunk ==
  \E tag \in DOMAIN file :
    /\ Unread /\ Intact
    /\ file' = [t \in DOMAIN file \ {tag} |-> file[t]]
    /\ UNCHANGED <<model, missing, slot, at, next>>
ShortenChunk ==
  \E tag \in DOMAIN file :
    /\ Unread /\ Intact /\ Len(file[tag]) > 1
    /\ file' = [file EXCEPT ![tag] = Front(@)]
    /\ UNCHANGED <<model, missing, slot, at, next>>

\* ReadSave of a file that is cut off.  It looks for the end of the file at the tag and
\* the size of a chunk only: with the last chunk begun, it takes the size it is told,
\* and what it does not read of the data stays as malloc gave it.
Stray == <<Name("", [name |-> "", index |-> 0]), 0>>
CutBefore == Unread /\ Intact /\ at' = "failed" /\ UNCHANGED <<model, file, missing, slot, next>>
CutWithin ==
  /\ Unread /\ Intact
  /\ \E n \in 1..Len(file[Order[Final]]) :
       /\ missing' = n
       /\ file' = [file EXCEPT ![Order[Final]] =
                     [b \in 1..Len(@) |-> IF b + n <= Len(@) THEN @[b] ELSE Stray]]
  /\ UNCHANGED <<model, slot, at, next>>

\* The next chunk: one that is missing ends the load unless it may be, and one that is
\* too short throws.  Without SEAX, USB is not looked for.
LoadChunk ==
  LET tag == Order[next]
      fields == Loaded(tag)
      data == file[tag]
  IN /\ at = "saved" /\ next <= Final
     /\ IF tag \in DOMAIN file
          THEN /\ slot' = slot \cup FieldsRead(tag, fields, data)
               /\ at' = IF Ends(fields)[Len(fields)] > Len(data) THEN "failed" ELSE at
               /\ next' = next + 1
          ELSE /\ at' = IF tag \in Optional THEN at ELSE "failed"
               /\ next' = IF tag = "SEAX" THEN Final + 1 ELSE next + 1
               /\ UNCHANGED slot
     /\ UNCHANGED <<model, file, missing>>
LoadDone ==
  /\ at = "saved" /\ next > Final /\ at' = "loaded"
  /\ UNCHANGED <<model, file, missing, slot, next>>

Init ==
  model \in Models /\ file = <<>> /\ missing = 0 /\ slot = {} /\ at = "start" /\ next = 1
Next == SaveSlot \/ LoseChunk \/ ShortenChunk \/ CutBefore \/ CutWithin \/ LoadChunk \/ LoadDone
Spec == Init /\ [][Next]_vars

(***************************************************************************)
(* Properties.                                                             *)
(***************************************************************************)
\* The k-th field of a chunk as far as the file has its bytes.
Lost(tag) == IF tag = Order[Final] THEN missing ELSE 0
Kept(tag, k) ==
  LET fields == Saved(tag)
      left == Len(Data(tag, fields)) - Lost(tag)
  IN [b \in 1..fields[k].width |->
        IF Ends(fields)[k - 1] + b <= left THEN BytesOf(tag, fields[k])[b] ELSE Stray]

Restored(tags) ==
  at = "loaded" =>
    \A tag \in tags \cap DOMAIN file :
      {field \in slot : field[1][1] = tag} =
        {<<Name(tag, Saved(tag)[k]), Kept(tag, k)>> : k \in DOMAIN Saved(tag)}

\* Every field of every chunk that is there comes back as it was saved, and nothing
\* else does, for each of the models; of the chunk SEAX, see AssistRestored.  A load
\* gives back less only if the file was cut off within the data of its last chunk, and
\* then only the bytes past the cut are stray.
RestoredAsSaved ==
  Restored(Chunks \ ((IF model = "83P" THEN {} ELSE {"SEAX"})
                        \cup (IF "SEAX" \in DOMAIN file THEN {} ELSE {"USB"})))

\* A slot that loads has the link assist, delays and MD5 registers that were saved.
AssistRestored == Restored({"SEAX"})
=============================================================================
