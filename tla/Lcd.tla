-------------------------------- MODULE Lcd --------------------------------
(***************************************************************************)
(* The controller of the black and white display (lcd.c) behind ports 10   *)
(* and 11: the cursor and its modes, words of six and of eight bits, the   *)
(* delayed read, the time an access takes, and the queue of pictures the   *)
(* grey scale is made of.                                                  *)
(*                                                                         *)
(* When a picture is put into the queue is decided by floating point times *)
(* that are left out: an access may put one in.  Contrast is left out.     *)
(***************************************************************************)
EXTENDS Naturals, Sequences

CONSTANTS
  Height,   \* LCD_HEIGHT
  MemWidth, \* LCD_MEM_WIDTH, in bytes
  Bound,    \* where the cursor turns, by the mode of the words
  Columns,  \* the columns a program sets
  Words,    \* the words it writes
  Delay,    \* lcd_delay
  Shades,   \* the pictures in the queue
  Accesses  \* a bound on reads and writes of the two ports

\* Rows, columns and the places of the queue are counted around; a word is a byte.
DisplayOK ==
  /\ Height \in Nat \ {0} /\ MemWidth \in Nat \ {0} /\ Shades \in Nat \ {0}
  /\ Bound \in [{"six", "eight"} -> Nat \ {0}] /\ Columns \subseteq Nat /\ Words \subseteq 0..255

VARIABLES
  lcd,      \* LCD_t
  pictures, \* history: the pictures asked for since front was last lost, the last one first
  accesses  \* accesses so far

vars == <<lcd, pictures, accesses>>

Rows == 0..(Height - 1)
Bytes == 0..(MemWidth - 1)
Blank == [x \in Rows |-> [b \in Bytes |-> 0]]
Places == 0..(Shades - 1)   \* of the queue
Directions == {"X_DOWN", "X_UP", "Y_DOWN", "Y_UP"}
Sizes == {"six", "eight"}   \* word_len

(***************************************************************************)
(* The cursor.                                                             *)
(***************************************************************************)
LCD_advance_cursor(l) ==
  CASE l.cursor_mode = "X_UP"   -> [l EXCEPT !.x = (@ + 1) % Height]
    [] l.cursor_mode = "X_DOWN" -> [l EXCEPT !.x = (@ + Height - 1) % Height]
    [] l.cursor_mode = "Y_UP"   -> [l EXCEPT !.y = IF @ + 1 >= Bound[l.word_len] THEN 0 ELSE @ + 1]
    [] l.cursor_mode = "Y_DOWN" -> [l EXCEPT !.y = IF @ = 0 THEN Bound[l.word_len] - 1 ELSE @ - 1]

At(l) == (IF l.word_len = "eight" THEN l.y ELSE (l.y * 6) \div 8) % MemWidth
Shift(l) == 10 - ((l.y * 6) % 8)

\* The byte after the one at the cursor: in the last byte of a row it is the first byte of
\* the next row, and in the last byte of the display the low byte of front (lcd.h).
Follower(l) == IF At(l) + 1 \in Bytes THEN l.display[l.x][At(l) + 1]
            ELSE IF l.x + 1 \in Rows THEN l.display[l.x + 1][0] ELSE l.front % 256
PutFollower(l, byte) ==
  IF At(l) + 1 \in Bytes THEN [l EXCEPT !.display[l.x][At(l) + 1] = byte]
  ELSE IF l.x + 1 \in Rows THEN [l EXCEPT !.display[l.x + 1][0] = byte]
       ELSE [l EXCEPT !.front = (@ - (@ % 256)) + byte]

\* The two bytes that hold a word of six bits.  Bits 6 and 7 of the bus are not masked:
\* the ones among them are set in what lies before the word.
Pair(l) == l.display[l.x][At(l)] * 256 + Follower(l)
IsSet(n, k) == (n \div 2^k) % 2 = 1
WithBit(n, k) == IF k > 15 \/ IsSet(n, k) THEN n ELSE n + 2^k
Merged(l, word) ==
  LET old == (Pair(l) \div 2^Shift(l)) % 64
      six == Pair(l) - old * 2^Shift(l) + (word % 64) * 2^Shift(l)
      seven == IF IsSet(word, 6) THEN WithBit(six, Shift(l) + 6) ELSE six
  IN IF IsSet(word, 7) THEN WithBit(seven, Shift(l) + 7) ELSE seven

\* Faulty: the bits next to the word are cleared with it.
PutWide(l, word) ==
  IF l.word_len = "eight" THEN [l EXCEPT !.display[l.x][At(l)] = word]
  ELSE PutFollower([l EXCEPT !.display[l.x][At(l)] = ((word * 2^Shift(l)) \div 256) % 256],
                (word * 2^Shift(l)) % 256)

Put(l, word) ==
  IF l.word_len = "eight" THEN [l EXCEPT !.display[l.x][At(l)] = word]
  ELSE PutFollower([l EXCEPT !.display[l.x][At(l)] = Merged(l, word) \div 256],
                Merged(l, word) % 256)
Get(l) ==
  IF l.word_len = "eight" THEN l.display[l.x][At(l)] ELSE (Pair(l) \div 2^Shift(l)) % 64

(***************************************************************************)
(* The queue.                                                              *)
(***************************************************************************)
\* Faulty: the place is taken before it is stepped to.
EnqueueAfter(l) ==
  [l EXCEPT !.queue[l.front] = [x \in Rows |-> l.display[(x + l.z) % Height]],
            !.front = IF @ = 0 THEN Shades - 1 ELSE @ - 1]

\* A row of the display goes z rows up, around the top.  A place past the queue, to
\* which a word over front leads, is memory that is not modelled.
Place(l) == (IF l.front = 0 THEN Shades ELSE l.front) - 1
LCD_enqueue(l) ==
  LET row(x) == (x + Height - l.z) % Height
      picture == [x \in Rows |-> l.display[CHOOSE i \in Rows : row(i) = x]]
  IN [l EXCEPT !.front = Place(l),
               !.queue = [i \in Places |-> IF i = Place(l) THEN picture ELSE @[i]]]

\* The picture on the screen: the rows from z on.  What was asked for before front was
\* written over is found in the queue no more.
Picture(l) == [x \in Rows |-> l.display[(x + l.z) % Height]]
Latest(s) == SubSeq(s, 1, IF Len(s) < Shades THEN Len(s) ELSE Shades)
Asked(l, s) == IF Place(l) \in Places THEN Latest(<<Picture(l)>> \o s) ELSE <<>>
Becomes(l) == lcd' = l /\ UNCHANGED pictures
Shows(l) == lcd' = LCD_enqueue(l) /\ pictures' = Asked(l, pictures)

(***************************************************************************)
(* Port 10.  An access before lcd_delay has passed since the last write is *)
(* lost.                                                                   *)
(***************************************************************************)
MayAccess == accesses < Accesses /\ accesses' = accesses + 1
Ready == lcd.since = Delay
Written == [lcd EXCEPT !.since = 0]

SetActive(on) == Ready /\ Shows([Written EXCEPT !.active = on])
SetWord(size) == Ready /\ Becomes([Written EXCEPT !.word_len = size])
SetDirection(d) == Ready /\ Becomes([Written EXCEPT !.cursor_mode = d])
SetRow(x) == Ready /\ Becomes([Written EXCEPT !.x = x])
SetColumn(y) == Ready /\ Becomes([Written EXCEPT !.y = y])
SetTop(z) == Ready /\ Shows([Written EXCEPT !.z = z])

Command ==
  /\ MayAccess
  /\ \/ \E on \in BOOLEAN : SetActive(on)
     \/ \E size \in Sizes : SetWord(size)
     \/ \E d \in Directions : SetDirection(d)
     \/ \E x \in Rows : SetRow(x)
     \/ \E y \in Columns : SetColumn(y)
     \/ \E z \in Rows : SetTop(z)
     \/ ~Ready /\ UNCHANGED <<lcd, pictures>>

(***************************************************************************)
(* Port 11.                                                                *)
(***************************************************************************)
\* The picture of the frame before may be put into the queue first, or the one with
\* the new word after.
DataOut(word) ==
  LET put(l) == LCD_advance_cursor(Put(l, word))
      known(l, s) == IF put(l).front = l.front THEN s ELSE <<>>
      before == LCD_enqueue(Written)
  IN /\ MayAccess /\ Ready
     /\ \/ lcd' = put(Written) /\ pictures' = known(Written, pictures)
        \/ /\ lcd' = LCD_enqueue(put(Written))
           /\ pictures' = Asked(put(Written), known(Written, pictures))
        \/ lcd' = put(before) /\ pictures' = known(before, Asked(lcd, pictures))

\* What is read is what was under the cursor at the read before.
DataIn ==
  LET done == LCD_advance_cursor([lcd EXCEPT !.last_read = Get(lcd)])
  IN MayAccess /\ Ready /\ (Becomes(done) \/ Shows(done))

DataLost == MayAccess /\ ~Ready /\ UNCHANGED <<lcd, pictures>>

Time == /\ lcd.since < Delay
        /\ Becomes([lcd EXCEPT !.since = @ + 1]) /\ UNCHANGED accesses

Fresh == [active |-> FALSE, word_len |-> "eight", cursor_mode |-> "Y_UP", x |-> 0, y |-> 0,
          z |-> 0, last_read |-> 0, display |-> Blank, front |-> 0,
          queue |-> [i \in Places |-> Blank], since |-> Delay]
LCD_reset == /\ lcd' = [Fresh EXCEPT !.since = lcd.since]
             /\ pictures' = <<>> /\ UNCHANGED accesses

Init == lcd = Fresh /\ pictures = <<>> /\ accesses = 0
Next == Command \/ (\E word \in Words : DataOut(word)) \/ DataIn \/ DataLost \/ Time \/ LCD_reset
Spec == Init /\ [][Next]_vars

(***************************************************************************)
(* Properties.                                                             *)
(***************************************************************************)
Pixel(l, x, p) == (l.display[x][p \div 8] \div 2^(7 - (p % 8))) % 2
WordLength(l) == IF l.word_len = "six" THEN 6 ELSE 8

\* A word changes the pixels of its own column and row, and no other, to its bits.
\* Columns are counted around the row; a word that begins in a row and has no room in it
\* goes on in the next row, and on the last row out of the display.
CellWritten ==
  [][\A word \in Words :
       DataOut(word) /\ word < 2^WordLength(lcd) =>
         LET first == (lcd.y * WordLength(lcd)) % (8 * MemWidth)
             last == first + WordLength(lcd) - 1
             on(x, p) == IF x = lcd.x THEN p ELSE p + 8 * MemWidth
         IN \A x \in Rows, p \in 0..(8 * MemWidth - 1) :
              Pixel(lcd', x, p) = IF x \in {lcd.x, lcd.x + 1} /\ on(x, p) \in first..last
                                    THEN (word \div 2^(last - on(x, p))) % 2
                                    ELSE Pixel(lcd, x, p)]_vars

\* The queue holds the last pictures asked for, from front on, the newest first, unless a
\* word past the end of the display has written over front.
PicturesInOrder ==
  \A i \in 1..Len(pictures) : lcd.queue[(lcd.front + i - 1) % Shades] = pictures[i]
=============================================================================
