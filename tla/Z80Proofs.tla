----------------------------- MODULE Z80Proofs -----------------------------
(***************************************************************************)
(* The processor.  First the arithmetic of alu.c alone: the flags the      *)
(* masks of alu.h compute are the ones integer arithmetic asks for, for    *)
(* every byte, word and carry.  Then the instruction tables: every         *)
(* instruction, with any prefix, and every interrupt leave a processor,    *)
(* that is registers, memory and flags within their widths and no prefix.  *)
(* Then the two together: a step of the processor computes what its        *)
(* opcode promises.  Last, programs: decimal sums, and idle loops and      *)
(* block instructions under interrupts that never cease.                   *)
(***************************************************************************)
EXTENDS MCZ80, TLAPS, WellFoundedInduction

(***************************************************************************)
(* Addition, subtraction and the decimal adjustment.                       *)
(***************************************************************************)

\* A sum of two bytes and a carry has at most nine bits.
LEMMA SumBits ==
  ASSUME NEW r \in 0..511
  PROVE  /\ Has(r, 256) <=> r > 255
         /\ Low(r) = IF r > 255 THEN r - 256 ELSE r
         /\ Has(r, 128) <=> Low(r) >= 128
  BY DEF Has, Low

\* A difference of two bytes and a carry borrows at most once.
LEMMA DifferenceBits ==
  ASSUME NEW r \in -256..255
  PROVE  /\ Has(r, 256) <=> r < 0
         /\ Low(r) = IF r < 0 THEN r + 256 ELSE r
         /\ Has(r, 128) <=> Low(r) >= 128
  BY DEF Has, Low

\* The same for words.
LEMMA SumBits16 ==
  ASSUME NEW r \in Int, 0 <= r, r <= 131071
  PROVE  /\ Has(r, 65536) <=> r > 65535
         /\ Low16(r) = IF r > 65535 THEN r - 65536 ELSE r
         /\ Has(r, 32768) <=> Low16(r) >= 32768
  BY DEF Has, Low16

\* The same for words.
LEMMA DifferenceBits16 ==
  ASSUME NEW r \in Int, -65536 <= r, r <= 65535
  PROVE  /\ Has(r, 65536) <=> r < 0
         /\ Low16(r) = IF r < 0 THEN r + 65536 ELSE r
         /\ Has(r, 32768) <=> Low16(r) >= 32768
  BY DEF Has, Low16

\* ADD and ADC: result and flags are those of the sum, for every operand
\* (add_a_reg, add_a_num).
THEOREM AddRight ==
  ASSUME NEW a \in Byte, NEW b \in Byte, NEW c \in {0, 1}
  PROVE  AddMeaning(a, b, c, Add(a, b, c).r, Add(a, b, c).f)
<1> DEFINE r == a + b + c
           f == Add(a, b, c).f
<1>1. r \in 0..511 BY DEF Byte
<1>2. f = SignZero(r) \cup Copies(r) \cup HalfAdd(a, b, c) \cup OverAdd(a, b, r)
            \cup Carry9(r)
  BY DEF Add
<1>3. Add(a, b, c).r = Low(r) BY DEF Add
<1>4. "C" \in f <=> Has(r, 256)
  BY <1>2 DEF SignZero, Copies, HalfAdd, OverAdd, Carry9, On
<1>5. "H" \in f <=> Has((a % 16) + (b % 16) + c, 16)
  BY <1>2 DEF SignZero, Copies, HalfAdd, OverAdd, Carry9, On
<1>6. "P" \in f <=> (Has(a, 128) <=> Has(b, 128)) /\ ~(Has(a, 128) <=> Has(r, 128))
  BY <1>2 DEF SignZero, Copies, HalfAdd, OverAdd, Carry9, On
<1>7. /\ "Z" \in f <=> Low(r) = 0
      /\ "S" \in f <=> Has(r, 128)
      /\ "N" \notin f
  BY <1>2 DEF SignZero, Copies, HalfAdd, OverAdd, Carry9, On
<1>8. Has((a % 16) + (b % 16) + c, 16) <=> (a % 16) + (b % 16) + c > 15
  BY DEF Has, Byte
<1>9. /\ Has(a, 128) <=> a >= 128
      /\ Has(b, 128) <=> b >= 128
  BY DEF Has, Byte
<1>10. /\ Has(r, 256) <=> r > 255
       /\ Low(r) = IF r > 255 THEN r - 256 ELSE r
       /\ Has(r, 128) <=> Low(r) >= 128
  BY <1>1, SumBits
<1>11. "P" \in f <=> Signed(a) + Signed(b) + c \notin -128..127
  BY <1>6, <1>9, <1>10 DEF Signed, Byte
<1>12. Low(r) \in Byte /\ (Low(r) - r) % 256 = 0
  BY <1>1, <1>10 DEF Byte
<1> QED
  BY <1>3, <1>4, <1>5, <1>7, <1>8, <1>10, <1>11, <1>12 DEF AddMeaning, Signed, Byte

\* SUB, SBC and NEG: result and flags are those of the difference
\* (sub_a_reg, sub_a_num, neg).
THEOREM SubRight ==
  ASSUME NEW a \in Byte, NEW b \in Byte, NEW c \in {0, 1}
  PROVE  SubMeaning(a, b, c, Sub(a, b, c).r, Sub(a, b, c).f)
<1> DEFINE r == a - b - c
           f == Sub(a, b, c).f
<1>1. r \in -256..255 BY DEF Byte
<1>2. f = SignZero(r) \cup Copies(r) \cup HalfSub(a, b, c) \cup OverSub(a, b, r)
            \cup {"N"} \cup Carry9(r)
  BY DEF Sub
<1>3. Sub(a, b, c).r = Low(r) BY DEF Sub
<1>4. "C" \in f <=> Has(r, 256)
  BY <1>2 DEF SignZero, Copies, HalfSub, OverSub, Carry9, On
<1>5. "H" \in f <=> Has((a % 16) - (b % 16) - c, 16)
  BY <1>2 DEF SignZero, Copies, HalfSub, OverSub, Carry9, On
<1>6. "P" \in f <=> ~(Has(a, 128) <=> Has(b, 128)) /\ ~(Has(a, 128) <=> Has(r, 128))
  BY <1>2 DEF SignZero, Copies, HalfSub, OverSub, Carry9, On
<1>7. /\ "Z" \in f <=> Low(r) = 0
      /\ "S" \in f <=> Has(r, 128)
      /\ "N" \in f
  BY <1>2 DEF SignZero, Copies, HalfSub, OverSub, Carry9, On
<1>8. Has((a % 16) - (b % 16) - c, 16) <=> (a % 16) < (b % 16) + c
  BY DEF Has, Byte
<1>9. /\ Has(a, 128) <=> a >= 128
      /\ Has(b, 128) <=> b >= 128
  BY DEF Has, Byte
<1>10. /\ Has(r, 256) <=> r < 0
       /\ Low(r) = IF r < 0 THEN r + 256 ELSE r
       /\ Has(r, 128) <=> Low(r) >= 128
  BY <1>1, DifferenceBits
<1>11. "P" \in f <=> Signed(a) - Signed(b) - c \notin -128..127
  BY <1>6, <1>9, <1>10 DEF Signed, Byte
<1>12. Low(r) \in Byte /\ (Low(r) - r) % 256 = 0
  BY <1>1, <1>10 DEF Byte
<1> QED
  BY <1>3, <1>4, <1>5, <1>7, <1>8, <1>10, <1>11, <1>12 DEF SubMeaning, Signed, Byte

\* ADC HL (adc_hl_reg16).
THEOREM Adc16Right ==
  ASSUME NEW a \in Int, NEW b \in Int, NEW c \in {0, 1},
         Within(a, 0, 65535), Within(b, 0, 65535)
  PROVE  Add16Meaning(a, b, c, Adc16(a, b, c).r, Adc16(a, b, c).f)
<1> DEFINE r == a + b + c
           f == Adc16(a, b, c).f
<1>0. /\ a \in Int /\ 0 <= a /\ a <= 65535
      /\ b \in Int /\ 0 <= b /\ b <= 65535
  BY DEF Within
<1>1. r \in Int /\ 0 <= r /\ r <= 131071 BY <1>0
<1>2. f = SignZero16(r) \cup Copies(High(r)) \cup HalfAdd16(a, b, c) \cup OverAdd16(a, b, r)
            \cup Carry17(r)
  BY DEF Adc16
<1>3. Adc16(a, b, c).r = Low16(r) BY DEF Adc16
<1>4. "C" \in f <=> Has(r, 65536)
  BY <1>2 DEF SignZero16, Copies, HalfAdd16, OverAdd16, Carry17, On
<1>5. "H" \in f <=> Has((a % 4096) + (b % 4096) + c, 4096)
  BY <1>2 DEF SignZero16, Copies, HalfAdd16, OverAdd16, Carry17, On
<1>6. "P" \in f <=> (Has(a, 32768) <=> Has(b, 32768)) /\ ~(Has(a, 32768) <=> Has(r, 32768))
  BY <1>2 DEF SignZero16, Copies, HalfAdd16, OverAdd16, Carry17, On
<1>7. /\ "Z" \in f <=> Low16(r) = 0
      /\ "S" \in f <=> Has(r, 32768)
      /\ "N" \notin f
  BY <1>2 DEF SignZero16, Copies, HalfAdd16, OverAdd16, Carry17, On
<1>8. Has((a % 4096) + (b % 4096) + c, 4096) <=> (a % 4096) + (b % 4096) + c > 4095
  BY <1>0 DEF Has
<1>9. /\ Has(a, 32768) <=> a >= 32768
      /\ Has(b, 32768) <=> b >= 32768
  BY <1>0 DEF Has
<1>10. /\ Has(r, 65536) <=> r > 65535
       /\ Low16(r) = IF r > 65535 THEN r - 65536 ELSE r
       /\ Has(r, 32768) <=> Low16(r) >= 32768
  BY <1>1, SumBits16
<1>11. "P" \in f <=> ~Within(Signed16(a) + Signed16(b) + c, -32768, 32767)
  BY <1>0, <1>1, <1>6, <1>9, <1>10 DEF Signed16, Within
<1>12. Low16(r) \in Int /\ 0 <= Low16(r) /\ Low16(r) <= 65535
  BY <1>1, <1>10
<1>14. (Low16(r) - r) % 65536 = 0
  BY <1>1, <1>10
<1>15. "S" \in f <=> Signed16(Low16(r)) < 0
  BY <1>7, <1>10, <1>12 DEF Signed16
<1> QED
  <2> DEFINE w == Low16(r)
  <2>1. Within(w, 0, 65535) /\ (w - (a + b + c)) % 65536 = 0
    BY <1>12, <1>14 DEF Within
  <2>2. "C" \in f <=> a + b + c > 65535
    BY <1>0, <1>4, <1>10
  <2> HIDE DEF f, w
  <2>3. Add16Meaning(a, b, c, w, f)
    <3>1. "Z" \in f <=> w = 0 BY <1>7 DEF w
    <3>2. "S" \in f <=> Signed16(w) < 0 BY <1>15 DEF w
    <3>3. "H" \in f <=> (a % 4096) + (b % 4096) + c > 4095 BY <1>5, <1>8
    <3> QED BY <1>7, <1>11, <2>1, <2>2, <3>1, <3>2, <3>3 DEF Add16Meaning
  <2> QED BY <1>3, <2>3 DEF f, w

\* SBC HL (sbc_hl_reg16), whose overflow the source marks DOUBLE CHECK.
THEOREM Sbc16Right ==
  ASSUME NEW a \in Int, NEW b \in Int, NEW c \in {0, 1},
         Within(a, 0, 65535), Within(b, 0, 65535)
  PROVE  Sub16Meaning(a, b, c, Sbc16(a, b, c).r, Sbc16(a, b, c).f)
<1> DEFINE r == a - b - c
           f == Sbc16(a, b, c).f
<1>0. /\ a \in Int /\ 0 <= a /\ a <= 65535
      /\ b \in Int /\ 0 <= b /\ b <= 65535
  BY DEF Within
<1>1. r \in Int /\ -65536 <= r /\ r <= 65535 BY <1>0
<1>2. f = SignZero16(r) \cup Copies(High(r)) \cup HalfSub16(a, b, c) \cup OverSub16(a, b, r)
            \cup {"N"} \cup Carry17(r)
  BY DEF Sbc16
<1>3. Sbc16(a, b, c).r = Low16(r) BY DEF Sbc16
<1>4. "C" \in f <=> Has(r, 65536)
  BY <1>2 DEF SignZero16, Copies, HalfSub16, OverSub16, Carry17, On
<1>5. "H" \in f <=> Has((a % 4096) - (b % 4096) - c, 4096)
  BY <1>2 DEF SignZero16, Copies, HalfSub16, OverSub16, Carry17, On
<1>6. "P" \in f <=> ~(Has(a, 32768) <=> Has(b, 32768)) /\ ~(Has(a, 32768) <=> Has(r, 32768))
  BY <1>2 DEF SignZero16, Copies, HalfSub16, OverSub16, Carry17, On
<1>7. /\ "Z" \in f <=> Low16(r) = 0
      /\ "S" \in f <=> Has(r, 32768)
      /\ "N" \in f
  BY <1>2 DEF SignZero16, Copies, HalfSub16, OverSub16, Carry17, On
<1>8. Has((a % 4096) - (b % 4096) - c, 4096) <=> (a % 4096) < (b % 4096) + c
  BY <1>0 DEF Has
<1>9. /\ Has(a, 32768) <=> a >= 32768
      /\ Has(b, 32768) <=> b >= 32768
  BY <1>0 DEF Has
<1>10. /\ Has(r, 65536) <=> r < 0
       /\ Low16(r) = IF r < 0 THEN r + 65536 ELSE r
       /\ Has(r, 32768) <=> Low16(r) >= 32768
  BY <1>1, DifferenceBits16
<1>11. "P" \in f <=> ~Within(Signed16(a) - Signed16(b) - c, -32768, 32767)
  BY <1>0, <1>1, <1>6, <1>9, <1>10 DEF Signed16, Within
<1>12. Low16(r) \in Int /\ 0 <= Low16(r) /\ Low16(r) <= 65535
  BY <1>1, <1>10
<1>14. (Low16(r) - r) % 65536 = 0
  BY <1>1, <1>10
<1>15. "S" \in f <=> Signed16(Low16(r)) < 0
  BY <1>7, <1>10, <1>12 DEF Signed16
<1> QED
  <2> DEFINE w == Low16(r)
  <2>1. Within(w, 0, 65535) /\ (w - (a - b - c)) % 65536 = 0
    BY <1>12, <1>14 DEF Within
  <2>2. "C" \in f <=> a < b + c
    BY <1>0, <1>4, <1>10
  <2> HIDE DEF f, w
  <2>3. Sub16Meaning(a, b, c, w, f)
    <3>1. "Z" \in f <=> w = 0 BY <1>7 DEF w
    <3>2. "S" \in f <=> Signed16(w) < 0 BY <1>15 DEF w
    <3>3. "H" \in f <=> a % 4096 < (b % 4096) + c BY <1>5, <1>8
    <3> QED BY <1>7, <1>11, <2>1, <2>2, <3>1, <3>2, <3>3 DEF Sub16Meaning
  <2> QED BY <1>3, <2>3 DEF f, w

\* The decimal adjustment: after ADD or ADC of two decimal bytes DAA leaves the
\* decimal sum modulo 100, and its carry is the hundred (daa).
THEOREM DaaAfterAdd ==
  ASSUME NEW a \in Byte, NEW b \in Byte, NEW c \in {0, 1},
         IsDecimal(a), IsDecimal(b)
  PROVE  LET sum == Add(a, b, c)
             adj == Daa(sum.r, sum.f)
             exact == Decimal(a) + Decimal(b) + c
         IN /\ IsDecimal(adj.r)
            /\ Decimal(adj.r) = exact % 100
            /\ "C" \in adj.f <=> exact > 99
<1> DEFINE sum == Add(a, b, c)
           adj == Daa(sum.r, sum.f)
           half == "H" \in sum.f \/ sum.r % 16 > 9
           full == "C" \in sum.f \/ sum.r > 153
           by == (IF half THEN 6 ELSE 0) + (IF full THEN 96 ELSE 0)
<1>1. AddMeaning(a, b, c, sum.r, sum.f) BY AddRight
<1>2. adj.r = Low(sum.r + by) /\ ("C" \in adj.f <=> full)
  BY <1>1 DEF Daa, AddMeaning, SignZero, Copies, Parity, On
<1>3. PICK p \in 0..9, q \in 0..9 : a = 16 * p + q
  BY DEF IsDecimal, Byte
<1>4. PICK u \in 0..9, v \in 0..9 : b = 16 * u + v
  BY DEF IsDecimal, Byte
<1>5. a % 16 = q /\ b % 16 = v /\ a \div 16 = p /\ b \div 16 = u
  BY <1>3, <1>4
<1>6. sum.r \in Byte /\ sum.r = Low(a + b + c)
  BY <1>1 DEF Add, AddMeaning
<1>7. "H" \in sum.f <=> q + v + c > 15
  BY <1>1, <1>5 DEF AddMeaning
<1>8. "C" \in sum.f <=> a + b + c > 255
  BY <1>1 DEF AddMeaning
<1>9. half <=> q + v + c > 9
  BY <1>3, <1>4, <1>6, <1>7 DEF Low
<1>10. full <=> p + u + (IF q + v + c > 9 THEN 1 ELSE 0) > 9
  BY <1>3, <1>4, <1>6, <1>8 DEF Low
<1> DEFINE h == p + u + (IF q + v + c > 9 THEN 1 ELSE 0)
           l == IF q + v + c > 9 THEN q + v + c - 10 ELSE q + v + c
           k == IF h > 9 THEN h - 10 ELSE h
<1>11. h \in 0..19 /\ l \in 0..9 /\ k \in 0..9
  OBVIOUS
<1>12. a + b + c + by = 16 * h + l + (IF h > 9 THEN 96 ELSE 0)
  BY <1>3, <1>4, <1>9, <1>10
<1>13. Low(sum.r + by) = Low(a + b + c + by)
  <2> DEFINE t == a + b + c
  <2>1. t \in 0..511 BY DEF Byte
  <2>2. by \in 0..255 OBVIOUS
  <2>3. sum.r = Low(t) BY <1>6
  <2> HIDE DEF by, t, sum
  <2>4. Low(Low(t) + by) = Low(t + by)
    BY <2>1, <2>2 DEF Low
  <2> QED BY <2>3, <2>4 DEF t
<1>14. adj.r = 16 * k + l
  <2> HIDE DEF h, l, by, sum, adj
  <2>1. Low(16 * h + l + (IF h > 9 THEN 96 ELSE 0)) = 16 * k + l
    BY <1>11 DEF Low
  <2> QED BY <1>2, <1>12, <1>13, <2>1
<1>15. /\ adj.r % 16 = l
       /\ adj.r \div 16 = k
  <2> HIDE DEF h, l, k, adj
  <2> QED BY <1>11, <1>14
<1>16. Decimal(a) + Decimal(b) + c = 10 * h + l
  BY <1>3, <1>4, <1>5 DEF Decimal
<1>17. (10 * h + l) % 100 = 10 * k + l /\ (10 * h + l > 99 <=> h > 9)
  <2> HIDE DEF h, l
  <2> QED BY <1>11
<1>18. full <=> h > 9
  BY <1>10
<1>19. Decimal(adj.r) = 10 * k + l /\ IsDecimal(adj.r)
  <2> HIDE DEF h, l, k, adj
  <2> QED BY <1>11, <1>15 DEF Decimal, IsDecimal
<1> HIDE DEF h, l, k, full
<1> QED
  BY <1>2, <1>16, <1>17, <1>18, <1>19

\* After SUB or SBC of two decimal bytes DAA leaves the decimal difference
\* modulo 100, and its carry is the hundred that was borrowed (daa).
THEOREM DaaAfterSub ==
  ASSUME NEW a \in Byte, NEW b \in Byte, NEW c \in {0, 1},
         IsDecimal(a), IsDecimal(b)
  PROVE  LET dif == Sub(a, b, c)
             adj == Daa(dif.r, dif.f)
             exact == Decimal(a) - Decimal(b) - c
         IN /\ IsDecimal(adj.r)
            /\ Decimal(adj.r) = exact % 100
            /\ "C" \in adj.f <=> exact < 0
<1> DEFINE dif == Sub(a, b, c)
           adj == Daa(dif.r, dif.f)
           half == "H" \in dif.f \/ dif.r % 16 > 9
           full == "C" \in dif.f \/ dif.r > 153
           by == (IF half THEN 6 ELSE 0) + (IF full THEN 96 ELSE 0)
<1>1. SubMeaning(a, b, c, dif.r, dif.f) BY SubRight
<1>2. adj.r = Low(dif.r - by) /\ ("C" \in adj.f <=> full)
  BY <1>1 DEF Daa, SubMeaning, SignZero, Copies, Parity, On
<1>3. PICK p \in 0..9, q \in 0..9 : a = 16 * p + q
  BY DEF IsDecimal, Byte
<1>4. PICK u \in 0..9, v \in 0..9 : b = 16 * u + v
  BY DEF IsDecimal, Byte
<1>5. a % 16 = q /\ b % 16 = v /\ a \div 16 = p /\ b \div 16 = u
  BY <1>3, <1>4
<1>6. dif.r \in Byte /\ dif.r = Low(a - b - c)
  BY <1>1 DEF Sub, SubMeaning
<1>7. "H" \in dif.f <=> q < v + c
  BY <1>1, <1>5 DEF SubMeaning
<1>8. "C" \in dif.f <=> a < b + c
  BY <1>1 DEF SubMeaning
<1>9. half <=> q < v + c
  BY <1>3, <1>4, <1>6, <1>7 DEF Low
<1> DEFINE h == p - u - (IF q < v + c THEN 1 ELSE 0)
           l == IF q < v + c THEN q - v - c + 10 ELSE q - v - c
           k == IF h < 0 THEN h + 10 ELSE h
<1>10. full <=> h < 0
  BY <1>3, <1>4, <1>6, <1>8 DEF Low
<1>11. h \in -10..9 /\ l \in 0..9 /\ k \in 0..9
  OBVIOUS
<1>12. a - b - c - by = 16 * h + l - (IF h < 0 THEN 96 ELSE 0)
  BY <1>3, <1>4, <1>9, <1>10
<1>13. Low(dif.r - by) = Low(a - b - c - by)
  <2> DEFINE t == a - b - c
  <2>1. t \in -256..255 BY DEF Byte
  <2>2. by \in 0..255 OBVIOUS
  <2>3. dif.r = Low(t) BY <1>6
  <2> HIDE DEF by, t, dif
  <2>4. Low(Low(t) - by) = Low(t - by)
    BY <2>1, <2>2 DEF Low
  <2> QED BY <2>3, <2>4 DEF t
<1>14. adj.r = 16 * k + l
  <2> HIDE DEF h, l, by, dif, adj
  <2>1. Low(16 * h + l - (IF h < 0 THEN 96 ELSE 0)) = 16 * k + l
    BY <1>11 DEF Low
  <2> QED BY <1>2, <1>12, <1>13, <2>1
<1>15. /\ adj.r % 16 = l
       /\ adj.r \div 16 = k
  <2> HIDE DEF h, l, k, adj
  <2> QED BY <1>11, <1>14
<1>16. Decimal(a) - Decimal(b) - c = 10 * h + l
  BY <1>3, <1>4, <1>5 DEF Decimal
<1>17. (10 * h + l) % 100 = 10 * k + l /\ (10 * h + l < 0 <=> h < 0)
  <2> HIDE DEF h, l
  <2> QED BY <1>11
<1>18. full <=> h < 0
  BY <1>10
<1>19. Decimal(adj.r) = 10 * k + l /\ IsDecimal(adj.r)
  <2> HIDE DEF h, l, k, adj
  <2> QED BY <1>11, <1>15 DEF Decimal, IsDecimal
<1> HIDE DEF h, l, k, full
<1> QED
  BY <1>2, <1>16, <1>17, <1>18, <1>19

(***************************************************************************)
(* Widths.                                                                 *)
(***************************************************************************)
LEMMA WordIs == \A v : v \in Word <=> v \in Int /\ 0 <= v /\ v <= 65535
<1>1. ASSUME NEW v \in Int PROVE v \in Word <=> 0 <= v /\ v <= 65535
  BY DEF Word
<1>2. ASSUME NEW v \in Word PROVE v \in Int
  BY DEF Word
<1> QED BY <1>1, <1>2

LEMMA ByteIs == \A v : v \in Byte <=> v \in Int /\ 0 <= v /\ v <= 255
BY DEF Byte

LEMMA WordParts == \A w \in Word : High(w) \in Byte
<1> SUFFICES ASSUME NEW w \in Int, 0 <= w, w <= 65535 PROVE 0 <= w \div 256 /\ w \div 256 <= 255
  BY WordIs, ByteIs DEF High
<1> QED OBVIOUS

LEMMA WordOfParts == \A h \in Byte, l \in Byte : 256 * h + l \in Word /\ l + 256 * h \in Word
<1> SUFFICES ASSUME NEW h \in Int, 0 <= h, h <= 255, NEW l \in Int, 0 <= l, l <= 255
             PROVE  0 <= 256 * h + l /\ 256 * h + l <= 65535
  BY WordIs, ByteIs
<1> QED OBVIOUS

LEMMA Widths ==
  /\ \A v \in Int : Low(v) \in Byte /\ Low16(v) \in Word
  /\ \A w \in Word : High(w) \in Byte /\ w \in Int
  /\ \A h \in Byte, l \in Byte : 256 * h + l \in Word /\ l + 256 * h \in Word
  /\ \A b \in Byte : b \in Int /\ Signed(b) \in Int /\ Top(b) \in {0, 1}
<1>1. \A v \in Int : Low(v) \in Byte
  BY DEF Low, Byte
<1>2. \A v \in Int : Low16(v) \in Word
  BY DEF Low16, Word
<1>3. \A b \in Byte : b \in Int /\ Signed(b) \in Int /\ Top(b) \in {0, 1}
  BY DEF Signed, Top, Byte
<1> QED BY <1>1, <1>2, <1>3, WordParts, WordOfParts, WordIs

LEMMA FlagsAre == Flags = {"C", "N", "P", "F3", "H", "F5", "Z", "S"}
BY DEF Flags, Weight

LEMMA FlagByteIsByte == \A f : FlagByte(f) \in Byte
<1> SUFFICES ASSUME NEW f PROVE FlagByte(f) \in Byte
  OBVIOUS
<1> DEFINE Up(n, w) == Part(f, n) \in Int /\ 0 <= Part(f, n) /\ Part(f, n) <= w
<1>1. /\ Up("C", 1) /\ Up("N", 2) /\ Up("P", 4) /\ Up("F3", 8)
      /\ Up("H", 16) /\ Up("F5", 32) /\ Up("Z", 64) /\ Up("S", 128)
  BY DEF Part, Weight
<1> QED BY <1>1, ByteIs DEF FlagByte

LEMMA FlagsOfAreFlags == \A b : FlagsOf(b) \subseteq Flags
BY DEF FlagsOf

LEMMA MacrosAreFlags ==
  /\ \A v : /\ Copies(v) \subseteq Flags /\ SignZero(v) \subseteq Flags
            /\ Carry9(v) \subseteq Flags /\ Parity(v) \subseteq Flags
            /\ SignZero16(v) \subseteq Flags /\ Carry17(v) \subseteq Flags
  /\ \A a, b, c : /\ HalfAdd(a, b, c) \subseteq Flags /\ HalfSub(a, b, c) \subseteq Flags
                  /\ OverAdd(a, b, c) \subseteq Flags /\ OverSub(a, b, c) \subseteq Flags
                  /\ HalfAdd16(a, b, c) \subseteq Flags /\ HalfSub16(a, b, c) \subseteq Flags
                  /\ OverAdd16(a, b, c) \subseteq Flags /\ OverSub16(a, b, c) \subseteq Flags
<1> USE FlagsAre DEF On
<1>1. \A v : Copies(v) \subseteq Flags BY DEF Copies
<1>2. \A v : SignZero(v) \subseteq Flags BY DEF SignZero
<1>3. \A v : Carry9(v) \subseteq Flags /\ Carry17(v) \subseteq Flags BY DEF Carry9, Carry17
<1>4. \A v : Parity(v) \subseteq Flags BY DEF Parity
<1>5. \A v : SignZero16(v) \subseteq Flags BY DEF SignZero16
<1>6. \A a, b, c : HalfAdd(a, b, c) \subseteq Flags BY DEF HalfAdd
<1>7. \A a, b, c : HalfSub(a, b, c) \subseteq Flags BY DEF HalfSub
<1>8. \A a, b, c : OverAdd(a, b, c) \subseteq Flags BY DEF OverAdd
<1>9. \A a, b, c : OverSub(a, b, c) \subseteq Flags BY DEF OverSub
<1>10. \A a, b, c : HalfAdd16(a, b, c) \subseteq Flags BY DEF HalfAdd16
<1>11. \A a, b, c : HalfSub16(a, b, c) \subseteq Flags BY DEF HalfSub16
<1>12. \A a, b, c : OverAdd16(a, b, c) \subseteq Flags BY DEF OverAdd16
<1>13. \A a, b, c : OverSub16(a, b, c) \subseteq Flags BY DEF OverSub16
<1> QED
  BY <1>1, <1>2, <1>3, <1>4, <1>5, <1>6, <1>7, <1>8, <1>9, <1>10, <1>11, <1>12, <1>13

(* What an operation leaves: a byte, or a word, and flags. *)
IsOut(out) == out.r \in Byte /\ out.f \subseteq Flags
IsWideOut(out) == out.r \in Word /\ out.f \subseteq Flags

LEMMA CarryIsBit == \A f : CarryBit(f) \in {0, 1}
BY DEF CarryBit

LEMMA IsOutIf ==
  /\ \A r \in Int : \A f : f \subseteq Flags => IsOut([r |-> Low(r), f |-> f])
  /\ \A r \in Int : \A f : f \subseteq Flags => IsWideOut([r |-> Low16(r), f |-> f])
BY Widths DEF IsOut, IsWideOut

LEMMA AddIsOut == ASSUME NEW a \in Int, NEW b \in Int, NEW c \in Int PROVE IsOut(Add(a, b, c))
<1>1. Low(a + b + c) \in Byte
  BY Widths
<1>2. Add(a, b, c).f \subseteq Flags
  BY MacrosAreFlags DEF Add
<1> QED BY <1>1, <1>2 DEF Add, IsOut

LEMMA SubIsOut == ASSUME NEW a \in Int, NEW b \in Int, NEW c \in Int PROVE IsOut(Sub(a, b, c))
<1>1. Low(a - b - c) \in Byte
  BY Widths
<1>2. Sub(a, b, c).f \subseteq Flags
  BY MacrosAreFlags, FlagsAre DEF Sub
<1> QED BY <1>1, <1>2 DEF Sub, IsOut

LEMMA CompareIsOut == ASSUME NEW a \in Byte, NEW b PROVE IsOut(Compare(a, b))
<1>2. Compare(a, b).f \subseteq Flags
  BY MacrosAreFlags, FlagsAre DEF Compare
<1> QED BY <1>2 DEF Compare, IsOut

LEMMA IncIsOut ==
  ASSUME NEW v \in Int, NEW f, f \subseteq Flags PROVE IsOut(Inc(v, f)) /\ IsOut(Dec(v, f))
<1>1. Low(v + 1) \in Byte /\ Low(v - 1) \in Byte
  BY Widths
<1>2. Inc(v, f).f \subseteq Flags
  BY MacrosAreFlags, FlagsAre DEF Inc
<1>3. Dec(v, f).f \subseteq Flags
  BY MacrosAreFlags, FlagsAre DEF Dec
<1> QED BY <1>1, <1>2, <1>3 DEF Inc, Dec, IsOut

LEMMA LogicIsOut ==
  \A a, b : IsOut(AndA(a, b)) /\ IsOut(OrA(a, b)) /\ IsOut(XorA(a, b))
<1>1. \A r \in Byte : IsOut(Logic(r, {"H"})) /\ IsOut(Logic(r, {}))
  BY MacrosAreFlags, FlagsAre DEF IsOut, Logic
<1> QED BY <1>1, FlagByteIsByte DEF AndA, OrA, XorA, And, Or, Xor

LEMMA AccumulatorIsOut ==
  \A a \in Byte : \A f : f \subseteq Flags => IsOut(Cpl(a, f)) /\ IsOut(Daa(a, f))
<1> USE Widths, MacrosAreFlags, FlagsAre
<1> SUFFICES ASSUME NEW a \in Byte, NEW f, f \subseteq Flags
             PROVE  IsOut(Cpl(a, f)) /\ IsOut(Daa(a, f))
  OBVIOUS
<1>1. IsOut(Cpl(a, f))
  <2>1. 255 - a \in Byte
    BY DEF Byte
  <2> QED BY <2>1 DEF IsOut, Cpl
<1>2. IsOut(Daa(a, f))
  <2> DEFINE by == (IF "H" \in f \/ a % 16 > 9 THEN 6 ELSE 0)
                     + (IF "C" \in f \/ a > 153 THEN 96 ELSE 0)
             r  == IF "N" \in f THEN a - by ELSE a + by
  <2>1. a \in Int /\ by \in Int
    BY Widths
  <2>2. Daa(a, f).r = Low(r)
    BY DEF Daa
  <2>3. r \in Int
    <3> HIDE DEF by
    <3> QED BY <2>1
  <2> DEFINE h == On("H", Has(a, 16) # Has(r, 16))
             c == On("C", a > 153)
  <2>4. Daa(a, f).f = SignZero(r) \cup Copies(r) \cup Parity(r) \cup h
                        \cup (f \cap {"N", "C"}) \cup c
    BY DEF Daa
  <2> HIDE DEF r
  <2>5. h \subseteq Flags /\ c \subseteq Flags
    BY DEF On
  <2> HIDE DEF h, c
  <2> QED BY <2>2, <2>3, <2>4, <2>5 DEF IsOut
<1> QED BY <1>1, <1>2

LEMMA ShiftsAreOut ==
  \A v \in Byte : \A f :
     /\ IsOut(Rlc(v)) /\ IsOut(Rrc(v)) /\ IsOut(Rl(v, f)) /\ IsOut(Rr(v, f))
     /\ IsOut(Sla(v)) /\ IsOut(Sra(v)) /\ IsOut(Sll(v)) /\ IsOut(Srl(v))
<1>1. \A r \in Int : \A out : IsOut(Shifted(r, out))
  BY Widths, MacrosAreFlags, FlagsAre DEF IsOut, Shifted, On
<1> SUFFICES ASSUME NEW v \in Byte, NEW f
             PROVE  /\ IsOut(Rlc(v)) /\ IsOut(Rrc(v)) /\ IsOut(Rl(v, f)) /\ IsOut(Rr(v, f))
                    /\ IsOut(Sla(v)) /\ IsOut(Sra(v)) /\ IsOut(Sll(v)) /\ IsOut(Srl(v))
  OBVIOUS
<1>2. v \in Int /\ v \div 2 \in Int /\ v % 2 \in Int /\ Top(v) \in Int /\ CarryBit(f) \in Int
  <2>1. Top(v) \in {0, 1} /\ CarryBit(f) \in {0, 1} /\ v \in Int
    BY Widths, CarryIsBit
  <2> QED BY <2>1
<1>3. /\ 2 * v + Top(v) \in Int /\ (v \div 2) + 128 * (v % 2) \in Int
      /\ 2 * v + CarryBit(f) \in Int /\ (v \div 2) + 128 * CarryBit(f) \in Int
      /\ 2 * v \in Int /\ (v \div 2) + 128 * Top(v) \in Int /\ 2 * v + 1 \in Int
  BY <1>2
<1> QED BY <1>1, <1>2, <1>3 DEF Rlc, Rrc, Rl, Rr, Sla, Sra, Sll, Srl

LEMMA OnAIsOut ==
  \A v, f, out : f \subseteq Flags /\ IsOut(Shifted(v, out)) => IsOut(OnA(Shifted(v, out), f))
BY FlagsAre DEF IsOut, OnA, Shifted

LEMMA PlainFlags ==
  /\ \A a, f : f \subseteq Flags => Scf(a, f) \subseteq Flags /\ Ccf(a, f) \subseteq Flags
  /\ \A v, mask, seen, f : f \subseteq Flags => BitFlags(v, mask, seen, f) \subseteq Flags
  /\ \A v, f : f \subseteq Flags => ReadFlags(v, f) \subseteq Flags
<1> USE MacrosAreFlags, FlagsAre
<1>1. \A a, f : f \subseteq Flags => Scf(a, f) \subseteq Flags BY DEF Scf
<1>2. \A a, f : f \subseteq Flags => Ccf(a, f) \subseteq Flags BY DEF Ccf
<1>3. \A v, mask, seen, f : f \subseteq Flags => BitFlags(v, mask, seen, f) \subseteq Flags
  BY DEF BitFlags
<1>4. \A v, f : f \subseteq Flags => ReadFlags(v, f) \subseteq Flags BY DEF ReadFlags
<1> QED BY <1>1, <1>2, <1>3, <1>4

LEMMA WideIsOut ==
  ASSUME NEW a \in Int, NEW b \in Int, NEW c \in Int, NEW f, f \subseteq Flags
  PROVE  IsWideOut(Add16(a, b, f)) /\ IsWideOut(Adc16(a, b, c)) /\ IsWideOut(Sbc16(a, b, c))
<1> USE MacrosAreFlags, FlagsAre
<1>1. Low16(a + b) \in Word /\ Low16(a + b + c) \in Word /\ Low16(a - b - c) \in Word
  BY Widths
<1>2. Add16(a, b, f).f \subseteq Flags
  BY DEF Add16
<1>3. Adc16(a, b, c).f \subseteq Flags
  BY DEF Adc16
<1>4. Sbc16(a, b, c).f \subseteq Flags
  BY DEF Sbc16
<1> QED BY <1>1, <1>2, <1>3, <1>4 DEF IsWideOut, Add16, Adc16, Sbc16

(***************************************************************************)
(* A property of a processor that every instruction keeps: it is one, its index*)
(* is among those named, and, if it was so asked, it stays calm: no interrupt*)
(* is taken right after it.                                                *)
(***************************************************************************)
Calm(s) == s.ei_block \/ (~s.iff1 /\ ~s.iff2)
Kept(s, q) == IsProcessor(s) /\ s.index \in q.names /\ (q.calm => Calm(s))

LEMMA PeekIsByte == \A s : IsProcessor(s) => \A a : Peek(s, a) \in Byte
BY DEF IsProcessor, Peek, Byte

LEMMA Peek16IsWord == \A s : IsProcessor(s) => \A a : Peek16(s, a) \in Word
BY PeekIsByte, Widths DEF Peek16

LEMMA JumpToKept == ASSUME NEW s, NEW q, Kept(s, q), NEW a \in Word PROVE Kept(JumpTo(s, a), q)
BY DEF Kept, IsProcessor, Fields, JumpTo, Calm

LEMMA PastKept == ASSUME NEW s, NEW q, Kept(s, q), NEW n \in Int PROVE Kept(Past(s, n), q)
<1>0. s.pc \in Word
  BY DEF Kept, IsProcessor
<1>1. s.pc \in Int /\ s.pc + n \in Int
  BY <1>0, Widths
<1>2. Low16(s.pc + n) \in Word
  BY <1>1, Widths
<1> QED BY <1>2, JumpToKept DEF Past, JumpTo

LEMMA SetRegKept ==
  ASSUME NEW s, NEW q, Kept(s, q), NEW n \in Registers, NEW v \in Byte PROVE Kept(SetReg(s, n, v), q)
BY DEF Kept, IsProcessor, Fields, SetReg, Calm

LEMMA WithFlagsKept ==
  ASSUME NEW s, NEW q, Kept(s, q), NEW f, f \subseteq Flags PROVE Kept(WithFlags(s, f), q)
BY DEF Kept, IsProcessor, Fields, WithFlags, Calm

LEMMA PokeKept ==
  ASSUME NEW s, NEW q, Kept(s, q), NEW a \in Int, NEW v \in Byte PROVE Kept(Poke(s, a, v), q)
<1>1. Low16(a) \in Word
  BY Widths
<1>2. \A x \in DOMAIN s.mem : x \in Word /\ s.mem[x] \in Byte
  BY DEF Kept, IsProcessor
<1> DEFINE m == Put(s.mem, Low16(a), v)
<1>3. \A x \in DOMAIN m : x \in Word /\ m[x] \in Byte
  BY <1>1, <1>2 DEF Put
<1> HIDE DEF m
<1>4. Poke(s, a, v) = [s EXCEPT !.mem = m]
  BY DEF Poke, m
<1> QED BY <1>3, <1>4 DEF Kept, IsProcessor, Fields, Calm

LEMMA OutputKept ==
  ASSUME NEW s, NEW q, Kept(s, q), NEW p \in Byte, NEW v \in Byte PROVE Kept(Output(s, p, v), q)
<1> DEFINE t == Append(s.sent, <<p, v>>)
<1>1. t \in Seq(Byte \X Byte)
  BY DEF Kept, IsProcessor
<1> HIDE DEF t
<1>2. Output(s, p, v) = [s EXCEPT !.sent = t]
  BY DEF Output, t
<1> QED BY <1>1, <1>2 DEF Kept, IsProcessor, Fields, Calm

LEMMA HaltKept == ASSUME NEW s, NEW q, Kept(s, q) PROVE Kept(Halt(s), q)
BY DEF Kept, IsProcessor, Fields, Halt, Calm

LEMMA EnableKept == ASSUME NEW s, NEW q, Kept(s, q) PROVE Kept(Enable(s), q)
BY DEF Kept, IsProcessor, Fields, Enable, Calm

LEMMA DisableKept == ASSUME NEW s, NEW q, Kept(s, q) PROVE Kept(Disable(s), q)
BY DEF Kept, IsProcessor, Fields, Disable, Calm

LEMMA SwappedKept == ASSUME NEW s, NEW q, Kept(s, q) PROVE Kept(Swapped(s), q)
<1>1. FlagByte(s.f) \in Byte /\ FlagsOf(s.alt["f"]) \subseteq Flags
  BY FlagByteIsByte, FlagsOfAreFlags
<1> DEFINE b == FlagByte(s.f)
           g == FlagsOf(s.alt["f"])
<1>2. Swapped(s) = [s EXCEPT !.reg["a"] = s.alt["a"], !.f = g,
                             !.alt["a"] = s.reg["a"], !.alt["f"] = b]
  BY DEF Swapped
<1> HIDE DEF b, g
<1>3. b \in Byte /\ g \subseteq Flags
  BY <1>1 DEF b, g
<1> QED BY <1>2, <1>3 DEF Kept, IsProcessor, Fields, Registers, Calm

LEMMA ExxKept == ASSUME NEW s, NEW q, Kept(s, q) PROVE Kept(Exx(s), q)
<1> DEFINE x == Over(s.alt, s.reg)
           y == Over(s.reg, s.alt)
<1>1. x \in [Registers -> Byte] /\ y \in [Shadowed \cup {"a", "f"} -> Byte]
  BY DEF Kept, IsProcessor, Over, Registers, Shadowed
<1>2. Exx(s) = [s EXCEPT !.reg = x, !.alt = y]
  BY DEF Exx
<1> HIDE DEF x, y
<1> QED BY <1>1, <1>2 DEF Kept, IsProcessor, Fields, Calm

Pairs == {"bc", "de", "hl", "ix", "iy", "sp", "af"}

LEMMA PairIsWord == ASSUME NEW s, IsProcessor(s), NEW p \in Pairs PROVE Pair(s, p) \in Word
<1>1. CASE p = "sp"
  BY <1>1 DEF Pair, IsProcessor
<1>2. CASE p = "af"
  BY <1>2, FlagByteIsByte, Widths DEF Pair, IsProcessor, Registers
<1>3. CASE p \in {"bc", "de", "hl", "ix", "iy"}
  <2>1. Halves[p][1] \in Registers /\ Halves[p][2] \in Registers
    BY <1>3 DEF Halves, Registers
  <2>2. s.reg[Halves[p][1]] \in Byte /\ s.reg[Halves[p][2]] \in Byte
    BY <2>1 DEF IsProcessor
  <2>3. Pair(s, p) = 256 * s.reg[Halves[p][1]] + s.reg[Halves[p][2]]
    BY <1>3 DEF Pair
  <2> QED BY <2>2, <2>3, Widths
<1> QED BY <1>1, <1>2, <1>3 DEF Pairs

LEMMA SetPairKept ==
  ASSUME NEW s, NEW q, Kept(s, q), NEW p \in Pairs, NEW w \in Word PROVE Kept(SetPair(s, p, w), q)
<1>1. CASE p = "sp"
  BY <1>1 DEF SetPair, Kept, IsProcessor, Fields, Calm
<1>2. High(w) \in Byte /\ Low(w) \in Byte /\ FlagsOf(Low(w)) \subseteq Flags
  BY Widths, FlagsOfAreFlags
<1>3. CASE p = "af"
  <2>1. Kept(SetReg(s, "a", High(w)), q)
    BY <1>2, SetRegKept DEF Registers
  <2>2. SetPair(s, p, w) = WithFlags(SetReg(s, "a", High(w)), FlagsOf(Low(w)))
    BY <1>3 DEF SetPair, WithFlags
  <2> QED BY <1>2, <2>1, <2>2, WithFlagsKept
<1>4. CASE p \in {"bc", "de", "hl", "ix", "iy"}
  <2>1. Halves[p][1] \in Registers /\ Halves[p][2] \in Registers
    BY <1>4 DEF Halves, Registers
  <2>2. SetPair(s, p, w) = SetReg(SetReg(s, Halves[p][1], High(w)), Halves[p][2], Low(w))
    BY <1>4 DEF SetPair
  <2> QED BY <1>2, <2>1, <2>2, SetRegKept
<1> QED BY <1>1, <1>3, <1>4 DEF Pairs

LEMMA MovedKept ==
  ASSUME NEW s, NEW q, Kept(s, q), NEW p \in Pairs, NEW by \in Int PROVE Kept(Moved(s, p, by), q)
<1>1. Pair(s, p) \in Word
  BY PairIsWord DEF Kept
<1>2. Pair(s, p) + by \in Int
  BY <1>1, Widths
<1> QED BY <1>2, Widths, SetPairKept DEF Moved

LEMMA PushedKept == ASSUME NEW s, NEW q, Kept(s, q), NEW w \in Word PROVE Kept(Pushed(s, w), q)
<1>1. s.sp \in Word
  BY DEF Kept, IsProcessor
<1>2. s.sp \in Int /\ s.sp - 2 \in Int /\ s.sp - 2 + 1 \in Int
  <2>1. s.sp \in Int
    BY <1>1, Widths
  <2> QED BY <2>1
<1> DEFINE t == SetPair(s, "sp", Low16(s.sp - 2))
<1>3. Kept(t, q)
  BY <1>2, Widths, SetPairKept DEF Pairs
<1>4. Pushed(s, w) = Poke(Poke(t, s.sp - 2, Low(w)), s.sp - 2 + 1, High(w))
  BY DEF Pushed, Poke16, SetPair
<1> HIDE DEF t
<1>5. High(w) \in Byte /\ Low(w) \in Byte
  BY Widths
<1> QED BY <1>2, <1>3, <1>4, <1>5, PokeKept

LEMMA PoppedKept == ASSUME NEW s, NEW q, Kept(s, q) PROVE Kept(Popped(s), q)
<1>1. s.sp \in Word
  BY DEF Kept, IsProcessor
<1>2. Low16(s.sp + 2) \in Word
  <2>1. s.sp \in Int
    BY <1>1, Widths
  <2>2. s.sp + 2 \in Int
    BY <2>1
  <2> QED BY <2>2, Widths
<1>3. Popped(s) = SetPair(s, "sp", Low16(s.sp + 2))
  BY DEF Popped, SetPair
<1> QED BY <1>2, <1>3, SetPairKept DEF Pairs

LEMMA Poke16Kept ==
  ASSUME NEW s, NEW q, Kept(s, q), NEW a \in Int, NEW w \in Word PROVE Kept(Poke16(s, a, w), q)
<1>1. High(w) \in Byte /\ Low(w) \in Byte /\ a + 1 \in Int
  BY Widths
<1> QED BY <1>1, PokeKept DEF Poke16

LEMMA TopIsWord == \A s : IsProcessor(s) => TopWord(s) \in Word
BY Peek16IsWord DEF TopWord

LEMMA NumberIsByte == \A s : IsProcessor(s) => Number8(s) \in Byte /\ Number16(s) \in Word /\ Opcode(s) \in Byte
BY PeekIsByte, Peek16IsWord DEF Number8, Number16, Opcode

LEMMA RefreshIsByte == \A r \in Byte, n \in Nat : 128 * Top(r) + ((r + n) % 128) \in Byte
<1> SUFFICES ASSUME NEW r \in Byte, NEW n \in Nat PROVE 128 * Top(r) + ((r + n) % 128) \in Byte
  OBVIOUS
<1>1. r \in Int /\ Top(r) \in {0, 1}
  BY Widths
<1>2. (r + n) % 128 \in 0..127
  BY <1>1
<1> DEFINE m == (r + n) % 128
<1> HIDE DEF m
<1>3. 128 * Top(r) + m \in Byte
  BY <1>1, <1>2 DEF m, Byte
<1> QED BY <1>3 DEF m

LEMMA RefreshedKept ==
  ASSUME NEW s, NEW q, Kept(s, q), NEW v \in Byte PROVE Kept([s EXCEPT !.r = v], q)
BY DEF Kept, IsProcessor, Fields, Calm

LEMMA FetchedKept == ASSUME NEW s, NEW q, Kept(s, q) PROVE Kept(Fetched(s), q)
<1> DEFINE t == Past(s, 1)
<1>1. Kept(t, q)
  BY PastKept
<1> DEFINE v == 128 * Top(t.r) + ((t.r + 1) % 128)
<1>2. Fetched(s) = [t EXCEPT !.r = v]
  BY DEF Fetched
<1> HIDE DEF t
<1>3. v \in Byte
  BY <1>1, RefreshIsByte DEF Kept, IsProcessor
<1> HIDE DEF v
<1> QED BY <1>1, <1>2, <1>3, RefreshedKept

LEMMA IndexedBy ==
  ASSUME NEW s, NEW q, NEW p, Kept(s, q), p.calm = q.calm, NEW x \in {"hl", "ix", "iy"}, x \in p.names
  PROVE  Kept([s EXCEPT !.index = x], p)
BY DEF Kept, IsProcessor, Fields, Calm

(***************************************************************************)
(* The fields of an opcode.                                                *)
(***************************************************************************)
LEMMA OpcodeParts ==
  \A op \in Byte : /\ op \in Int /\ X(op) \in 0..3 /\ Y(op) \in 0..7 /\ Z(op) \in 0..7 /\ P(op) \in 0..3
                   /\ op = 64 * X(op) + 8 * Y(op) + Z(op)
BY DEF X, Y, Z, P, Byte

LEMMA Names ==
  /\ \A n \in 0..7 : n # 6 => PlainName(n) \in Registers
  /\ \A s : s.index \in {"hl", "ix", "iy"} =>
       /\ \A n \in 0..7 : n # 6 => Name(s, n) \in Registers
       /\ \A n \in 0..3 : PairName(s, n) \in Pairs /\ StackName(s, n) \in Pairs
       /\ s.index \in Pairs
<1>1. \A n \in 0..7 : n # 6 => PlainName(n) \in Registers
  BY DEF PlainName, Registers
<1>2. ASSUME NEW s, s.index \in {"hl", "ix", "iy"}, NEW n \in 0..7, n # 6 PROVE Name(s, n) \in Registers
  <2>1. Halves[s.index][1] \in Registers /\ Halves[s.index][2] \in Registers
    BY <1>2 DEF Halves, Registers
  <2> QED BY <1>2, <2>1 DEF Name, Registers
<1>3. ASSUME NEW s, s.index \in {"hl", "ix", "iy"}, NEW n \in 0..3
      PROVE  PairName(s, n) \in Pairs /\ StackName(s, n) \in Pairs
  BY <1>3 DEF PairName, StackName, Pairs
<1> QED BY <1>1, <1>2, <1>3 DEF Pairs

LEMMA PlaceIsWord == \A s : IsProcessor(s) => Place(s) \in Word
<1> SUFFICES ASSUME NEW s, IsProcessor(s) PROVE Place(s) \in Word
  OBVIOUS
<1>1. Pair(s, s.index) \in Word /\ Pair(s, "hl") \in Word
  BY PairIsWord DEF IsProcessor, Pairs
<1>2. Signed(Number8(s)) \in Int
  BY NumberIsByte, Widths
<1>3. Pair(s, s.index) + Signed(Number8(s)) \in Int
  BY <1>1, <1>2, Widths
<1> QED BY <1>1, <1>3, Widths DEF Place

LEMMA OperandIsByte == ASSUME NEW s, IsProcessor(s), NEW n \in 0..7 PROVE Operand(s, n) \in Byte
<1>1. n # 6 => Name(s, n) \in Registers
  BY Names DEF IsProcessor
<1> QED BY <1>1, PeekIsByte DEF Operand, IsProcessor

LEMMA PastPlaceKept == ASSUME NEW s, NEW q, Kept(s, q) PROVE Kept(PastPlace(s), q)
BY PastKept DEF PastPlace

LEMMA PastOperandKept == ASSUME NEW s, NEW q, Kept(s, q), NEW n PROVE Kept(PastOperand(s, n), q)
BY PastPlaceKept DEF PastOperand

LEMMA SetOperandKept ==
  ASSUME NEW s, NEW q, Kept(s, q), NEW n \in 0..7, NEW v \in Byte PROVE Kept(SetOperand(s, n, v), q)
<1>1. n # 6 => Name(s, n) \in Registers
  BY Names DEF Kept, IsProcessor
<1>2. Place(s) \in Int
  BY PlaceIsWord, Widths DEF Kept
<1> QED BY <1>1, <1>2, PastPlaceKept, PokeKept, SetRegKept DEF SetOperand

LEMMA OnAccKept == ASSUME NEW s, NEW q, Kept(s, q), NEW out, IsOut(out) PROVE Kept(OnAcc(s, out), q)
BY SetRegKept, WithFlagsKept DEF OnAcc, IsOut, Registers

(***************************************************************************)
(* Opcodes 80 to BF, and 40 to 7F.                                         *)
(***************************************************************************)
LEMMA AccumulateKept ==
  ASSUME NEW s, NEW q, Kept(s, q), NEW y \in 0..7, NEW v \in Byte PROVE Kept(Accumulate(s, y, v), q)
<1> DEFINE a == s.reg["a"]
           c == CarryBit(s.f)
<1>1. a \in Byte /\ c \in {0, 1} /\ "a" \in Registers
  BY CarryIsBit DEF Kept, IsProcessor, Registers
<1>2. a \in Int /\ c \in Int /\ v \in Int /\ 0 \in Int
  <2>1. a \in Int /\ v \in Int
    BY <1>1, Widths
  <2>2. c \in Int
    BY <1>1
  <2> QED BY <2>1, <2>2
<1>3. IsOut(Add(a, v, 0)) /\ IsOut(Add(a, v, c)) /\ IsOut(Sub(a, v, 0)) /\ IsOut(Sub(a, v, c))
  BY <1>2, AddIsOut, SubIsOut
<1>4. Kept(AddA(s, v, 0), q) /\ Kept(AddA(s, v, c), q) /\ Kept(SubA(s, v, 0), q) /\ Kept(SubA(s, v, c), q)
  BY <1>3, OnAccKept DEF AddA, SubA
<1>5. Kept(OnAcc(s, AndA(a, v)), q) /\ Kept(OnAcc(s, XorA(a, v)), q) /\ Kept(OnAcc(s, OrA(a, v)), q)
  BY LogicIsOut, OnAccKept
<1>6. Kept(CompareA(s, v), q)
  BY <1>1, CompareIsOut, WithFlagsKept DEF CompareA, IsOut
<1>7. y \in {0, 1, 2, 3, 4, 5, 6, 7}
  OBVIOUS
<1> QED BY <1>4, <1>5, <1>6, <1>7 DEF Accumulate

LEMMA ArithmeticKept ==
  ASSUME NEW s, NEW q, Kept(s, q), NEW op \in Byte
  PROVE  Kept(Arithmetic(s, op), q) /\ Kept(ArithmeticNumber(s, op), q)
<1>1. Y(op) \in 0..7 /\ Z(op) \in 0..7
  BY OpcodeParts
<1>2. Operand(s, Z(op)) \in Byte /\ Number8(s) \in Byte
  BY <1>1, OperandIsByte, NumberIsByte DEF Kept
<1>3. Kept(PastOperand(s, Z(op)), q) /\ Kept(Past(s, 1), q)
  BY PastOperandKept, PastKept
<1> QED BY <1>1, <1>2, <1>3, AccumulateKept DEF Arithmetic, ArithmeticNumber

LEMMA LoadOrHaltKept ==
  ASSUME NEW s, NEW q, Kept(s, q), NEW op \in Byte, X(op) = 1 PROVE Kept(LoadOrHalt(s, op), q)
<1>1. Y(op) \in 0..7 /\ Z(op) \in 0..7 /\ op = 64 * 1 + 8 * Y(op) + Z(op)
  BY OpcodeParts
<1>2. CASE op = 118
  BY <1>2, HaltKept DEF LoadOrHalt
<1>3. CASE op # 118
  <2>1. ~(Y(op) = 6 /\ Z(op) = 6)
    BY <1>1, <1>3
  <2>2. Operand(s, Z(op)) \in Byte /\ Operand(s, 6) \in Byte
    BY <1>1, OperandIsByte DEF Kept
  <2>3. Kept(SetOperand(s, Y(op), Operand(s, Z(op))), q)
    BY <1>1, <2>2, SetOperandKept
  <2>4. ASSUME Y(op) = 6 PROVE Kept(SetOperand(s, 6, s.reg[PlainName(Z(op))]), q)
    <3>1. PlainName(Z(op)) \in Registers
      BY <1>1, <2>1, <2>4, Names
    <3>2. s.reg[PlainName(Z(op))] \in Byte
      BY <3>1 DEF Kept, IsProcessor
    <3> QED BY <3>2, SetOperandKept
  <2>5. ASSUME Z(op) = 6 PROVE Kept(SetReg(PastPlace(s), PlainName(Y(op)), Operand(s, 6)), q)
    BY <1>1, <2>1, <2>2, <2>5, Names, PastPlaceKept, SetRegKept
  <2>6. LoadOrHalt(s, op) = LoadRegister(s, op)
    BY <1>3 DEF LoadOrHalt
  <2>7. CASE Y(op) = 6 /\ Indexed(s)
    BY <2>1, <2>4, <2>6, <2>7 DEF LoadRegister
  <2>8. CASE ~(Y(op) = 6 /\ Indexed(s)) /\ Z(op) = 6 /\ Indexed(s)
    BY <2>5, <2>6, <2>8 DEF LoadRegister
  <2>9. CASE ~(Y(op) = 6 /\ Indexed(s)) /\ ~(Z(op) = 6 /\ Indexed(s))
    BY <2>3, <2>6, <2>9 DEF LoadRegister
  <2> QED BY <2>7, <2>8, <2>9
<1> QED BY <1>2, <1>3

(***************************************************************************)
(* Opcodes 00 to 3F.                                                       *)
(***************************************************************************)
LEMMA CountKept ==
  ASSUME NEW s, NEW q, Kept(s, q), NEW op \in Byte PROVE Kept(IncReg8(s, op), q) /\ Kept(DecReg8(s, op), q)
<1>1. Y(op) \in 0..7
  BY OpcodeParts
<1> DEFINE v == Operand(s, Y(op))
<1>2. v \in Int /\ s.f \subseteq Flags
  BY <1>1, OperandIsByte, Widths DEF Kept, IsProcessor
<1>3. IsOut(Inc(v, s.f)) /\ IsOut(Dec(v, s.f))
  BY <1>2, IncIsOut
<1>4. Kept(SetOperand(s, Y(op), Inc(v, s.f).r), q) /\ Kept(SetOperand(s, Y(op), Dec(v, s.f).r), q)
  BY <1>1, <1>3, SetOperandKept DEF IsOut
<1> QED BY <1>3, <1>4, WithFlagsKept DEF IncReg8, DecReg8, IsOut

LEMMA LoadNumber8Kept == ASSUME NEW s, NEW q, Kept(s, q), NEW op \in Byte PROVE Kept(LoadNumber8(s, op), q)
<1>1. Y(op) \in 0..7
  BY OpcodeParts
<1>2. Number8(s) \in Byte /\ Peek(s, Low16(s.pc + 1)) \in Byte /\ Place(s) \in Int
  BY NumberIsByte, PeekIsByte, PlaceIsWord, Widths DEF Kept
<1>3. Kept(SetOperand(Past(s, 1), Y(op), Number8(s)), q)
  <2>1. Kept(Past(s, 1), q)
    BY PastKept
  <2> QED BY <1>1, <1>2, <2>1, SetOperandKept
<1>4. Kept(Past(Poke(s, Place(s), Peek(s, Low16(s.pc + 1))), 2), q)
  BY <1>2, PokeKept, PastKept
<1> QED BY <1>3, <1>4 DEF LoadNumber8

LEMMA Wide1Kept ==
  ASSUME NEW s, NEW q, Kept(s, q), NEW op \in Byte
  PROVE  /\ Kept(LoadNumber16(s, op), q) /\ Kept(AddToIndex(s, op), q)
         /\ Kept(IncReg16(s, op), q) /\ Kept(DecReg16(s, op), q)
<1> DEFINE p == PairName(s, P(op))
<1>1. p \in Pairs /\ s.index \in Pairs
  <2>1. P(op) \in 0..3 /\ s.index \in {"hl", "ix", "iy"}
    BY OpcodeParts DEF Kept, IsProcessor
  <2> QED BY <2>1, Names
<1> HIDE DEF p
<1>2. Kept(SetPair(Past(s, 2), p, Number16(s)), q)
  <2>1. Kept(Past(s, 2), q) /\ Number16(s) \in Word
    BY PastKept, NumberIsByte DEF Kept
  <2> QED BY <1>1, <2>1, SetPairKept
<1>3. Pair(s, p) \in Int /\ Pair(s, s.index) \in Int /\ s.f \subseteq Flags
  BY <1>1, PairIsWord, Widths DEF Kept, IsProcessor
<1>4. IsWideOut(Add16(Pair(s, s.index), Pair(s, p), s.f))
  BY <1>3, WideIsOut
<1>5. Kept(WithFlags(SetPair(s, s.index, Add16(Pair(s, s.index), Pair(s, p), s.f).r),
                     Add16(Pair(s, s.index), Pair(s, p), s.f).f), q)
  BY <1>1, <1>4, SetPairKept, WithFlagsKept DEF IsWideOut
<1>6. Kept(Moved(s, p, 1), q) /\ Kept(Moved(s, p, -1), q)
  BY <1>1, MovedKept
<1> QED BY <1>2, <1>5, <1>6 DEF LoadNumber16, AddToIndex, IncReg16, DecReg16, p

LEMMA JumpNearKept == ASSUME NEW s, NEW q, Kept(s, q) PROVE Kept(JumpNear(s), q)
<1>1. Signed(Number8(s)) \in Int /\ s.pc \in Int
  BY NumberIsByte, Widths DEF Kept, IsProcessor
<1>2. s.pc + 1 + Signed(Number8(s)) \in Int
  BY <1>1
<1> QED BY <1>2, Widths, JumpToKept DEF JumpNear

LEMMA DjnzKept == ASSUME NEW s, NEW q, Kept(s, q) PROVE Kept(Djnz(s), q)
<1>1. s.reg["b"] \in Int
  BY Widths DEF Kept, IsProcessor, Registers
<1>2. s.reg["b"] - 1 \in Int
  BY <1>1
<1>3. Kept(SetReg(s, "b", Low(s.reg["b"] - 1)), q)
  BY <1>2, Widths, SetRegKept DEF Registers
<1> QED BY <1>3, JumpNearKept, PastKept DEF Djnz

LEMMA Column0Kept == ASSUME NEW s, NEW q, Kept(s, q), NEW op PROVE Kept(Column0(s, op), q)
<1>1. Kept(JumpNearIf(s, op), q)
  BY JumpNearKept, PastKept DEF JumpNearIf
<1> QED BY <1>1, SwappedKept, DjnzKept, JumpNearKept DEF Column0

LEMMA Column2Kept ==
  ASSUME NEW s, NEW q, Kept(s, q), NEW op \in Byte, X(op) = 0, Z(op) = 2 PROVE Kept(Column2(s, op), q)
<1>1. op \in {2, 10, 18, 26, 34, 42, 50, 58}
  <2>1. Y(op) \in 0..7 /\ op = 64 * 0 + 8 * Y(op) + 2
    BY OpcodeParts
  <2> QED BY <2>1
<1>2. ASSUME NEW t, Kept(t, q), NEW a \in Word PROVE Kept(StoreA(t, a), q) /\ Kept(LoadA(t, a), q)
  <2>1. a \in Int /\ t.reg["a"] \in Byte /\ Peek(t, a) \in Byte
    BY <1>2, Widths, PeekIsByte DEF Kept, IsProcessor, Registers
  <2> QED BY <1>2, <2>1, PokeKept, SetRegKept DEF StoreA, LoadA, Registers
<1>3. /\ Pair(s, "bc") \in Word /\ Pair(s, "de") \in Word /\ Number16(s) \in Word
      /\ Pair(s, s.index) \in Word /\ s.index \in Pairs
  BY PairIsWord, NumberIsByte DEF Pairs, Kept, IsProcessor
<1>4. Kept(Past(s, 2), q)
  BY PastKept
<1>5. Kept(StoreIndex(s), q)
  <2>1. Number16(s) \in Int
    BY <1>3, Widths
  <2>2. Kept(Poke16(s, Number16(s), Pair(s, s.index)), q)
    BY <1>3, <2>1, Poke16Kept
  <2> QED BY <2>2, PastKept DEF StoreIndex
<1>6. Kept(LoadIndex(s), q)
  BY <1>3, <1>4, Peek16IsWord, SetPairKept DEF LoadIndex, Kept
<1> QED BY <1>1, <1>2, <1>3, <1>4, <1>5, <1>6 DEF Column2

LEMMA Column7Kept ==
  ASSUME NEW s, NEW q, Kept(s, q), NEW op \in Byte, X(op) = 0, Z(op) = 7 PROVE Kept(Column7(s, op), q)
<1>1. op \in {7, 15, 23, 31, 39, 47, 55, 63}
  <2>1. Y(op) \in 0..7 /\ op = 64 * 0 + 8 * Y(op) + 7
    BY OpcodeParts
  <2> QED BY <2>1
<1> DEFINE a == s.reg["a"]
<1>2. a \in Byte /\ s.f \subseteq Flags
  BY DEF Kept, IsProcessor, Registers
<1>3. IsOut(Daa(a, s.f)) /\ IsOut(Cpl(a, s.f))
  BY <1>2, AccumulatorIsOut
<1>4. /\ IsOut(OnA(Rlc(a), s.f)) /\ IsOut(OnA(Rrc(a), s.f))
      /\ IsOut(OnA(Rl(a, s.f), s.f)) /\ IsOut(OnA(Rr(a, s.f), s.f))
  BY <1>2, ShiftsAreOut, OnAIsOut DEF Rlc, Rrc, Rl, Rr
<1>5. Scf(a, s.f) \subseteq Flags /\ Ccf(a, s.f) \subseteq Flags
  BY <1>2, PlainFlags
<1>6. /\ Kept(OnAcc(s, OnA(Rlc(a), s.f)), q) /\ Kept(OnAcc(s, OnA(Rrc(a), s.f)), q)
      /\ Kept(OnAcc(s, OnA(Rl(a, s.f), s.f)), q) /\ Kept(OnAcc(s, OnA(Rr(a, s.f), s.f)), q)
      /\ Kept(OnAcc(s, Daa(a, s.f)), q) /\ Kept(OnAcc(s, Cpl(a, s.f)), q)
  BY <1>3, <1>4, OnAccKept
<1>7. Kept(WithFlags(s, Scf(a, s.f)), q) /\ Kept(WithFlags(s, Ccf(a, s.f)), q)
  BY <1>5, WithFlagsKept
<1> QED BY <1>1, <1>6, <1>7 DEF Column7

LEMMA FirstQuarterKept ==
  ASSUME NEW s, NEW q, Kept(s, q), NEW op \in Byte, X(op) = 0 PROVE Kept(FirstQuarter(s, op), q)
<1>1. Z(op) \in {0, 1, 2, 3, 4, 5, 6, 7} /\ Y(op) % 2 \in {0, 1}
  <2>1. Z(op) \in 0..7 /\ Y(op) \in 0..7
    BY OpcodeParts
  <2> QED BY <2>1
<1>2. CASE Z(op) = 0 BY <1>2, Column0Kept DEF FirstQuarter
<1>3. CASE Z(op) = 1 BY <1>1, <1>3, Wide1Kept DEF FirstQuarter
<1>4. CASE Z(op) = 2 BY <1>4, Column2Kept DEF FirstQuarter
<1>5. CASE Z(op) = 3 BY <1>1, <1>5, Wide1Kept DEF FirstQuarter
<1>6. CASE Z(op) \in {4, 5} BY <1>6, CountKept DEF FirstQuarter
<1>7. CASE Z(op) = 6 BY <1>7, LoadNumber8Kept DEF FirstQuarter
<1>8. CASE Z(op) = 7 BY <1>8, Column7Kept DEF FirstQuarter
<1> QED BY <1>1, <1>2, <1>3, <1>4, <1>5, <1>6, <1>7, <1>8

(***************************************************************************)
(* Opcodes C0 to FF.                                                       *)
(***************************************************************************)
LEMMA CallsKept ==
  ASSUME NEW s, NEW q, Kept(s, q), NEW op \in Byte
  PROVE  /\ Kept(Return(s), q) /\ Kept(Call(s), q) /\ Kept(Jump(s), q)
         /\ Kept(ReturnIf(s, op), q) /\ Kept(CallIf(s, op), q) /\ Kept(JumpIf(s, op), q)
         /\ Kept(Rst(s, op), q)
<1>1. Number16(s) \in Word /\ TopWord(s) \in Word /\ s.pc \in Word
  BY NumberIsByte, TopIsWord DEF Kept, IsProcessor
<1>2. Kept(Return(s), q)
  BY <1>1, PoppedKept, JumpToKept DEF Return
<1>3. Kept(Past(s, 2), q)
  BY PastKept
<1>4. Low16(s.pc + 2) \in Word
  <2>1. s.pc \in Int
    BY <1>1, Widths
  <2>2. s.pc + 2 \in Int
    BY <2>1
  <2> QED BY <2>2, Widths
<1>5. Kept(Call(s), q)
  BY <1>1, <1>3, <1>4, PushedKept, JumpToKept DEF Call
<1>6. Kept(Jump(s), q)
  BY <1>1, JumpToKept DEF Jump
<1>7. 8 * Y(op) \in Word
  <2>1. Y(op) \in 0..7
    BY OpcodeParts
  <2> QED BY <2>1, WordIs
<1>8. Kept(Rst(s, op), q)
  BY <1>1, <1>7, PushedKept, JumpToKept DEF Rst
<1> QED BY <1>2, <1>3, <1>5, <1>6, <1>8 DEF ReturnIf, CallIf, JumpIf

LEMMA StackKept ==
  ASSUME NEW s, NEW q, Kept(s, q), NEW op \in Byte PROVE Kept(Push(s, op), q) /\ Kept(Pop(s, op), q)
<1>1. StackName(s, P(op)) \in Pairs
  <2>1. P(op) \in 0..3 /\ s.index \in {"hl", "ix", "iy"}
    BY OpcodeParts DEF Kept, IsProcessor
  <2> QED BY <2>1, Names
<1>2. Pair(s, StackName(s, P(op))) \in Word /\ TopWord(s) \in Word
  BY <1>1, PairIsWord, TopIsWord DEF Kept
<1>3. Kept(Popped(s), q)
  BY PoppedKept
<1> QED BY <1>1, <1>2, <1>3, PushedKept, SetPairKept DEF Push, Pop

LEMMA ExchangesKept ==
  ASSUME NEW s, NEW q, Kept(s, q) PROVE Kept(ExchangeTop(s), q) /\ Kept(ExchangeDE(s), q)
<1>1. /\ s.index \in Pairs /\ "de" \in Pairs /\ "hl" \in Pairs
      /\ TopWord(s) \in Word /\ s.sp \in Int
  BY TopIsWord, Widths DEF Kept, IsProcessor, Pairs
<1>2. Pair(s, s.index) \in Word /\ Pair(s, "de") \in Word /\ Pair(s, "hl") \in Word
  BY <1>1, PairIsWord DEF Kept
<1>3. Kept(SetPair(s, s.index, TopWord(s)), q) /\ Kept(SetPair(s, "de", Pair(s, "hl")), q)
  BY <1>1, <1>2, SetPairKept
<1>4. Kept(ExchangeTop(s), q)
  BY <1>1, <1>2, <1>3, Poke16Kept DEF ExchangeTop
<1>5. Kept(ExchangeDE(s), q)
  BY <1>1, <1>2, <1>3, SetPairKept DEF ExchangeDE
<1> QED BY <1>4, <1>5

LEMMA LastQuarterKept ==
  ASSUME NEW s, NEW q, Kept(s, q), NEW op \in Byte \ {203, 221, 237, 253}, X(op) = 3,
         NEW answer \in Byte
  PROVE  Kept(LastQuarter(s, op, answer), q)
<1>1. Z(op) \in 0..7 /\ Y(op) \in 0..7 /\ op = 64 * 3 + 8 * Y(op) + Z(op)
  BY OpcodeParts
<1>0. op \in Byte
  OBVIOUS
<1>2. CASE Z(op) = 0
  <2>0. op \notin {201, 217, 233, 249, 195, 211, 219, 227, 235, 243, 251, 205}
    BY <1>1, <1>2
  <2>1. LastQuarter(s, op, answer) = ReturnIf(s, op)
    BY <1>2, <2>0 DEF LastQuarter
  <2> QED BY <1>0, <2>1, CallsKept
<1>3. CASE Z(op) = 1
  <2>1. CASE Y(op) % 2 = 0
    <3>0. op \notin {201, 217, 233, 249, 195, 211, 219, 227, 235, 243, 251, 205}
      BY <1>1, <1>3, <2>1
    <3>1. LastQuarter(s, op, answer) = Pop(s, op)
      BY <1>3, <2>1, <3>0 DEF LastQuarter
    <3> QED BY <1>0, <3>1, StackKept
  <2>2. CASE Y(op) % 2 # 0
    <3>1. op \in {201, 217, 233, 249}
      BY <1>1, <1>3, <2>2
    <3>2. s.index \in Pairs
      BY DEF Kept, IsProcessor, Pairs
    <3>3. Pair(s, s.index) \in Word
      BY <3>2, PairIsWord DEF Kept
    <3>4. Kept(JumpTo(s, Pair(s, s.index)), q)
      BY <3>3, JumpToKept
    <3>5. Kept([s EXCEPT !.sp = Pair(s, s.index)], q)
      <4>1. SetPair(s, "sp", Pair(s, s.index)) = [s EXCEPT !.sp = Pair(s, s.index)]
        BY DEF SetPair
      <4> QED BY <3>3, <4>1, SetPairKept DEF Pairs
    <3>6. CASE op = 201 BY <1>3, <2>2, <3>6, CallsKept DEF LastQuarter
    <3>7. CASE op = 217 BY <1>3, <2>2, <3>7, ExxKept DEF LastQuarter
    <3>8. CASE op = 233 BY <1>3, <2>2, <3>4, <3>8 DEF LastQuarter
    <3>9. CASE op = 249 BY <1>3, <2>2, <3>5, <3>9 DEF LastQuarter
    <3> QED BY <3>1, <3>6, <3>7, <3>8, <3>9
  <2> QED BY <2>1, <2>2
<1>4. CASE Z(op) = 2
  <2>1. op \notin {201, 217, 233, 249, 195, 211, 219, 227, 235, 243, 251, 205}
    BY <1>1, <1>4
  <2>2. LastQuarter(s, op, answer) = JumpIf(s, op)
    BY <1>4, <2>1 DEF LastQuarter
  <2> QED BY <1>0, <2>2, CallsKept
<1>5. CASE Z(op) = 3
  <2>1. op \in {195, 211, 219, 227, 235, 243, 251}
    BY <1>1, <1>5
  <2>2. Number8(s) \in Byte /\ s.reg["a"] \in Byte /\ Kept(Past(s, 1), q)
    <3>1. s.reg["a"] \in Byte
      BY DEF Kept, IsProcessor, Registers
    <3>2. Number8(s) \in Byte
      BY NumberIsByte DEF Kept
    <3>3. Kept(Past(s, 1), q)
      BY PastKept
    <3> QED BY <3>1, <3>2, <3>3
  <2>3. Kept(Output(Past(s, 1), Number8(s), s.reg["a"]), q)
    BY <2>2, OutputKept
  <2>4. Kept(SetReg(Past(s, 1), "a", answer), q)
    BY <2>2, SetRegKept DEF Registers
  <2>5. CASE op = 195 BY <1>5, <2>5, CallsKept DEF LastQuarter
  <2>6. CASE op = 211 BY <1>5, <2>3, <2>6 DEF LastQuarter
  <2>7. CASE op = 219 BY <1>5, <2>4, <2>7 DEF LastQuarter
  <2>8. CASE op = 227 BY <1>5, <2>8, ExchangesKept DEF LastQuarter
  <2>9. CASE op = 235 BY <1>5, <2>9, ExchangesKept DEF LastQuarter
  <2>10. CASE op = 243 BY <1>5, <2>10, DisableKept DEF LastQuarter
  <2>11. CASE op = 251 BY <1>5, <2>11, EnableKept DEF LastQuarter
  <2> QED BY <2>1, <2>5, <2>6, <2>7, <2>8, <2>9, <2>10, <2>11
<1>6. CASE Z(op) = 4
  <2>1. op \notin {201, 217, 233, 249, 195, 211, 219, 227, 235, 243, 251, 205}
    BY <1>1, <1>6
  <2>2. LastQuarter(s, op, answer) = CallIf(s, op)
    BY <1>6, <2>1 DEF LastQuarter
  <2> QED BY <1>0, <2>2, CallsKept
<1>7. CASE Z(op) = 5
  <2>1. CASE Y(op) % 2 = 0
    <3>1. op \notin {201, 217, 233, 249, 195, 211, 219, 227, 235, 243, 251, 205}
      BY <1>1, <1>7, <2>1
    <3>2. LastQuarter(s, op, answer) = Push(s, op)
      BY <1>7, <2>1, <3>1 DEF LastQuarter
    <3> QED BY <1>0, <3>2, StackKept
  <2>2. CASE Y(op) % 2 # 0
    <3>1. op = 205
      BY <1>1, <1>7, <2>2
    <3>2. LastQuarter(s, op, answer) = Call(s)
      BY <1>7, <2>2, <3>1 DEF LastQuarter
    <3> QED BY <1>0, <3>2, CallsKept
  <2> QED BY <2>1, <2>2
<1>8. CASE Z(op) \in {6, 7}
  <2>1. op \notin {201, 217, 233, 249, 195, 211, 219, 227, 235, 243, 251, 205}
    BY <1>1, <1>8
  <2>2. Z(op) = 6 => LastQuarter(s, op, answer) = ArithmeticNumber(s, op)
    BY <2>1 DEF LastQuarter
  <2>3. Z(op) = 7 => LastQuarter(s, op, answer) = Rst(s, op)
    BY <2>1 DEF LastQuarter
  <2>4. Kept(ArithmeticNumber(s, op), q)
    BY <1>0, ArithmeticKept
  <2>5. Kept(Rst(s, op), q)
    BY <1>0, CallsKept
  <2> QED BY <1>8, <2>2, <2>3, <2>4, <2>5
<1>9. Z(op) \in {0, 1, 2, 3, 4, 5, 6, 7}
  BY <1>1
<1> QED BY <1>2, <1>3, <1>4, <1>5, <1>6, <1>7, <1>8, <1>9

LEMMA ExecuteKept ==
  ASSUME NEW s, NEW q, Kept(s, q), NEW op \in Byte \ {203, 221, 237, 253}, NEW answer \in Byte
  PROVE  Kept(Execute(s, op, answer), q)
<1>1. X(op) \in {0, 1, 2, 3}
  <2>1. X(op) \in 0..3
    BY OpcodeParts
  <2> QED BY <2>1
<1>2. CASE X(op) = 0 BY <1>2, FirstQuarterKept DEF Execute
<1>3. CASE X(op) = 1 BY <1>3, LoadOrHaltKept DEF Execute
<1>4. CASE X(op) = 2 BY <1>4, ArithmeticKept DEF Execute
<1>5. CASE X(op) = 3 BY <1>5, LastQuarterKept DEF Execute
<1> QED BY <1>1, <1>2, <1>3, <1>4, <1>5

(***************************************************************************)
(* Prefix CB.                                                              *)
(***************************************************************************)
LEMMA RotationIsOut ==
  ASSUME NEW y \in 0..7, NEW v \in Byte, NEW f PROVE IsOut(Rotation(y, v, f))
<1>1. y \in {0, 1, 2, 3, 4, 5, 6, 7}
  OBVIOUS
<1> QED BY <1>1, ShiftsAreOut DEF Rotation

LEMMA MasksAre == \A y \in 0..7 : Mask(y) \in {1, 2, 4, 8, 16, 32, 64, 128}
<1> SUFFICES ASSUME NEW y \in 0..7 PROVE Mask(y) \in {1, 2, 4, 8, 16, 32, 64, 128}
  OBVIOUS
<1>1. y \in {0, 1, 2, 3, 4, 5, 6, 7}
  OBVIOUS
<1> QED BY <1>1 DEF Mask

LEMMA OneBitIsByte ==
  ASSUME NEW v \in Byte, NEW y \in 0..7 PROVE BitReset(v, y) \in Byte /\ BitGiven(v, y) \in Byte
<1>1. v \in Int /\ 0 <= v /\ v <= 255
  BY ByteIs
<1>2. Mask(y) \in {1, 2, 4, 8, 16, 32, 64, 128}
  BY MasksAre
<1>3. Has(v, Mask(y)) => v - Mask(y) \in Int /\ 0 <= v - Mask(y) /\ v - Mask(y) <= 255
  BY <1>1, <1>2 DEF Has
<1>4. ~Has(v, Mask(y)) => v + Mask(y) \in Int /\ 0 <= v + Mask(y) /\ v + Mask(y) <= 255
  BY <1>1, <1>2 DEF Has
<1>5. BitReset(v, y) \in Byte
  BY <1>3, ByteIs DEF BitReset
<1>6. BitGiven(v, y) \in Byte
  BY <1>4, ByteIs DEF BitGiven
<1> QED BY <1>5, <1>6

LEMMA BitsKept ==
  ASSUME NEW s, NEW q, Kept(s, q), NEW op \in Byte PROVE Kept(Bits(s, op), q)
<1>1. Y(op) \in 0..7 /\ Z(op) \in 0..7 /\ X(op) \in 0..3
  BY OpcodeParts
<1> DEFINE v == Operand(s, Z(op))
<1>2. v \in Byte /\ s.f \subseteq Flags
  BY <1>1, OperandIsByte DEF Kept, IsProcessor
<1> HIDE DEF v
<1>3. IsOut(Rotation(Y(op), v, s.f))
  BY <1>1, <1>2, RotationIsOut
<1>4. Kept(SetOperand(s, Z(op), Rotation(Y(op), v, s.f).r), q)
  BY <1>1, <1>3, SetOperandKept DEF IsOut
<1>5. Kept(Rotate(s, op), q)
  BY <1>3, <1>4, WithFlagsKept DEF Rotate, IsOut, v
<1>6. Kept(TestBit(s, op), q)
  BY <1>2, PlainFlags, WithFlagsKept DEF TestBit, v
<1>7. BitReset(v, Y(op)) \in Byte /\ BitGiven(v, Y(op)) \in Byte
  BY <1>1, <1>2, OneBitIsByte
<1>8. Kept(ResetBit(s, op), q) /\ Kept(GiveBit(s, op), q)
  BY <1>1, <1>7, SetOperandKept DEF ResetBit, GiveBit, v
<1>9. X(op) \in {0, 1, 2, 3}
  BY <1>1
<1> QED BY <1>5, <1>6, <1>8, <1>9 DEF Bits

LEMMA IndexedBitsKept == ASSUME NEW s, NEW q, Kept(s, q) PROVE Kept(IndexedBits(s), q)
<1> DEFINE at == Place(s)
           op == Peek(s, Low16(s.pc + 1))
           t  == Past(s, 2)
           v  == Peek(t, at)
<1>1. at \in Int /\ op \in Byte /\ Kept(t, q)
  <2>1. at \in Word /\ op \in Byte
    BY PlaceIsWord, PeekIsByte DEF Kept
  <2>2. Kept(t, q)
    BY PastKept
  <2> HIDE DEF at, op, t
  <2> QED BY <2>1, <2>2, Widths
<1>2. IndexedBits(s) = CASE X(op) = 0 -> IndexedRotate(t, at, op)
                         [] X(op) = 1 -> IndexedTest(t, at, op)
                         [] X(op) = 2 -> IndexedReset(t, at, op)
                         [] X(op) = 3 -> IndexedGive(t, at, op)
  BY DEF IndexedBits
<1> HIDE DEF at, op, t
<1>3. Y(op) \in 0..7 /\ Z(op) \in 0..7 /\ X(op) \in 0..3
  BY <1>1, OpcodeParts
<1>4. v \in Byte /\ t.f \subseteq Flags
  BY <1>1, PeekIsByte DEF Kept, IsProcessor
<1>5. ASSUME NEW u, Kept(u, q), NEW b \in Byte PROVE Kept(IndexedStore(u, at, op, b), q)
  <2>1. Z(op) # 6 => PlainName(Z(op)) \in Registers
    BY <1>3, Names
  <2> QED BY <1>1, <1>5, <2>1, PokeKept, SetRegKept DEF IndexedStore
<1> HIDE DEF v
<1>6. IsOut(Rotation(Y(op), v, t.f))
  BY <1>3, <1>4, RotationIsOut
<1>7. Kept(IndexedRotate(t, at, op), q)
  <2>1. Kept(WithFlags(t, Rotation(Y(op), v, t.f).f), q)
    BY <1>1, <1>6, WithFlagsKept DEF IsOut
  <2> QED BY <1>5, <1>6, <2>1 DEF IndexedRotate, IsOut, v
<1>8. Kept(IndexedTest(t, at, op), q)
  BY <1>1, <1>4, PlainFlags, WithFlagsKept DEF IndexedTest
<1>9. BitReset(v, Y(op)) \in Byte /\ BitGiven(v, Y(op)) \in Byte
  BY <1>3, <1>4, OneBitIsByte
<1>10. Kept(IndexedReset(t, at, op), q) /\ Kept(IndexedGive(t, at, op), q)
  BY <1>1, <1>5, <1>9 DEF IndexedReset, IndexedGive, v
<1>11. X(op) \in {0, 1, 2, 3}
  BY <1>3
<1> QED BY <1>2, <1>7, <1>8, <1>10, <1>11

(***************************************************************************)
(* Prefix ED.                                                              *)
(***************************************************************************)
LEMMA WidePairs == \A op \in Byte : WidePair(op) \in Pairs
<1> SUFFICES ASSUME NEW op \in Byte PROVE WidePair(op) \in Pairs
  OBVIOUS
<1>1. P(op) \in {0, 1, 2, 3}
  <2>1. P(op) \in 0..3
    BY OpcodeParts
  <2> QED BY <2>1
<1> QED BY <1>1 DEF WidePair, Pairs

LEMMA PortsKept ==
  ASSUME NEW s, NEW q, Kept(s, q), NEW op \in Byte, NEW answer \in Byte
  PROVE  Kept(ReadPort(s, op, answer), q) /\ Kept(WritePort(s, op), q)
<1>1. Y(op) \in 0..7
  BY OpcodeParts
<1>2. Y(op) # 6 => PlainName(Y(op)) \in Registers /\ s.reg[PlainName(Y(op))] \in Byte
  BY <1>1, Names DEF Kept, IsProcessor
<1>3. s.reg["c"] \in Byte /\ 255 \in Byte /\ s.f \subseteq Flags
  BY DEF Kept, IsProcessor, Registers, Byte
<1>4. Kept(IF Y(op) = 6 THEN s ELSE SetReg(s, PlainName(Y(op)), answer), q)
  BY <1>2, SetRegKept
<1>5. Kept(ReadPort(s, op, answer), q)
  BY <1>3, <1>4, PlainFlags, WithFlagsKept DEF ReadPort
<1>6. Kept(WritePort(s, op), q)
  BY <1>2, <1>3, OutputKept DEF WritePort
<1> QED BY <1>5, <1>6

LEMMA Wide2Kept ==
  ASSUME NEW s, NEW q, Kept(s, q), NEW op \in Byte
  PROVE  /\ Kept(WideSubtract(s, op), q) /\ Kept(WideAdd(s, op), q)
         /\ Kept(WideStore(s, op), q) /\ Kept(WideLoad(s, op), q)
<1> DEFINE p == WidePair(op)
           a == Pair(s, "hl")
           b == Pair(s, p)
           c == CarryBit(s.f)
<1>1. p \in Pairs /\ "hl" \in Pairs
  BY WidePairs DEF Pairs
<1>2. a \in Word /\ b \in Word /\ c \in {0, 1}
  BY <1>1, PairIsWord, CarryIsBit DEF Kept
<1>3. a \in Int /\ b \in Int /\ c \in Int /\ s.f \subseteq Flags
  <2>1. s.f \subseteq Flags
    BY DEF Kept, IsProcessor
  <2> HIDE DEF a, b, c
  <2>2. c \in Int
    BY <1>2
  <2> QED BY <1>2, <2>1, <2>2, Widths
<1> HIDE DEF p, a, b, c
<1>4. IsWideOut(Sbc16(a, b, c)) /\ IsWideOut(Adc16(a, b, c))
  BY <1>3, WideIsOut
<1>5. ASSUME NEW out, IsWideOut(out) PROVE Kept(WithFlags(SetPair(s, "hl", out.r), out.f), q)
  BY <1>1, <1>5, SetPairKept, WithFlagsKept DEF IsWideOut
<1>6. Kept(WideSubtract(s, op), q) /\ Kept(WideAdd(s, op), q)
  BY <1>4, <1>5 DEF WideSubtract, WideAdd, a, b, c, p
<1>7. Number16(s) \in Word /\ Kept(Past(s, 2), q)
  BY NumberIsByte, PastKept DEF Kept
<1>8. Kept(Poke16(s, Number16(s), b), q)
  BY <1>2, <1>7, Widths, Poke16Kept
<1>9. Kept(WideStore(s, op), q)
  BY <1>8, PastKept DEF WideStore, b, p
<1>10. Kept(WideLoad(s, op), q)
  BY <1>1, <1>7, Peek16IsWord, SetPairKept DEF WideLoad, p, Kept
<1> QED BY <1>6, <1>9, <1>10

LEMMA ModeKept == ASSUME NEW s, NEW q, Kept(s, q), NEW y \in 0..7 PROVE Kept(Mode(s, y), q)
<1>1. y % 4 \in {0, 1, 2, 3}
  OBVIOUS
<1> DEFINE m == CASE y % 4 \in {0, 1} -> 0
                  [] y % 4 = 2 -> 1
                  [] y % 4 = 3 -> 2
<1>2. m \in 0..2
  BY <1>1
<1>3. Mode(s, y) = [s EXCEPT !.imode = m]
  BY DEF Mode
<1> HIDE DEF m
<1> QED BY <1>2, <1>3 DEF Kept, IsProcessor, Fields, Calm

LEMMA ReturnFromInterruptKept ==
  ASSUME NEW s, NEW q, Kept(s, q) PROVE Kept(ReturnFromInterrupt(s), q)
<1> DEFINE t == Return(s)
<1>1. Kept(t, q) /\ t.iff2 = s.iff2
  <2>1. 0 \in Byte
    BY DEF Byte
  <2>2. Kept(t, q)
    BY <2>1, CallsKept
  <2>3. t.iff2 = s.iff2
    BY DEF Return, JumpTo, Popped, Kept, IsProcessor, Fields
  <2> QED BY <2>2, <2>3
<1>2. ReturnFromInterrupt(s) = [t EXCEPT !.iff1 = s.iff2]
  BY DEF ReturnFromInterrupt
<1> HIDE DEF t
<1>3. ReturnFromInterrupt(s) = [t EXCEPT !.iff1 = t.iff2]
  BY <1>1, <1>2
<1> QED BY <1>1, <1>3 DEF Kept, IsProcessor, Fields, Calm

LEMMA FromControlKept ==
  ASSUME NEW s, NEW q, Kept(s, q), NEW v \in Byte PROVE Kept(FromControl(s, v), q)
<1> DEFINE f == (ReadFlags(v, s.f) \ {"P"}) \cup On("P", s.iff2)
<1>1. s.f \subseteq Flags
  BY DEF Kept, IsProcessor
<1>2. On("P", s.iff2) \subseteq Flags
  BY FlagsAre DEF On
<1>3. f \subseteq Flags
  BY <1>1, <1>2, PlainFlags
<1>4. Kept(SetReg(s, "a", v), q)
  BY SetRegKept DEF Registers
<1> HIDE DEF f
<1>5. Kept(WithFlags(SetReg(s, "a", v), f), q)
  BY <1>3, <1>4, WithFlagsKept
<1> QED BY <1>5 DEF FromControl, f

LEMMA DigitsAreBytes ==
  ASSUME NEW a \in Byte, NEW v \in Byte
  PROVE  /\ 16 * (a \div 16) + (v \div 16) \in Byte
         /\ 16 * (a \div 16) + (v % 16) \in Byte
         /\ 16 * (v % 16) + (a % 16) \in Byte
         /\ 16 * (a % 16) + (v \div 16) \in Byte
<1>1. ASSUME NEW x \in 0..15, NEW y \in 0..15 PROVE 16 * x + y \in Byte
  BY DEF Byte
<1>2. /\ a \div 16 \in 0..15 /\ v \div 16 \in 0..15
      /\ a % 16 \in 0..15 /\ v % 16 \in 0..15
  BY DEF Byte
<1> QED BY <1>1, <1>2

LEMMA DigitsKept ==
  ASSUME NEW s, NEW q, Kept(s, q) PROVE Kept(DigitsLeft(s), q) /\ Kept(DigitsRight(s), q)
<1> DEFINE a == s.reg["a"]
           at == Pair(s, "hl")
           v == Peek(s, at)
<1>1. a \in Byte /\ v \in Byte /\ s.f \subseteq Flags
  BY PeekIsByte DEF Kept, IsProcessor, Registers
<1>2. at \in Int
  <2>1. at \in Word
    BY PairIsWord DEF Kept, Pairs
  <2> QED BY <2>1, Widths
<1>3. ASSUME NEW r \in Byte, NEW w \in Byte
      PROVE  Kept(WithFlags(Poke(SetReg(s, "a", r), at, w), ReadFlags(r, s.f)), q)
  <2>1. Kept(SetReg(s, "a", r), q) /\ ReadFlags(r, s.f) \subseteq Flags
    BY <1>1, SetRegKept, PlainFlags DEF Registers
  <2> HIDE DEF at
  <2> QED BY <1>2, <2>1, PokeKept, WithFlagsKept
<1>4. Kept(DigitsLeft(s), q)
  <2> DEFINE r == 16 * (a \div 16) + (v \div 16)
             w == 16 * (v % 16) + (a % 16)
  <2>1. r \in Byte /\ w \in Byte
    BY <1>1, DigitsAreBytes
  <2>2. DigitsLeft(s) = WithFlags(Poke(SetReg(s, "a", r), at, w), ReadFlags(r, s.f))
    BY DEF DigitsLeft
  <2> HIDE DEF r, w, at
  <2> QED BY <1>3, <2>1, <2>2
<1>5. Kept(DigitsRight(s), q)
  <2> DEFINE r == 16 * (a \div 16) + (v % 16)
             w == 16 * (a % 16) + (v \div 16)
  <2>1. r \in Byte /\ w \in Byte
    BY <1>1, DigitsAreBytes
  <2>2. DigitsRight(s) = WithFlags(Poke(SetReg(s, "a", r), at, w), ReadFlags(r, s.f))
    BY DEF DigitsRight
  <2> HIDE DEF r, w, at
  <2> QED BY <1>3, <2>1, <2>2
<1> QED BY <1>4, <1>5

LEMMA SpecialKept ==
  ASSUME NEW s, NEW q, Kept(s, q), NEW y \in 0..7 PROVE Kept(Special(s, y), q)
<1>1. s.reg["a"] \in Byte /\ s.i \in Byte /\ s.r \in Byte
  BY DEF Kept, IsProcessor, Registers
<1>2. Kept([s EXCEPT !.i = s.reg["a"]], q)
  BY <1>1 DEF Kept, IsProcessor, Fields, Calm
<1>3. Kept([s EXCEPT !.r = s.reg["a"]], q)
  BY <1>1, RefreshedKept
<1>4. Kept(FromControl(s, s.i), q) /\ Kept(FromControl(s, s.r), q)
  BY <1>1, FromControlKept
<1>5. Kept(DigitsRight(s), q) /\ Kept(DigitsLeft(s), q)
  BY DigitsKept
<1> QED BY <1>2, <1>3, <1>4, <1>5 DEF Special

(***************************************************************************)
(* The block instructions.                                                 *)
(***************************************************************************)
LEMMA WayIsInt == \A y : Way(y) \in Int
BY DEF Way

LEMMA AgainKept ==
  ASSUME NEW s, NEW q, Kept(s, q), NEW y, NEW more PROVE Kept(Again(s, y, more), q)
BY PastKept DEF Again

LEMMA BlockFlags ==
  /\ \A a, v, more, f : f \subseteq Flags => SearchFlags(a, v, more, f) \subseteq Flags
  /\ \A sum, more, f : f \subseteq Flags => CopyFlags(sum, more, f) \subseteq Flags
  /\ \A b, v, sum : PortFlags(b, v, sum) \subseteq Flags
<1> USE MacrosAreFlags, FlagsAre
<1>1. \A a, v, more, f : f \subseteq Flags => SearchFlags(a, v, more, f) \subseteq Flags
  BY DEF SearchFlags, On
<1>2. \A sum, more, f : f \subseteq Flags => CopyFlags(sum, more, f) \subseteq Flags
  BY DEF CopyFlags, On
<1>3. \A b, v, sum : PortFlags(b, v, sum) \subseteq Flags
  BY DEF PortFlags, On
<1> QED BY <1>1, <1>2, <1>3

LEMMA CopyBlockKept == ASSUME NEW s, NEW q, Kept(s, q), NEW y PROVE Kept(CopyBlock(s, y), q)
<1> DEFINE v  == Peek(s, Pair(s, "hl"))
           t1 == Poke(s, Pair(s, "de"), v)
           t2 == Moved(t1, "bc", -1)
           t3 == Moved(t2, "hl", Way(y))
           t  == Moved(t3, "de", Way(y))
           more == Pair(t, "bc") # 0
           f  == CopyFlags(s.reg["a"] + v, more, s.f)
<1>1. v \in Byte /\ s.f \subseteq Flags
  BY PeekIsByte DEF Kept, IsProcessor
<1>2. Pair(s, "de") \in Int
  <2>1. Pair(s, "de") \in Word
    BY PairIsWord DEF Kept, Pairs
  <2> QED BY <2>1, Widths
<1>3. CopyBlock(s, y) = Again(WithFlags(t, f), y, more)
  BY DEF CopyBlock
<1>4. Kept(t1, q)
  BY <1>1, <1>2, PokeKept
<1> HIDE DEF t1
<1>5. Kept(t2, q)
  BY <1>4, MovedKept DEF Pairs
<1> HIDE DEF t2
<1>6. Kept(t3, q)
  BY <1>5, WayIsInt, MovedKept DEF Pairs
<1> HIDE DEF t3
<1>7. Kept(t, q)
  BY <1>6, WayIsInt, MovedKept DEF Pairs
<1> HIDE DEF t
<1>8. f \subseteq Flags
  BY <1>1, BlockFlags
<1> HIDE DEF f
<1>9. Kept(WithFlags(t, f), q)
  BY <1>7, <1>8, WithFlagsKept
<1> QED BY <1>3, <1>9, AgainKept

LEMMA SearchBlockKept == ASSUME NEW s, NEW q, Kept(s, q), NEW y PROVE Kept(SearchBlock(s, y), q)
<1> DEFINE v  == Peek(s, Pair(s, "hl"))
           t1 == Moved(s, "bc", -1)
           t  == Moved(t1, "hl", Way(y))
           f  == SearchFlags(s.reg["a"], v, Pair(t, "bc") # 0, s.f)
<1>1. SearchBlock(s, y) = Again(WithFlags(t, f), y, "P" \in f /\ "Z" \notin f)
  BY DEF SearchBlock
<1>2. Kept(t1, q)
  BY MovedKept DEF Pairs
<1> HIDE DEF t1
<1>3. Kept(t, q)
  BY <1>2, WayIsInt, MovedKept DEF Pairs
<1> HIDE DEF t
<1>4. f \subseteq Flags
  BY BlockFlags DEF Kept, IsProcessor
<1> HIDE DEF f
<1>5. Kept(WithFlags(t, f), q)
  BY <1>3, <1>4, WithFlagsKept
<1> QED BY <1>1, <1>5, AgainKept

LEMMA PortBlockKept ==
  ASSUME NEW s, NEW q, Kept(s, q), NEW y, NEW answer \in Byte
  PROVE  Kept(ReadBlock(s, y, answer), q) /\ Kept(WriteBlock(s, y), q)
<1> DEFINE b == Low(s.reg["b"] - 1)
           v == Peek(s, Pair(s, "hl"))
<1>1. b \in Byte /\ v \in Byte /\ s.reg["c"] \in Byte
  <2>1. s.reg["b"] \in Byte /\ s.reg["c"] \in Byte
    BY DEF Kept, IsProcessor, Registers
  <2>2. s.reg["b"] \in Int
    BY <2>1, Widths
  <2>3. s.reg["b"] - 1 \in Int
    BY <2>2
  <2> QED BY <2>1, <2>3, Widths, PeekIsByte DEF Kept
<1>2. Pair(s, "hl") \in Int
  <2>1. Pair(s, "hl") \in Word
    BY PairIsWord DEF Kept, Pairs
  <2> QED BY <2>1, Widths
<1>3. ASSUME NEW u, Kept(u, q) PROVE Kept(Moved(SetReg(u, "b", b), "hl", Way(y)), q)
  <2>1. Kept(SetReg(u, "b", b), q)
    BY <1>1, <1>3, SetRegKept DEF Registers
  <2> HIDE DEF b
  <2> QED BY <2>1, WayIsInt, MovedKept DEF Pairs
<1>4. Kept(Poke(s, Pair(s, "hl"), answer), q) /\ Kept(Output(s, s.reg["c"], v), q)
  BY <1>1, <1>2, PokeKept, OutputKept
<1>5. Kept(ReadBlock(s, y, answer), q)
  <2> DEFINE t == Moved(SetReg(Poke(s, Pair(s, "hl"), answer), "b", b), "hl", Way(y))
             f == PortFlags(b, answer, answer + Low(s.reg["c"] + Way(y)))
  <2>1. ReadBlock(s, y, answer) = Again(WithFlags(t, f), y, b # 0)
    BY DEF ReadBlock
  <2>2. Kept(t, q)
    BY <1>3, <1>4
  <2>3. f \subseteq Flags
    BY BlockFlags
  <2> HIDE DEF t, f, b
  <2>4. Kept(WithFlags(t, f), q)
    BY <2>2, <2>3, WithFlagsKept
  <2> QED BY <2>1, <2>4, AgainKept
<1>6. Kept(WriteBlock(s, y), q)
  <2> DEFINE t == Moved(SetReg(Output(s, s.reg["c"], v), "b", b), "hl", Way(y))
             f == PortFlags(b, v, v + t.reg["l"])
  <2>1. WriteBlock(s, y) = Again(WithFlags(t, f), y, b # 0)
    BY DEF WriteBlock
  <2>2. Kept(t, q)
    BY <1>3, <1>4
  <2> HIDE DEF t
  <2>3. f \subseteq Flags
    BY BlockFlags
  <2> HIDE DEF f, b
  <2>4. Kept(WithFlags(t, f), q)
    BY <2>2, <2>3, WithFlagsKept
  <2> QED BY <2>1, <2>4, AgainKept
<1> QED BY <1>5, <1>6

LEMMA NegIsOut == ASSUME NEW a \in Int PROVE IsOut(Neg(a))
<1> DEFINE z == 0
<1>1. z \in Int
  OBVIOUS
<1>2. Neg(a) = Sub(z, a, z)
  BY DEF Neg
<1> HIDE DEF z
<1> QED BY <1>1, <1>2, SubIsOut

LEMMA ExtendedKept ==
  ASSUME NEW s, NEW q, Kept(s, q), NEW op \in Byte, NEW answer \in Byte
  PROVE  Kept(Extended(s, op, answer), q)
<1>1. Z(op) \in 0..7 /\ Y(op) \in 0..7
  BY OpcodeParts
<1>2. ASSUME X(op) = 1 PROVE Kept(Column(s, op, answer), q)
  <2>1. Z(op) \in {0, 1, 2, 3, 4, 5, 6, 7} /\ Y(op) % 2 \in {0, 1}
    BY <1>1
  <2>2. Kept(OnAcc(s, Neg(s.reg["a"])), q)
    <3>0. s.reg["a"] \in Byte
      BY DEF Kept, IsProcessor, Registers
    <3>1. s.reg["a"] \in Int
      BY <3>0, Widths
    <3>2. IsOut(Neg(s.reg["a"]))
      BY <3>1, NegIsOut
    <3> QED BY <3>2, OnAccKept
  <2>3. CASE Z(op) = 0 BY <2>3, PortsKept DEF Column
  <2>4. CASE Z(op) = 1 BY <2>4, PortsKept DEF Column
  <2>5. CASE Z(op) = 2 BY <2>1, <2>5, Wide2Kept DEF Column
  <2>6. CASE Z(op) = 3 BY <2>1, <2>6, Wide2Kept DEF Column
  <2>7. CASE Z(op) = 4 BY <2>2, <2>7 DEF Column
  <2>8. CASE Z(op) = 5 BY <2>8, ReturnFromInterruptKept DEF Column
  <2>9. CASE Z(op) = 6 BY <1>1, <2>9, ModeKept DEF Column
  <2>10. CASE Z(op) = 7 BY <1>1, <2>10, SpecialKept DEF Column
  <2> QED BY <2>1, <2>3, <2>4, <2>5, <2>6, <2>7, <2>8, <2>9, <2>10
<1>3. ASSUME Z(op) < 4 PROVE Kept(Blocks(s, op, answer), q)
  <2>1. Z(op) \in {0, 1, 2, 3}
    BY <1>1, <1>3
  <2>2. Kept(CopyBlock(s, Y(op)), q) /\ Kept(SearchBlock(s, Y(op)), q)
    BY CopyBlockKept, SearchBlockKept
  <2>3. Kept(ReadBlock(s, Y(op), answer), q) /\ Kept(WriteBlock(s, Y(op)), q)
    BY PortBlockKept
  <2> QED BY <2>1, <2>2, <2>3 DEF Blocks
<1> QED BY <1>2, <1>3 DEF Extended

(***************************************************************************)
(* Prefixes.                                                               *)
(***************************************************************************)
LEMMA UnprefixedKept ==
  ASSUME NEW s, NEW q, NEW p, Kept(s, q), p.calm = q.calm, "hl" \in p.names PROVE Kept(Unprefixed(s), p)
BY IndexedBy DEF Unprefixed

LEMMA OpenedKept ==
  ASSUME NEW s, NEW q, Kept(s, q), NEW op \in Byte \ Prefixes, NEW answer \in Byte
  PROVE  Kept(Opened(s, op, answer), q)
<1>1. Kept(Fetched(s), q) /\ Opcode(s) \in Byte
  BY FetchedKept, NumberIsByte DEF Kept
<1>2. CASE op = 203
  BY <1>1, <1>2, IndexedBitsKept, BitsKept DEF Opened
<1>3. CASE op = 237
  BY <1>1, <1>3, ExtendedKept DEF Opened
<1>4. CASE op \notin {203, 237}
  <2>1. op \in Byte \ {203, 221, 237, 253}
    BY <1>4 DEF Prefixes
  <2> QED BY <1>4, <2>1, ExecuteKept DEF Opened
<1> QED BY <1>2, <1>3, <1>4

\* From any place the bytes of the memory can be reached by going forward.
LEMMA AllInReach ==
  ASSUME NEW pc \in Word, NEW a \in Word
  PROVE  Low16(a - pc) \in Word /\ Low16(pc + Low16(a - pc)) = a
<1>1. pc \in Int /\ a \in Int /\ 0 <= pc /\ 0 <= a /\ pc <= 65535 /\ a <= 65535
  BY WordIs
<1>2. CASE a >= pc
  <2>1. Low16(a - pc) = a - pc
    BY <1>1, <1>2 DEF Low16
  <2>2. Low16(pc + (a - pc)) = a
    BY <1>1 DEF Low16
  <2> QED BY <1>1, <1>2, <2>1, <2>2, WordIs
<1>3. CASE a < pc
  <2>1. Low16(a - pc) = a - pc + 65536
    BY <1>1, <1>3 DEF Low16
  <2>2. Low16(pc + (a - pc + 65536)) = a
    BY <1>1 DEF Low16
  <2> QED BY <1>1, <1>3, <2>1, <2>2, WordIs
<1> QED BY <1>1, <1>2, <1>3

LEMMA RowIsFinite ==
  ASSUME NEW s, IsProcessor(s), RowEnds(s)
  PROVE  \E n \in Word : /\ Peek(s, Low16(s.pc + n)) \notin Prefixes
                         /\ \A m \in 0..(n - 1) : Peek(s, Low16(s.pc + m)) \in Prefixes
<1> DEFINE Ends(n) == Peek(s, Low16(s.pc + n)) \notin Prefixes
           B == {n \in Nat : Ends(n)}
<1>1. PICK a \in Word : Peek(s, a) \notin Prefixes
  BY DEF RowEnds
<1> DEFINE d == Low16(a - s.pc)
<1>2. s.pc \in Word
  BY DEF IsProcessor
<1>3. d \in Word /\ Low16(s.pc + d) = a
  BY <1>1, <1>2, AllInReach
<1> HIDE DEF d
<1>4. d \in Nat /\ Ends(d)
  BY <1>1, <1>3, WordIs
<1>5. B # {} /\ B \subseteq Nat
  BY <1>4
<1>6. PICK n \in B : \A m \in B : ~(m < n)
  <2>1. PICK n \in B : \A m \in B : <<m, n>> \notin OpToRel(<, Nat)
    BY <1>5, WFMin, NatLessThanWellFounded
  <2> QED BY <1>5, <2>1 DEF OpToRel
<1>7. n \in Nat /\ Ends(n) /\ n <= d
  BY <1>4, <1>6
<1>8. n \in Word
  BY <1>3, <1>7, WordIs
<1>9. \A m \in 0..(n - 1) : ~Ends(m)
  BY <1>6, <1>7
<1> QED BY <1>7, <1>8, <1>9

LEMMA UnderPrefixKept ==
  ASSUME NEW s, NEW q, Kept(s, q), "hl" \in q.names, RowEnds(s), NEW op, NEW answer \in Byte
  PROVE  Kept(UnderPrefix(s, op, answer), q)
<1> DEFINE more   == CHOOSE n \in Word : /\ Peek(s, Low16(s.pc + n)) \notin Prefixes
                                         /\ \A m \in 0..(n - 1) : Peek(s, Low16(s.pc + m)) \in Prefixes
           last   == IF more = 0 THEN op ELSE Peek(s, Low16(s.pc + more - 1))
           kept   == Past(s, more)
           r      == 128 * Top(kept.r) + ((kept.r + more) % 128)
           index  == IF last = 221 THEN "ix" ELSE "iy"
           p      == [calm |-> q.calm, names |-> {"hl", "ix", "iy"}]
           passed == [[kept EXCEPT !.r = r] EXCEPT !.index = index]
<1>1. more \in Word /\ Peek(s, Low16(s.pc + more)) \notin Prefixes
  BY RowIsFinite, Zenon DEF Kept
<1>2. UnderPrefix(s, op, answer) = Unprefixed(Opened(Fetched(passed), Opcode(passed), answer))
  BY DEF UnderPrefix
<1> HIDE DEF more
<1>3. Kept(kept, q) /\ more \in Nat
  BY <1>1, PastKept, WordIs
<1>4. kept.pc = Low16(s.pc + more) /\ kept.mem = s.mem
  BY DEF Past, Kept, IsProcessor, Fields
<1> HIDE DEF kept
<1>5. r \in Byte
  BY <1>3, RefreshIsByte DEF Kept, IsProcessor
<1> HIDE DEF r
<1>6. index \in {"hl", "ix", "iy"}
  OBVIOUS
<1> HIDE DEF index
<1>p. p.calm = q.calm /\ p.names = {"hl", "ix", "iy"}
  OBVIOUS
<1> HIDE DEF p
<1>7. Kept(passed, p)
  <2>1. Kept([kept EXCEPT !.r = r], q)
    BY <1>3, <1>5, RefreshedKept
  <2> QED BY <1>6, <1>p, <2>1, IndexedBy
<1>8. passed.pc = kept.pc /\ passed.mem = kept.mem
  BY <1>3 DEF Kept, IsProcessor, Fields
<1>9. Opcode(passed) = Peek(s, Low16(s.pc + more))
  BY <1>4, <1>8 DEF Opcode, Peek
<1> HIDE DEF passed
<1>10. Opcode(passed) \in Byte \ Prefixes
  BY <1>1, <1>7, <1>9, NumberIsByte DEF Kept
<1>11. Kept(Opened(Fetched(passed), Opcode(passed), answer), p)
  BY <1>7, <1>10, FetchedKept, OpenedKept
<1> QED BY <1>2, <1>11, <1>p, UnprefixedKept


LEMMA InstructionKept ==
  ASSUME NEW s, NEW q, Kept(s, q), "hl" \in q.names, NEW op \in Byte, op \in Prefixes => RowEnds(s),
         NEW answer \in Byte
  PROVE  Kept(Instruction(s, op, answer), q)
BY UnderPrefixKept, OpenedKept DEF Instruction

(***************************************************************************)
(* Interrupts and steps.                                                   *)
(***************************************************************************)
LEMMA AcknowledgedKept == ASSUME NEW s, NEW q, Kept(s, q) PROVE Kept(Acknowledged(s), q)
<1>1. Kept(WithFlags(s, s.f \ {"P"}), q)
  BY WithFlagsKept DEF Kept, IsProcessor
<1>2. Acknowledged(s) \in {s, WithFlags(s, s.f \ {"P"})}
  BY DEF Acknowledged, WithFlags
<1> QED BY <1>1, <1>2

Open == [calm |-> FALSE, names |-> {"hl"}]
Shut == [calm |-> TRUE, names |-> {"hl"}]

(* Who takes an interrupt shuts out the next, or lets it wait for one more instruction. *)
LEMMA InterruptedKept ==
  ASSUME NEW s, Kept(s, Open), NEW bus \in Byte, bus \in Prefixes => RowEnds(s), NEW answer \in Byte
  PROVE  /\ Kept(Interrupted(s, bus, answer), Open)
         /\ s.iff1 => Kept(Interrupted(s, bus, answer), Shut)
<1> DEFINE t == [s EXCEPT !.iff1 = FALSE, !.iff2 = FALSE, !.halt = FALSE]
<1>1. CASE ~s.iff1
  BY <1>1 DEF Interrupted
<1>2. CASE s.iff1
  <2>1. Kept(t, Shut)
    BY DEF Kept, IsProcessor, Fields, Calm, Open, Shut
  <2>2. t.pc = s.pc /\ t.i = s.i /\ t.mem = s.mem
    BY DEF Kept, IsProcessor, Fields
  <2>3. /\ s.imode = 0 => Interrupted(s, bus, answer) = Instruction(t, bus, answer)
        /\ s.imode = 1 => Interrupted(s, bus, answer) = Rst(t, 255)
        /\ s.imode = 2 => Interrupted(s, bus, answer) = Vectored(t, bus)
    BY <1>2 DEF Interrupted
  <2>4. bus \in Prefixes => RowEnds(t)
    BY <2>2 DEF RowEnds, Peek
  <2> HIDE DEF t
  <2>5. Kept(Instruction(t, bus, answer), Shut)
    BY <2>1, <2>4, InstructionKept DEF Shut
  <2>6. Kept(Rst(t, 255), Shut)
    BY <2>1, CallsKept DEF Byte
  <2>7. Kept(Vectored(t, bus), Shut)
    <3>1. t.pc \in Word /\ Peek16(t, 256 * t.i + bus) \in Word
      BY <2>1, Peek16IsWord DEF Kept, IsProcessor
    <3> QED BY <2>1, <3>1, PushedKept, JumpToKept DEF Vectored
  <2>8. s.imode \in {0, 1, 2}
    BY DEF Kept, IsProcessor
  <2>9. Kept(Interrupted(s, bus, answer), Shut)
    BY <2>3, <2>5, <2>6, <2>7, <2>8
  <2> QED BY <2>9 DEF Kept, Shut, Open
<1> QED BY <1>1, <1>2

LEMMA DevicesKeep ==
  ASSUME NEW s, Kept(s, Open), NEW answer \in Byte, Devices(s, answer) PROVE Kept(cpu', Open)
<1>1. CASE cpu' = s
  BY <1>1
<1>2. CASE \E bus \in BusBytes : /\ bus \in Prefixes => RowEnds(s)
                                 /\ cpu' = Interrupted(Acknowledged(s), bus, answer)
  <2>1. PICK bus \in BusBytes : /\ bus \in Prefixes => RowEnds(s)
                                /\ cpu' = Interrupted(Acknowledged(s), bus, answer)
    BY <1>2
  <2>2. bus \in Byte
    BY BytesAssumption
  <2>3. Kept(Acknowledged(s), Open)
    BY AcknowledgedKept
  <2>4. Acknowledged(s).mem = s.mem
    BY DEF Acknowledged, Kept, IsProcessor, Fields
  <2>5. bus \in Prefixes => RowEnds(Acknowledged(s))
    BY <2>1, <2>4 DEF RowEnds, Peek
  <2> QED BY <2>1, <2>2, <2>3, <2>5, InterruptedKept
<1> QED BY <1>1, <1>2 DEF Devices

LEMMA AwakeKept ==
  ASSUME TypeOK
  PROVE  /\ Kept(Awake, Open) /\ Awake.pc = cpu.pc /\ Awake.mem = cpu.mem /\ Awake.r = cpu.r
         /\ Fetched(Awake).mem = cpu.mem
BY DEF TypeOK, Kept, IsProcessor, Fields, Awake, Open, Fetched, Past

LEMMA StepKeeps ==
  ASSUME TypeOK, Next PROVE Kept(cpu', Open)
<1>1. ASSUME NEW codes, Run(codes) PROVE Kept(cpu', Open)
  <2>1. PICK answer \in PortBytes : Devices(Instruction(Fetched(Awake), Opcode(cpu), answer), answer)
    BY <1>1 DEF Run
  <2>2. Kept(Fetched(Awake), Open) /\ answer \in Byte
    BY AwakeKept, FetchedKept, BytesAssumption
  <2>3. Opcode(cpu) \in Byte
    BY NumberIsByte DEF TypeOK
  <2>4. Opcode(cpu) \in Prefixes => RowEnds(Fetched(Awake))
    BY <1>1, AwakeKept DEF Run, RowEnds, Peek
  <2>5. Kept(Instruction(Fetched(Awake), Opcode(cpu), answer), Open)
    BY <2>2, <2>3, <2>4, InstructionKept DEF Open
  <2> QED BY <2>1, <2>2, <2>5, DevicesKeep
<1>2. CASE RunHalted
  <2> DEFINE r == 128 * Top(Awake.r) + ((Awake.r + 3) % 128)
  <2>1. r \in Byte
    BY AwakeKept, RefreshIsByte DEF Kept, IsProcessor
  <2>2. Devices([Awake EXCEPT !.r = r], 0)
    BY <1>2 DEF RunHalted
  <2> HIDE DEF r
  <2>3. Kept([Awake EXCEPT !.r = r], Open)
    BY <2>1, AwakeKept, RefreshedKept
  <2>4. 0 \in Byte
    BY DEF Byte
  <2> QED BY <2>2, <2>3, <2>4, DevicesKeep
<1> QED BY <1>1, <1>2 DEF Next, RunPlain, RunBits, RunExtended, RunIndexed

\* Every register and every byte stays within its width whatever the program
\* is, whatever the ports answer and wherever it is interrupted, and no prefix
\* outlives its instruction (CPU_step).
THEOREM ProcessorTyped == Spec => []TypeOK
<1>1. Init => TypeOK
  BY MachinesAssumption DEF Init, TypeOK
<1>2. TypeOK /\ [Next]_vars => TypeOK'
  <2> SUFFICES ASSUME TypeOK, [Next]_vars PROVE TypeOK'
    OBVIOUS
  <2>1. CASE Next
    <3>1. Kept(cpu', Open)
      BY <2>1, StepKeeps
    <3> QED BY <3>1 DEF Kept, Open, TypeOK
  <2>2. CASE UNCHANGED vars
    BY <2>2 DEF vars, TypeOK
  <2> QED BY <2>1, <2>2
<1> QED BY <1>1, <1>2, PTL DEF Spec

\* CP keeps the accumulator and sets the flags of the difference
\* (cp_reg8, cp_num8).
THEOREM CompareRight ==
  ASSUME NEW a \in Byte, NEW b \in Byte
  PROVE  SubMeaning(a, b, 0, Low(a - b), Compare(a, b).f)
<1> DEFINE r == a - b
           f == Compare(a, b).f
           g == Sub(a, b, 0).f
<1>1. a \in Int /\ b \in Int /\ a - b - 0 = r /\ r \in Int
  BY DEF Byte
<1>2. SubMeaning(a, b, 0, Sub(a, b, 0).r, g)
  BY SubRight
<1>3. Sub(a, b, 0).r = Low(r)
  BY <1>1 DEF Sub
<1>4. g = SignZero(r) \cup Copies(r) \cup HalfSub(a, b, 0) \cup OverSub(a, b, r) \cup {"N"} \cup Carry9(r)
  BY <1>1 DEF Sub
<1>5. f = SignZero(r) \cup Copies(b) \cup HalfSub(a, b, 0) \cup OverSub(a, b, r) \cup {"N"} \cup Carry9(r)
  BY DEF Compare
<1>6. \A v : Copies(v) \subseteq {"F3", "F5"}
  BY DEF Copies, On
<1> HIDE DEF r, f, g
<1>7. \A n \in {"C", "P", "H", "Z", "S", "N"} : n \in f <=> n \in g
  BY <1>4, <1>5, <1>6
<1> QED BY <1>2, <1>3, <1>7 DEF SubMeaning, r, f

\* INC and DEC of a byte are the addition and the subtraction of 1, but that they
\* leave the carry as it was (inc_reg8, dec_reg8).
CountFlags(f, carried) == (f \ {"C"}) \cup On("C", carried)

LEMMA SameSum ==
  ASSUME NEW v \in Byte, NEW f
  PROVE  LET out == Inc(v, f)
             g   == Add(v, 1, 0).f
         IN /\ out.r = Add(v, 1, 0).r
            /\ \A n \in {"P", "H", "Z", "S", "N"} : n \in out.f <=> n \in g
            /\ "C" \in g <=> v = 255
<1> DEFINE r == v + 1
           w == Low(r)
<1>1. v \in Int /\ v + 1 + 0 = r /\ r \in 0..511
  BY DEF Byte
<1>2. Low(w) = w /\ (Has(w, 128) <=> Has(r, 128)) /\ (Has(r, 256) <=> v = 255)
  BY DEF Low, Has, Byte
<1>3. Add(v, 1, 0).r = w /\ Inc(v, f).r = w
  BY <1>1 DEF Add, Inc
<1>4. Add(v, 1, 0).f = SignZero(r) \cup Copies(r) \cup HalfAdd(v, 1, 0) \cup OverAdd(v, 1, r) \cup Carry9(r)
  BY <1>1 DEF Add
<1>5. Inc(v, f).f = SignZero(w) \cup Copies(w) \cup HalfAdd(v, 1, 0) \cup OverAdd(v, 1, w) \cup (f \cap {"C"})
  BY DEF Inc
<1> HIDE DEF w, r
<1>6. w = Low(r)
  BY DEF w
<1>7. SignZero(w) = SignZero(r) /\ OverAdd(v, 1, w) = OverAdd(v, 1, r)
  <2>1. Low(w) = Low(r)
    BY <1>2, <1>6
  <2>2. SignZero(w) = SignZero(r)
    BY <1>2, <2>1 DEF SignZero, On
  <2>3. OverAdd(v, 1, w) = OverAdd(v, 1, r)
    BY <1>2 DEF OverAdd, On
  <2> QED BY <2>2, <2>3
<1>8. \A x : Copies(x) \subseteq {"F3", "F5"} /\ SignZero(x) \subseteq {"S", "Z"}
  BY DEF Copies, SignZero, On
<1>9. Carry9(r) \subseteq {"C"} /\ ("C" \in Carry9(r) <=> v = 255)
  BY <1>2 DEF Carry9, On
<1>10. HalfAdd(v, 1, 0) \subseteq {"H"} /\ OverAdd(v, 1, r) \subseteq {"P"}
  BY DEF HalfAdd, OverAdd, On
<1>11. "C" \in Add(v, 1, 0).f <=> v = 255
  BY <1>4, <1>8, <1>9, <1>10
<1>12. \A n \in {"P", "H", "Z", "S", "N"} : n \in Inc(v, f).f <=> n \in Add(v, 1, 0).f
  BY <1>4, <1>5, <1>7, <1>8, <1>9
<1> QED BY <1>3, <1>11, <1>12

LEMMA SameDifference ==
  ASSUME NEW v \in Byte, NEW f
  PROVE  LET out == Dec(v, f)
             g   == Sub(v, 1, 0).f
         IN /\ out.r = Sub(v, 1, 0).r
            /\ \A n \in {"P", "H", "Z", "S", "N"} : n \in out.f <=> n \in g
            /\ "C" \in g <=> v = 0
<1> DEFINE r == v - 1
           w == Low(r)
<1>1. v \in Int /\ v - 1 - 0 = r /\ r \in -256..255
  BY DEF Byte
<1>2. Low(w) = w /\ (Has(w, 128) <=> Has(r, 128)) /\ (Has(r, 256) <=> v = 0)
  BY DEF Low, Has, Byte
<1>3. Sub(v, 1, 0).r = w /\ Dec(v, f).r = w
  BY <1>1 DEF Sub, Dec
<1>4. Sub(v, 1, 0).f = SignZero(r) \cup Copies(r) \cup HalfSub(v, 1, 0) \cup OverSub(v, 1, r) \cup {"N"} \cup Carry9(r)
  BY <1>1 DEF Sub
<1>5. Dec(v, f).f = SignZero(w) \cup Copies(w) \cup HalfSub(v, 1, 0) \cup OverSub(v, 1, w) \cup {"N"} \cup (f \cap {"C"})
  BY DEF Dec
<1> HIDE DEF w, r
<1>6. w = Low(r)
  BY DEF w
<1>7. SignZero(w) = SignZero(r) /\ OverSub(v, 1, w) = OverSub(v, 1, r)
  <2>1. Low(w) = Low(r)
    BY <1>2, <1>6
  <2>2. SignZero(w) = SignZero(r)
    BY <1>2, <2>1 DEF SignZero, On
  <2>3. OverSub(v, 1, w) = OverSub(v, 1, r)
    BY <1>2 DEF OverSub, On
  <2> QED BY <2>2, <2>3
<1>8. \A x : Copies(x) \subseteq {"F3", "F5"} /\ SignZero(x) \subseteq {"S", "Z"}
  BY DEF Copies, SignZero, On
<1>9. Carry9(r) \subseteq {"C"} /\ ("C" \in Carry9(r) <=> v = 0)
  BY <1>2 DEF Carry9, On
<1>10. HalfSub(v, 1, 0) \subseteq {"H"} /\ OverSub(v, 1, r) \subseteq {"P"}
  BY DEF HalfSub, OverSub, On
<1>11. "C" \in Sub(v, 1, 0).f <=> v = 0
  BY <1>4, <1>8, <1>9, <1>10
<1>12. \A n \in {"P", "H", "Z", "S", "N"} : n \in Dec(v, f).f <=> n \in Sub(v, 1, 0).f
  BY <1>4, <1>5, <1>7, <1>8, <1>9
<1> QED BY <1>3, <1>11, <1>12

LEMMA CountRight ==
  ASSUME NEW v \in Byte, NEW f
  PROVE  /\ AddMeaning(v, 1, 0, Inc(v, f).r, CountFlags(Inc(v, f).f, v = 255))
         /\ SubMeaning(v, 1, 0, Dec(v, f).r, CountFlags(Dec(v, f).f, v = 0))
         /\ Inc(v, f).f \cap {"C"} = f \cap {"C"} /\ Dec(v, f).f \cap {"C"} = f \cap {"C"}
<1>1. 1 \in Byte /\ 0 \in {0, 1}
  BY DEF Byte
<1>2. AddMeaning(v, 1, 0, Add(v, 1, 0).r, Add(v, 1, 0).f)
  BY <1>1, AddRight
<1>3. SubMeaning(v, 1, 0, Sub(v, 1, 0).r, Sub(v, 1, 0).f)
  BY <1>1, SubRight
<1>4. /\ \A n \in {"P", "H", "Z", "S", "N"} : n \in Inc(v, f).f <=> n \in CountFlags(Inc(v, f).f, v = 255)
      /\ "C" \in CountFlags(Inc(v, f).f, v = 255) <=> v = 255
  BY DEF CountFlags, On
<1>5. /\ \A n \in {"P", "H", "Z", "S", "N"} : n \in Dec(v, f).f <=> n \in CountFlags(Dec(v, f).f, v = 0)
      /\ "C" \in CountFlags(Dec(v, f).f, v = 0) <=> v = 0
  BY DEF CountFlags, On
<1>6. AddMeaning(v, 1, 0, Inc(v, f).r, CountFlags(Inc(v, f).f, v = 255))
  BY <1>2, <1>4, SameSum DEF AddMeaning
<1>7. SubMeaning(v, 1, 0, Dec(v, f).r, CountFlags(Dec(v, f).f, v = 0))
  BY <1>3, <1>5, SameDifference DEF SubMeaning
<1>8. Inc(v, f).f \cap {"C"} = f \cap {"C"}
  BY DEF Inc, SignZero, Copies, HalfAdd, OverAdd, On
<1>9. Dec(v, f).f \cap {"C"} = f \cap {"C"}
  BY DEF Dec, SignZero, Copies, HalfSub, OverSub, On
<1> QED BY <1>6, <1>7, <1>8, <1>9

(***************************************************************************)
(* What the processor computes.                                            *)
(***************************************************************************)
\* A step that was not disturbed left what its instruction did.
LEMMA Quiet ==
  ASSUME NEW u, Kept(u, Open), NEW answer \in Byte, Devices(u, answer),
         u.iff1 = cpu.iff1, Undisturbed, ~AfterControlLoad(u)
  PROVE  cpu' = u
<1> SUFFICES ASSUME NEW bus \in BusBytes, bus \in Prefixes => RowEnds(u),
                    cpu' = Interrupted(Acknowledged(u), bus, answer)
             PROVE  cpu' = u
  BY DEF Devices
<1>1. Acknowledged(u) = u
  BY DEF Acknowledged
<1>2. CASE ~u.iff1
  BY <1>1, <1>2 DEF Interrupted
<1>3. CASE u.iff1
  <2>1. Kept(cpu', Shut)
    BY <1>1, <1>3, BytesAssumption, InterruptedKept
  <2> QED BY <1>3, <2>1 DEF Kept, Shut, Calm, Undisturbed
<1> QED BY <1>2, <1>3

LEMMA AwakeRuns ==
  ASSUME TypeOK, Next, ~cpu.halt
  PROVE  \E answer \in Byte :
            /\ Devices(Instruction(Fetched(Awake), Opcode(cpu), answer), answer)
            /\ Kept(Instruction(Fetched(Awake), Opcode(cpu), answer), Open)
<1>1. ASSUME NEW codes, Run(codes)
      PROVE  \E answer \in Byte :
                /\ Devices(Instruction(Fetched(Awake), Opcode(cpu), answer), answer)
                /\ Kept(Instruction(Fetched(Awake), Opcode(cpu), answer), Open)
  <2>1. PICK answer \in PortBytes : Devices(Instruction(Fetched(Awake), Opcode(cpu), answer), answer)
    BY <1>1 DEF Run
  <2>2. Kept(Fetched(Awake), Open) /\ answer \in Byte
    BY AwakeKept, FetchedKept, BytesAssumption
  <2>3. Opcode(cpu) \in Byte
    BY NumberIsByte DEF TypeOK
  <2>4. Opcode(cpu) \in Prefixes => RowEnds(Fetched(Awake))
    BY <1>1, AwakeKept DEF Run, RowEnds, Peek
  <2>5. Kept(Instruction(Fetched(Awake), Opcode(cpu), answer), Open)
    BY <2>2, <2>3, <2>4, InstructionKept DEF Open
  <2> QED BY <2>1, <2>2, <2>5
<1>2. ~RunHalted
  BY DEF RunHalted
<1> QED BY <1>1, <1>2 DEF Next, RunPlain, RunBits, RunExtended, RunIndexed

\* What the fetch of an opcode leaves alone.
Alike(t, s) ==
  /\ t.reg = s.reg /\ t.f = s.f /\ t.mem = s.mem /\ t.iff1 = s.iff1 /\ t.sp = s.sp
  /\ t.index = s.index /\ t.halt = s.halt

LEMMA FetchedAlike ==
  ASSUME NEW s, IsProcessor(s)
  PROVE  Alike(Fetched(s), s) /\ Fetched(s).pc = Low16(s.pc + 1) /\ IsProcessor(Fetched(s))
<1>1. Alike(Fetched(s), s) /\ Fetched(s).pc = Low16(s.pc + 1)
  BY DEF Alike, Fetched, Past, IsProcessor, Fields
<1>2. Kept(s, [calm |-> FALSE, names |-> {s.index}])
  BY DEF Kept
<1>3. Kept(Fetched(s), [calm |-> FALSE, names |-> {s.index}])
  BY <1>2, FetchedKept
<1> QED BY <1>1, <1>3 DEF Kept

LEMMA Begun ==
  ASSUME TypeOK
  PROVE  /\ Alike(Fetched(Awake), cpu) /\ Fetched(Awake).pc = Low16(cpu.pc + 1)
         /\ IsProcessor(Fetched(Awake)) /\ Fetched(Awake).index = "hl"
<1>1. IsProcessor(Awake)
  BY AwakeKept DEF Kept
<1>2. Alike(Awake, cpu) /\ Awake.pc = cpu.pc
  BY DEF Alike, Awake, TypeOK, IsProcessor, Fields
<1>3. Alike(Fetched(Awake), Awake) /\ Fetched(Awake).pc = Low16(Awake.pc + 1) /\ IsProcessor(Fetched(Awake))
  BY <1>1, FetchedAlike
<1>4. cpu.index = "hl"
  BY DEF TypeOK
<1> QED BY <1>2, <1>3, <1>4 DEF Alike

LEMMA OneBack ==
  /\ \A pc \in Word : Low16(Low16(pc + 1) - 1) = pc
  /\ \A pc \in Word : Low16(Low16(Low16(pc + 1) + 1) - 1) = Low16(pc + 1)
<1>1. ASSUME NEW pc \in Word PROVE Low16(Low16(pc + 1) - 1) = pc
  <2>1. pc \in Int /\ 0 <= pc /\ pc <= 65535
    BY WordIs
  <2>2. CASE pc = 65535
    <3>1. Low16(pc + 1) = 0
      BY <2>2 DEF Low16
    <3>2. Low16(0 - 1) = 65535
      <4>1. ASSUME NEW x \in Int, -65536 <= x, x < 0 PROVE Low16(x) = x + 65536
        BY <4>1 DEF Low16
      <4> QED BY <4>1
    <3> QED BY <2>2, <3>1, <3>2
  <2>3. CASE pc < 65535
    <3>1. Low16(pc + 1) = pc + 1
      BY <2>1, <2>3 DEF Low16
    <3>2. Low16(pc) = pc
      BY <2>1 DEF Low16
    <3>3. (pc + 1) - 1 = pc
      BY <2>1
    <3> QED BY <3>1, <3>2, <3>3
  <2> QED BY <2>1, <2>2, <2>3
<1>2. \A pc \in Word : Low16(pc + 1) \in Word
  BY Widths
<1> QED BY <1>1, <1>2

\* What an operation on the accumulator leaves.
LEMMA OnAccIs ==
  ASSUME NEW s, IsProcessor(s), NEW out
  PROVE  /\ OnAcc(s, out).reg["a"] = out.r /\ OnAcc(s, out).f = out.f
         /\ OnAcc(s, out).mem = s.mem /\ OnAcc(s, out).iff1 = s.iff1 /\ OnAcc(s, out).pc = s.pc
         /\ OnAcc(s, out).halt = s.halt
BY DEF OnAcc, WithFlags, SetReg, IsProcessor, Fields, Registers

LEMMA WithFlagsIs ==
  ASSUME NEW s, IsProcessor(s), NEW f
  PROVE  /\ WithFlags(s, f).reg = s.reg /\ WithFlags(s, f).f = f
         /\ WithFlags(s, f).mem = s.mem /\ WithFlags(s, f).iff1 = s.iff1 /\ WithFlags(s, f).pc = s.pc
BY DEF WithFlags, IsProcessor, Fields

LEMMA SetRegIs ==
  ASSUME NEW s, IsProcessor(s), NEW n \in Registers, NEW v
  PROVE  /\ SetReg(s, n, v).reg[n] = v /\ SetReg(s, n, v).f = s.f
         /\ SetReg(s, n, v).mem = s.mem /\ SetReg(s, n, v).iff1 = s.iff1 /\ SetReg(s, n, v).pc = s.pc
BY DEF SetReg, IsProcessor, Fields

LEMMA AccumulatorComputes ==
  ASSUME NEW s, IsProcessor(s), NEW v \in Byte, NEW y \in {0, 1, 2, 3, 7},
         NEW u, u = Accumulate(s, y, v)
  PROVE  LET a == s.reg["a"]
             c == CarryBit(s.f)
         IN /\ u.mem = s.mem /\ u.iff1 = s.iff1 /\ u.pc = s.pc
            /\ y = 0 => AddMeaning(a, v, 0, u.reg["a"], u.f)
            /\ y = 1 => AddMeaning(a, v, c, u.reg["a"], u.f)
            /\ y = 2 => SubMeaning(a, v, 0, u.reg["a"], u.f)
            /\ y = 3 => SubMeaning(a, v, c, u.reg["a"], u.f)
            /\ y = 7 => u.reg["a"] = a /\ SubMeaning(a, v, 0, Low(a - v), u.f)
<1> DEFINE a == s.reg["a"]
           c == CarryBit(s.f)
<1>1. a \in Byte
  BY DEF IsProcessor, Registers
<1>2. c \in {0, 1} /\ 0 \in {0, 1}
  BY CarryIsBit
<1> HIDE DEF a, c
<1>3. CASE y = 0
  <2>1. u = OnAcc(s, Add(a, v, 0))
    BY <1>3 DEF Accumulate, AddA, a
  <2> QED BY <1>1, <1>2, <1>3, <2>1, OnAccIs, AddRight DEF a
<1>4. CASE y = 1
  <2>1. u = OnAcc(s, Add(a, v, c))
    BY <1>4 DEF Accumulate, AddA, a, c
  <2> QED BY <1>1, <1>2, <1>4, <2>1, OnAccIs, AddRight DEF a, c
<1>5. CASE y = 2
  <2>1. u = OnAcc(s, Sub(a, v, 0))
    BY <1>5 DEF Accumulate, SubA, a
  <2> QED BY <1>1, <1>2, <1>5, <2>1, OnAccIs, SubRight DEF a
<1>6. CASE y = 3
  <2>1. u = OnAcc(s, Sub(a, v, c))
    BY <1>6 DEF Accumulate, SubA, a, c
  <2> QED BY <1>1, <1>2, <1>6, <2>1, OnAccIs, SubRight DEF a, c
<1>7. CASE y = 7
  <2>1. u = WithFlags(s, Compare(a, v).f)
    BY <1>7 DEF Accumulate, CompareA, a
  <2> QED BY <1>1, <1>7, <2>1, WithFlagsIs, CompareRight DEF a
<1> QED BY <1>3, <1>4, <1>5, <1>6, <1>7

LEMMA CountComputes ==
  ASSUME NEW s, IsProcessor(s), NEW op \in Byte, Y(op) # 6
  PROVE  LET v == Operand(s, Y(op))
             n == Name(s, Y(op))
         IN /\ \A u \in {IncReg8(s, op), DecReg8(s, op)} :
                   u.mem = s.mem /\ u.iff1 = s.iff1 /\ u.pc = s.pc
            /\ IncReg8(s, op).reg[n] = Inc(v, s.f).r /\ IncReg8(s, op).f = Inc(v, s.f).f
            /\ DecReg8(s, op).reg[n] = Dec(v, s.f).r /\ DecReg8(s, op).f = Dec(v, s.f).f
<1> DEFINE v == Operand(s, Y(op))
           n == Name(s, Y(op))
<1>1. n \in Registers
  <2>1. s.index \in {"hl", "ix", "iy"}
    BY DEF IsProcessor
  <2>2. Y(op) \in 0..7
    BY OpcodeParts
  <2> QED BY <2>1, <2>2, Names
<1>2. v \in Byte
  BY OperandIsByte, OpcodeParts
<1>3. IncReg8(s, op) = WithFlags(SetReg(s, n, Inc(v, s.f).r), Inc(v, s.f).f)
  BY DEF IncReg8, SetOperand
<1>4. DecReg8(s, op) = WithFlags(SetReg(s, n, Dec(v, s.f).r), Dec(v, s.f).f)
  BY DEF DecReg8, SetOperand
<1> HIDE DEF v, n
<1>5. ASSUME NEW x \in Byte, NEW f
      PROVE  LET u == WithFlags(SetReg(s, n, x), f)
             IN u.mem = s.mem /\ u.iff1 = s.iff1 /\ u.pc = s.pc /\ u.reg[n] = x /\ u.f = f
  BY <1>1 DEF WithFlags, SetReg, IsProcessor, Fields
<1>6. Inc(v, s.f).r \in Byte /\ Dec(v, s.f).r \in Byte
  BY <1>2, IncIsOut, Widths DEF IsOut, IsProcessor
<1> QED BY <1>3, <1>4, <1>5, <1>6 DEF v, n

\* Operands are the same once the opcode is fetched.
LEMMA AlikeOperands ==
  ASSUME NEW s, NEW t, Alike(t, s), s.index = "hl"
  PROVE  /\ \A n : Operand(t, n) = Operand(s, n) /\ Name(t, n) = Name(s, n) /\ PastOperand(t, n) = t
         /\ \A p : Pair(t, p) = Pair(s, p)
         /\ \A a : Peek(t, a) = Peek(s, a)
<1>1. \A p : Pair(t, p) = Pair(s, p)
  BY DEF Alike, Pair
<1>2. \A a : Peek(t, a) = Peek(s, a)
  BY DEF Alike, Peek
<1>3. ~Indexed(t) /\ ~Indexed(s) /\ t.index = s.index /\ t.reg = s.reg
  BY DEF Alike, Indexed
<1>4. \A n : Name(t, n) = Name(s, n)
  BY <1>3 DEF Name
<1>5. Place(t) = Place(s)
  BY <1>1, <1>3 DEF Place
<1>6. \A n : Operand(t, n) = Operand(s, n)
  BY <1>2, <1>3, <1>4, <1>5 DEF Operand
<1>7. \A n : PastOperand(t, n) = t
  BY <1>3 DEF PastOperand, PastPlace
<1> QED BY <1>1, <1>2, <1>4, <1>6, <1>7

\* No interrupt finds LD A,I or LD A,R just behind an opcode that is neither.
LEMMA NoControlLoad ==
  ASSUME NEW u, NEW op, op \notin {87, 95}, Peek(u, Low16(u.pc - 1)) = op
  PROVE  ~AfterControlLoad(u)
BY DEF AfterControlLoad

LEMMA AccumulatorRight == ASSUME TypeOK, Next PROVE AccumulatorStep
<1> DEFINE s  == Fetched(Awake)
           op == Opcode(cpu)
           v  == Operand(cpu, Z(op))
<1> SUFFICES ASSUME X(op) = 2, Undisturbed
             PROVE  LET a == cpu.reg["a"]
                        c == CarryBit(cpu.f)
                        a2 == cpu'.reg["a"]
                    IN /\ Y(op) = 0 => AddMeaning(a, v, 0, a2, cpu'.f)
                       /\ Y(op) = 1 => AddMeaning(a, v, c, a2, cpu'.f)
                       /\ Y(op) = 2 => SubMeaning(a, v, 0, a2, cpu'.f)
                       /\ Y(op) = 3 => SubMeaning(a, v, c, a2, cpu'.f)
                       /\ Y(op) = 7 => a2 = a /\ SubMeaning(a, v, 0, Low(a - v), cpu'.f)
  BY DEF AccumulatorStep
<1>1. op \in Byte /\ Y(op) \in 0..7 /\ Z(op) \in 0..7 /\ op = 128 + 8 * Y(op) + Z(op)
  BY NumberIsByte, OpcodeParts DEF TypeOK
<1>2. op \notin {87, 95, 203, 237} /\ op \notin Prefixes
  BY <1>1 DEF Prefixes
<1>3. PICK answer \in Byte : /\ Devices(Instruction(s, op, answer), answer)
                             /\ Kept(Instruction(s, op, answer), Open)
  BY AwakeRuns DEF Undisturbed
<1>4. Alike(s, cpu) /\ s.pc = Low16(cpu.pc + 1) /\ IsProcessor(s)
  BY Begun
<1> HIDE DEF s
<1>5. cpu.index = "hl" /\ IsProcessor(cpu) /\ cpu.pc \in Word
  BY DEF TypeOK, IsProcessor
<1> DEFINE u == Accumulate(s, Y(op), v)
<1>6. Instruction(s, op, answer) = u
  <2>1. Instruction(s, op, answer) = Execute(s, op, answer)
    BY <1>2 DEF Instruction, Opened
  <2>2. Execute(s, op, answer) = Arithmetic(s, op)
    BY DEF Execute
  <2>3. Operand(s, Z(op)) = v /\ PastOperand(s, Z(op)) = s
    BY <1>4, <1>5, AlikeOperands
  <2> QED BY <2>1, <2>2, <2>3 DEF Arithmetic
<1>7. v \in Byte
  BY <1>1, <1>5, OperandIsByte
<1> DEFINE y == Y(op)
<1>y. Y(op) = y
  OBVIOUS
<1>8. CASE Y(op) \in {0, 1, 2, 3, 7}
  <2>0. y \in {0, 1, 2, 3, 7}
    BY <1>8
  <2> HIDE DEF op, v, y
  <2>1. /\ u.mem = s.mem /\ u.iff1 = s.iff1 /\ u.pc = s.pc
        /\ y = 0 => AddMeaning(s.reg["a"], v, 0, u.reg["a"], u.f)
        /\ y = 1 => AddMeaning(s.reg["a"], v, CarryBit(s.f), u.reg["a"], u.f)
        /\ y = 2 => SubMeaning(s.reg["a"], v, 0, u.reg["a"], u.f)
        /\ y = 3 => SubMeaning(s.reg["a"], v, CarryBit(s.f), u.reg["a"], u.f)
        /\ y = 7 => /\ u.reg["a"] = s.reg["a"]
                    /\ SubMeaning(s.reg["a"], v, 0, Low(s.reg["a"] - v), u.f)
    BY <1>4, <1>7, <1>y, <2>0, AccumulatorComputes
  <2> HIDE DEF u
  <2>2. Low16(u.pc - 1) = cpu.pc /\ u.mem = cpu.mem /\ u.iff1 = cpu.iff1
    BY <1>4, <1>5, <2>1, OneBack DEF Alike
  <2>3. Peek(u, Low16(u.pc - 1)) = op
    BY <2>2 DEF Peek, Opcode, op
  <2>4. cpu' = u
    BY <1>2, <1>3, <1>6, <2>2, <2>3, NoControlLoad, Quiet
  <2> QED BY <1>4, <1>y, <2>1, <2>4 DEF Alike
<1> QED BY <1>1, <1>8

LEMMA CountsRight == ASSUME TypeOK, Next PROVE CountStep
<1> DEFINE s  == Fetched(Awake)
           op == Opcode(cpu)
           n  == Name(cpu, Y(op))
           v  == Operand(cpu, Y(op))
<1> SUFFICES ASSUME X(op) = 0, Y(op) # 6, Undisturbed, Z(op) \in {4, 5}
             PROVE  /\ Z(op) = 4 => AddMeaning(v, 1, 0, cpu'.reg[n], CountFlags(cpu'.f, v = 255))
                    /\ Z(op) = 5 => SubMeaning(v, 1, 0, cpu'.reg[n], CountFlags(cpu'.f, v = 0))
                    /\ (cpu'.f \cap {"C"}) = (cpu.f \cap {"C"})
  BY DEF CountStep, CountFlags
<1>1. op \in Byte /\ Y(op) \in 0..7 /\ Z(op) \in 0..7 /\ op = 8 * Y(op) + Z(op)
  BY NumberIsByte, OpcodeParts DEF TypeOK
<1>2. op \notin {87, 95, 203, 237} /\ op \notin Prefixes
  BY <1>1 DEF Prefixes
<1>3. PICK answer \in Byte : /\ Devices(Instruction(s, op, answer), answer)
                             /\ Kept(Instruction(s, op, answer), Open)
  BY AwakeRuns DEF Undisturbed
<1>4. Alike(s, cpu) /\ s.pc = Low16(cpu.pc + 1) /\ IsProcessor(s)
  BY Begun
<1> HIDE DEF s
<1>5. cpu.index = "hl" /\ IsProcessor(cpu) /\ cpu.pc \in Word
  BY DEF TypeOK, IsProcessor
<1> DEFINE u == IF Z(op) = 4 THEN IncReg8(s, op) ELSE DecReg8(s, op)
<1>6. Instruction(s, op, answer) = u
  <2>1. Instruction(s, op, answer) = Execute(s, op, answer)
    BY <1>2 DEF Instruction, Opened
  <2>2. Execute(s, op, answer) = FirstQuarter(s, op)
    BY DEF Execute
  <2>3. Z(op) = 4 => FirstQuarter(s, op) = IncReg8(s, op)
    BY DEF FirstQuarter
  <2>4. Z(op) = 5 => FirstQuarter(s, op) = DecReg8(s, op)
    BY DEF FirstQuarter
  <2> QED BY <2>1, <2>2, <2>3, <2>4
<1>7. v \in Byte
  BY <1>1, <1>5, OperandIsByte
<1>8. Operand(s, Y(op)) = v /\ Name(s, Y(op)) = n
  BY <1>4, <1>5, AlikeOperands
<1> HIDE DEF v, n
<1>9. /\ u.mem = s.mem /\ u.iff1 = s.iff1 /\ u.pc = s.pc
      /\ Z(op) = 4 => u.reg[n] = Inc(v, s.f).r /\ u.f = Inc(v, s.f).f
      /\ Z(op) = 5 => u.reg[n] = Dec(v, s.f).r /\ u.f = Dec(v, s.f).f
  BY <1>1, <1>4, <1>8, CountComputes
<1> DEFINE z == Z(op)
<1>z. z = Z(op) /\ z \in {4, 5}
  OBVIOUS
<1> HIDE DEF u, op, z
<1>10. Low16(u.pc - 1) = cpu.pc /\ u.mem = cpu.mem /\ u.iff1 = cpu.iff1
  BY <1>4, <1>5, <1>9, OneBack DEF Alike
<1>11. Peek(u, Low16(u.pc - 1)) = op
  BY <1>10 DEF Peek, Opcode, op
<1>12. cpu' = u
  BY <1>2, <1>3, <1>6, <1>10, <1>11, NoControlLoad, Quiet
<1>13. s.f = cpu.f
  BY <1>4 DEF Alike
<1>14. CASE z = 4
  BY <1>7, <1>9, <1>12, <1>13, <1>14, <1>z, CountRight
<1>15. CASE z = 5
  BY <1>7, <1>9, <1>12, <1>13, <1>15, <1>z, CountRight
<1> QED BY <1>14, <1>15, <1>z

\* Sixteen bits.
LEMMA HighLow == \A w \in Word : 256 * High(w) + Low(w) = w
<1> SUFFICES ASSUME NEW w \in Int, 0 <= w, w <= 65535 PROVE 256 * (w \div 256) + (w % 256) = w
  BY WordIs DEF High, Low
<1> QED OBVIOUS

LEMMA SetHL ==
  ASSUME NEW s, IsProcessor(s), NEW w \in Word, NEW f
  PROVE  LET u == WithFlags(SetPair(s, "hl", w), f)
         IN /\ Pair(u, "hl") = w /\ u.f = f
            /\ u.mem = s.mem /\ u.iff1 = s.iff1 /\ u.pc = s.pc
<1> DEFINE u == WithFlags(SetPair(s, "hl", w), f)
<1>1. Halves["hl"][1] = "h" /\ Halves["hl"][2] = "l"
  BY DEF Halves
<1>2. SetPair(s, "hl", w) = SetReg(SetReg(s, "h", High(w)), "l", Low(w))
  BY <1>1 DEF SetPair
<1>3. u = WithFlags(SetReg(SetReg(s, "h", High(w)), "l", Low(w)), f)
  BY <1>2
<1> HIDE DEF u
<1>4. /\ u.reg["h"] = High(w) /\ u.reg["l"] = Low(w) /\ u.f = f
      /\ u.mem = s.mem /\ u.iff1 = s.iff1 /\ u.pc = s.pc
  BY <1>3 DEF WithFlags, SetReg, IsProcessor, Fields, Registers
<1>5. Pair(u, "hl") = 256 * High(w) + Low(w)
  BY <1>1, <1>4 DEF Pair
<1> QED BY <1>4, <1>5, HighLow DEF u

LEMMA WidesRight == ASSUME TypeOK, Next PROVE WideStep
<1> DEFINE s  == Fetched(Awake)
           t  == Fetched(s)
           op == Peek(cpu, Low16(cpu.pc + 1))
           a  == Pair(cpu, "hl")
           v  == Pair(cpu, WidePair(op))
           c  == CarryBit(cpu.f)
           x  == cpu.reg["a"]
<1> SUFFICES ASSUME Opcode(cpu) = 237, X(op) = 1, Undisturbed
             PROVE  /\ Z(op) = 2 /\ Y(op) % 2 = 0 => Sub16Meaning(a, v, c, Pair(cpu', "hl"), cpu'.f)
                    /\ Z(op) = 2 /\ Y(op) % 2 = 1 => Add16Meaning(a, v, c, Pair(cpu', "hl"), cpu'.f)
                    /\ Z(op) = 4 => SubMeaning(0, x, 0, cpu'.reg["a"], cpu'.f)
  BY DEF WideStep
<1>1. op \in Byte /\ Y(op) \in 0..7 /\ Z(op) \in 0..7 /\ op = 64 + 8 * Y(op) + Z(op)
  BY PeekIsByte, OpcodeParts DEF TypeOK
<1>2. Z(op) \in {2, 4} => op \notin {87, 95}
  BY <1>1
<1>3. PICK answer \in Byte : /\ Devices(Instruction(s, 237, answer), answer)
                             /\ Kept(Instruction(s, 237, answer), Open)
  BY AwakeRuns DEF Undisturbed
<1>4. Alike(s, cpu) /\ s.pc = Low16(cpu.pc + 1) /\ IsProcessor(s)
  BY Begun
<1>5. Alike(t, s) /\ t.pc = Low16(s.pc + 1) /\ IsProcessor(t)
  BY <1>4, FetchedAlike
<1>6. cpu.index = "hl" /\ IsProcessor(cpu) /\ cpu.pc \in Word
  BY DEF TypeOK, IsProcessor
<1>7. Instruction(s, 237, answer) = Extended(t, Opcode(s), answer)
  BY DEF Instruction, Opened, Prefixes
<1> HIDE DEF s, t
<1>8. Opcode(s) = op
  BY <1>4 DEF Alike, Opcode, Peek
<1>9. Instruction(s, 237, answer) = Column(t, op, answer)
  BY <1>7, <1>8 DEF Extended
<1>10. Alike(t, cpu)
  BY <1>4, <1>5 DEF Alike
<1>11. \A p : Pair(t, p) = Pair(cpu, p)
  BY <1>6, <1>10, AlikeOperands
<1>12. a \in Word /\ v \in Word /\ x \in Byte /\ c \in {0, 1}
  BY <1>1, <1>6, PairIsWord, WidePairs, CarryIsBit DEF Pairs, IsProcessor, Registers
<1>13. Low16(t.pc - 1) = Low16(cpu.pc + 1)
  BY <1>4, <1>5, <1>6, OneBack
<1>14. t.f = cpu.f /\ t.reg = cpu.reg /\ t.mem = cpu.mem /\ t.iff1 = cpu.iff1
  BY <1>10 DEF Alike
\* Whatever of these it is, the step ends with what the instruction left.
<1>15. ASSUME NEW u, u = Instruction(s, 237, answer), Z(op) \in {2, 4},
              u.mem = t.mem, u.iff1 = t.iff1, u.pc = t.pc
       PROVE  cpu' = u
  <2>1. Peek(u, Low16(u.pc - 1)) = op
    BY <1>13, <1>14, <1>15 DEF Peek
  <2> HIDE DEF op
  <2> QED BY <1>2, <1>3, <1>14, <1>15, <2>1, NoControlLoad, Quiet
<1>16. CASE Z(op) = 2 /\ Y(op) % 2 = 0
  <2> DEFINE out == Sbc16(a, v, c)
             u   == WithFlags(SetPair(t, "hl", out.r), out.f)
  <2>1. Column(t, op, answer) = WideSubtract(t, op)
    BY <1>16 DEF Column
  <2>2. Instruction(s, 237, answer) = u
    BY <1>9, <1>11, <1>14, <2>1 DEF WideSubtract
  <2>3. out.r \in Word
    <3>1. a \in Int /\ v \in Int /\ c \in Int /\ {} \subseteq Flags
      BY <1>12, WordIs
    <3> HIDE DEF a, v, c
    <3>2. IsWideOut(out)
      BY <3>1, WideIsOut
    <3> QED BY <3>2 DEF IsWideOut
  <2>4. Sub16Meaning(a, v, c, out.r, out.f)
    BY <1>12, WordIs, Sbc16Right DEF Within
  <2>q. Z(op) \in {2, 4} /\ Y(op) % 2 # 1
    BY <1>16
  <2> HIDE DEF out, op, a, v, c, x
  <2>5. /\ Pair(u, "hl") = out.r /\ u.f = out.f
        /\ u.mem = t.mem /\ u.iff1 = t.iff1 /\ u.pc = t.pc
    BY <1>5, <2>3, SetHL
  <2> HIDE DEF u
  <2>6. cpu' = u
    BY <1>15, <2>2, <2>5, <2>q
  <2> QED BY <1>16, <2>4, <2>5, <2>6, <2>q
<1>17. CASE Z(op) = 2 /\ Y(op) % 2 = 1
  <2> DEFINE out == Adc16(a, v, c)
             u   == WithFlags(SetPair(t, "hl", out.r), out.f)
  <2>1. Column(t, op, answer) = WideAdd(t, op)
    BY <1>17 DEF Column
  <2>2. Instruction(s, 237, answer) = u
    BY <1>9, <1>11, <1>14, <2>1 DEF WideAdd
  <2>3. out.r \in Word
    <3>1. a \in Int /\ v \in Int /\ c \in Int /\ {} \subseteq Flags
      BY <1>12, WordIs
    <3> HIDE DEF a, v, c
    <3>2. IsWideOut(out)
      BY <3>1, WideIsOut
    <3> QED BY <3>2 DEF IsWideOut
  <2>4. Add16Meaning(a, v, c, out.r, out.f)
    BY <1>12, WordIs, Adc16Right DEF Within
  <2>q. Z(op) \in {2, 4} /\ Y(op) % 2 # 0
    BY <1>17
  <2> HIDE DEF out, op, a, v, c, x
  <2>5. /\ Pair(u, "hl") = out.r /\ u.f = out.f
        /\ u.mem = t.mem /\ u.iff1 = t.iff1 /\ u.pc = t.pc
    BY <1>5, <2>3, SetHL
  <2> HIDE DEF u
  <2>6. cpu' = u
    BY <1>15, <2>2, <2>5, <2>q
  <2> QED BY <1>17, <2>4, <2>5, <2>6, <2>q
<1>18. CASE Z(op) = 4
  <2> DEFINE u == OnAcc(t, Neg(x))
  <2>1. Column(t, op, answer) = OnAcc(t, Neg(t.reg["a"]))
    BY <1>18 DEF Column
  <2>2. Instruction(s, 237, answer) = u
    BY <1>9, <1>14, <2>1
  <2>3. 0 \in Byte /\ 0 \in {0, 1}
    BY DEF Byte
  <2>4. SubMeaning(0, x, 0, Neg(x).r, Neg(x).f)
    BY <1>12, <2>3, SubRight DEF Neg
  <2>5. /\ u.reg["a"] = Neg(x).r /\ u.f = Neg(x).f
        /\ u.mem = t.mem /\ u.iff1 = t.iff1 /\ u.pc = t.pc
    BY <1>5, OnAccIs
  <2>q. Z(op) \in {2, 4} /\ Z(op) # 2
    BY <1>18
  <2> HIDE DEF u, op, x, a, v, c
  <2>6. cpu' = u
    BY <1>15, <2>2, <2>5, <2>q
  <2> QED BY <2>4, <2>5, <2>6, <2>q
<1> QED BY <1>16, <1>17, <1>18

\* The masks and shifts of the flag macros tell, for every addition,
\* subtraction, comparison and count of 8 and 16 bits the processor runs, whether
\* the unsigned range, the signed range and the low digit were left (alu.c).
THEOREM ArithmeticIsRight == Spec => ArithmeticMeans
<1>1. TypeOK /\ [Next]_vars => [AccumulatorStep /\ CountStep /\ WideStep]_vars
  BY AccumulatorRight, CountsRight, WidesRight
<1> QED BY <1>1, ProcessorTyped, PTL DEF Spec, ArithmeticMeans

(***************************************************************************)
(* Decimal programs.                                                       *)
(***************************************************************************)
\* Where no interrupt is enabled a step leaves what its instruction did.
LEMMA Deaf ==
  ASSUME NEW u, NEW answer, Devices(u, answer), ~u.iff1, ~AfterControlLoad(u) PROVE cpu' = u
BY DEF Devices, Interrupted, Acknowledged

DecimalCarry == IF Y(Opcode(start)) \in {1, 3} THEN CarryBit(start.f) ELSE 0
Unadjusted ==
  IF Y(Opcode(start)) < 2 THEN Add(start.reg["a"], start.reg["b"], DecimalCarry)
                          ELSE Sub(start.reg["a"], start.reg["b"], DecimalCarry)
Adjusted == Daa(Unadjusted.r, Unadjusted.f)

\* Where a decimal program is, and what it has computed so far.
DecimalInv ==
  start.kind = "decimal" =>
    /\ IsDecimalProgram(start) /\ IsProcessor(start)
    /\ cpu.mem = start.mem /\ ~cpu.iff1 /\ ~cpu.halt
    /\ \/ cpu.pc = 256 /\ cpu.reg = start.reg /\ cpu.f = start.f
       \/ cpu.pc = 257 /\ cpu.reg["a"] = Unadjusted.r /\ cpu.f = Unadjusted.f
       \/ cpu.pc = 258 /\ cpu.reg["a"] = Adjusted.r /\ cpu.f = Adjusted.f

\* What the instruction at pc leaves, when it is one on the accumulator.
LEMMA OnAccRuns ==
  ASSUME TypeOK, Next, ~cpu.halt, ~cpu.iff1, NEW op, op = Opcode(cpu), op \notin {87, 95, 203, 237},
         op \notin Prefixes, NEW out,
         \A s, answer : IsProcessor(s) /\ Alike(s, cpu) => Execute(s, op, answer) = OnAcc(s, out)
  PROVE  /\ cpu'.mem = cpu.mem /\ ~cpu'.iff1 /\ ~cpu'.halt /\ cpu'.pc = Low16(cpu.pc + 1)
         /\ cpu'.reg["a"] = out.r /\ cpu'.f = out.f
<1> DEFINE s == Fetched(Awake)
<1>1. PICK answer \in Byte : Devices(Instruction(s, op, answer), answer)
  BY AwakeRuns
<1>2. Alike(s, cpu) /\ s.pc = Low16(cpu.pc + 1) /\ IsProcessor(s)
  BY Begun
<1> HIDE DEF s
<1> DEFINE u == OnAcc(s, out)
<1>3. Instruction(s, op, answer) = u
  <2>1. Instruction(s, op, answer) = Execute(s, op, answer)
    BY DEF Instruction, Opened
  <2> QED BY <1>2, <2>1
<1>4. /\ u.reg["a"] = out.r /\ u.f = out.f /\ u.halt = s.halt
      /\ u.mem = s.mem /\ u.iff1 = s.iff1 /\ u.pc = s.pc
  BY <1>2, OnAccIs
<1> HIDE DEF u
<1>5. cpu.pc \in Word
  BY DEF TypeOK, IsProcessor
<1>6. Low16(u.pc - 1) = cpu.pc /\ u.mem = cpu.mem /\ ~u.iff1 /\ ~u.halt
  BY <1>2, <1>4, <1>5, OneBack DEF Alike
<1>7. Peek(u, Low16(u.pc - 1)) = op
  BY <1>6 DEF Peek, Opcode
<1>8. cpu' = u
  BY <1>1, <1>3, <1>6, <1>7, NoControlLoad, Deaf
<1> QED BY <1>2, <1>4, <1>6, <1>8

LEMMA SumRuns ==
  ASSUME NEW op \in {128, 136, 144, 152}, cpu.index = "hl", NEW s, Alike(s, cpu), NEW answer
  PROVE  LET a == cpu.reg["a"]
             b == cpu.reg["b"]
             c == IF Y(op) \in {1, 3} THEN CarryBit(cpu.f) ELSE 0
         IN Execute(s, op, answer) = OnAcc(s, IF Y(op) < 2 THEN Add(a, b, c) ELSE Sub(a, b, c))
<1>1. /\ X(op) = 2 /\ Z(op) = 0
      /\ op = 128 => Y(op) = 0
      /\ op = 136 => Y(op) = 1
      /\ op = 144 => Y(op) = 2
      /\ op = 152 => Y(op) = 3
  BY DEF X, Y, Z
<1>2. s.reg = cpu.reg /\ s.f = cpu.f /\ s.index = "hl"
  BY DEF Alike
<1>3. Name(s, 0) = "b"
  BY DEF Name
<1>4. Operand(s, 0) = cpu.reg["b"] /\ PastOperand(s, 0) = s
  BY <1>2, <1>3 DEF Operand, PastOperand
<1> DEFINE b == cpu.reg["b"]
<1>5. Execute(s, op, answer) = Accumulate(s, Y(op), b)
  BY <1>1, <1>4 DEF Execute, Arithmetic
<1> HIDE DEF b
<1>6. CASE Y(op) = 0
  BY <1>2, <1>5, <1>6 DEF Accumulate, AddA, b
<1>7. CASE Y(op) = 1
  BY <1>2, <1>5, <1>7 DEF Accumulate, AddA, b
<1>8. CASE Y(op) = 2
  BY <1>2, <1>5, <1>8 DEF Accumulate, SubA, b
<1>9. CASE Y(op) = 3
  BY <1>2, <1>5, <1>9 DEF Accumulate, SubA, b
<1> QED BY <1>1, <1>6, <1>7, <1>8, <1>9

LEMMA DaaRuns ==
  ASSUME NEW s, Alike(s, cpu), NEW answer
  PROVE  Execute(s, 39, answer) = OnAcc(s, Daa(cpu.reg["a"], cpu.f))
<1>1. X(39) = 0 /\ Z(39) = 7
  BY DEF X, Z
<1>2. Execute(s, 39, answer) = FirstQuarter(s, 39)
  BY <1>1 DEF Execute
<1>3. FirstQuarter(s, 39) = Column7(s, 39)
  BY <1>1 DEF FirstQuarter
<1> QED BY <1>2, <1>3 DEF Column7, Alike

LEMMA DecimalStep == ASSUME TypeOK, DecimalInv, MCNext PROVE DecimalInv'
<1>0. Next /\ start' = start
  BY DEF MCNext, Next, RunPlain, RunBits, RunExtended, RunIndexed, RunHalted, Run
<1> SUFFICES ASSUME start.kind = "decimal"
             PROVE  /\ IsDecimalProgram(start) /\ IsProcessor(start)
                    /\ cpu'.mem = start.mem /\ ~cpu'.iff1 /\ ~cpu'.halt
                    /\ \/ cpu'.pc = 256 /\ cpu'.reg = start.reg /\ cpu'.f = start.f
                       \/ cpu'.pc = 257 /\ cpu'.reg["a"] = Unadjusted.r /\ cpu'.f = Unadjusted.f
                       \/ cpu'.pc = 258 /\ cpu'.reg["a"] = Adjusted.r /\ cpu'.f = Adjusted.f
  BY <1>0 DEF DecimalInv, Unadjusted, Adjusted, DecimalCarry
<1>1. /\ IsDecimalProgram(start) /\ IsProcessor(start)
      /\ cpu.mem = start.mem /\ ~cpu.iff1 /\ ~cpu.halt /\ cpu.index = "hl"
  BY DEF DecimalInv, TypeOK
<1>2. cpu.pc # 258
  BY <1>1 DEF MCNext, Followed, IsDecimalProgram, Origin
<1>3. \A a : Peek(cpu, a) = Peek(start, a)
  BY <1>1 DEF Peek
<1>4. CASE cpu.pc = 256 /\ cpu.reg = start.reg /\ cpu.f = start.f
  <2> DEFINE op == Opcode(start)
  <2>1. op = Opcode(cpu) /\ op \in {128, 136, 144, 152}
    BY <1>1, <1>3, <1>4 DEF Opcode, IsDecimalProgram, Origin
  <2>2. op \notin {87, 95, 203, 237} /\ op \notin Prefixes
    BY <2>1 DEF Prefixes
  <2>3. \A s, answer : Alike(s, cpu) => Execute(s, op, answer) = OnAcc(s, Unadjusted)
    BY <1>1, <1>4, <2>1, SumRuns DEF Unadjusted, DecimalCarry
  <2>4. Low16(cpu.pc + 1) = 257
    BY <1>4 DEF Low16
  <2> HIDE DEF op
  <2>5. /\ cpu'.mem = cpu.mem /\ ~cpu'.iff1 /\ ~cpu'.halt /\ cpu'.pc = 257
        /\ cpu'.reg["a"] = Unadjusted.r /\ cpu'.f = Unadjusted.f
    BY <1>0, <1>1, <2>1, <2>2, <2>3, <2>4, OnAccRuns
  <2> QED BY <1>1, <2>5
<1>5. CASE cpu.pc = 257 /\ cpu.reg["a"] = Unadjusted.r /\ cpu.f = Unadjusted.f
  <2>1. 39 = Opcode(cpu) /\ 39 \notin {87, 95, 203, 237} /\ 39 \notin Prefixes
    BY <1>1, <1>3, <1>5 DEF Opcode, IsDecimalProgram, Origin, Prefixes
  <2>2. \A s, answer : Alike(s, cpu) => Execute(s, 39, answer) = OnAcc(s, Adjusted)
    BY <1>5, DaaRuns DEF Adjusted
  <2>3. Low16(cpu.pc + 1) = 258
    BY <1>5 DEF Low16
  <2>4. /\ cpu'.mem = cpu.mem /\ ~cpu'.iff1 /\ ~cpu'.halt /\ cpu'.pc = 258
        /\ cpu'.reg["a"] = Adjusted.r /\ cpu'.f = Adjusted.f
    BY <1>0, <1>1, <2>1, <2>2, <2>3, OnAccRuns
  <2> QED BY <1>1, <2>4
<1> QED BY <1>2, <1>4, <1>5 DEF DecimalInv

LEMMA DecimalAtEnd == ASSUME DecimalInv PROVE DecimalRight
<1> DEFINE a == start.reg["a"]
           b == start.reg["b"]
           c == DecimalCarry
           y == Y(Opcode(start))
<1> SUFFICES ASSUME AtEnd("decimal")
             PROVE  LET exact == IF y < 2 THEN Decimal(a) + Decimal(b) + c
                                 ELSE Decimal(a) - Decimal(b) - c
                    IN /\ IsDecimal(cpu.reg["a"])
                       /\ Decimal(cpu.reg["a"]) = exact % 100
                       /\ "C" \in cpu.f <=> exact \notin 0..99
  BY DEF DecimalRight, DecimalCarry
<1>1. IsDecimalProgram(start) /\ IsProcessor(start) /\ cpu.pc = 258
  BY DEF DecimalInv, AtEnd, IsDecimalProgram, Origin
<1>2. cpu.reg["a"] = Adjusted.r /\ cpu.f = Adjusted.f
  BY <1>1 DEF DecimalInv, AtEnd
<1>3. a \in Byte /\ b \in Byte /\ IsDecimal(a) /\ IsDecimal(b)
  BY <1>1 DEF IsProcessor, IsDecimalProgram, Registers
<1>4. c \in {0, 1}
  BY CarryIsBit DEF DecimalCarry
<1>5. Decimal(a) \in 0..99 /\ Decimal(b) \in 0..99
  BY <1>3 DEF Decimal, IsDecimal, Byte
<1> HIDE DEF a, b, c, y
<1>6. CASE y < 2
  <2>1. Adjusted = Daa(Add(a, b, c).r, Add(a, b, c).f)
    BY <1>6 DEF Adjusted, Unadjusted, a, b, c, y
  <2>2. /\ IsDecimal(cpu.reg["a"])
        /\ Decimal(cpu.reg["a"]) = (Decimal(a) + Decimal(b) + c) % 100
        /\ "C" \in cpu.f <=> Decimal(a) + Decimal(b) + c > 99
    BY <1>2, <1>3, <1>4, <2>1, DaaAfterAdd
  <2>3. Decimal(a) + Decimal(b) + c > 99 <=> Decimal(a) + Decimal(b) + c \notin 0..99
    BY <1>4, <1>5
  <2> QED BY <1>6, <2>2, <2>3
<1>7. CASE ~(y < 2)
  <2>1. Adjusted = Daa(Sub(a, b, c).r, Sub(a, b, c).f)
    BY <1>7 DEF Adjusted, Unadjusted, a, b, c, y
  <2>2. /\ IsDecimal(cpu.reg["a"])
        /\ Decimal(cpu.reg["a"]) = (Decimal(a) - Decimal(b) - c) % 100
        /\ "C" \in cpu.f <=> Decimal(a) - Decimal(b) - c < 0
    BY <1>2, <1>3, <1>4, <2>1, DaaAfterSub
  <2>3. Decimal(a) - Decimal(b) - c < 0 <=> Decimal(a) - Decimal(b) - c \notin 0..99
    BY <1>4, <1>5
  <2> QED BY <1>7, <2>2, <2>3
<1> QED BY <1>6, <1>7

\* A program that adds or subtracts two decimal bytes, whichever they are, and
\* adjusts the result, ends with the decimal result and the carry out of two
\* digits (daa).
THEOREM DecimalProgramsAreRight == MCSpec => []DecimalRight
<1>1. Init => DecimalInv
  BY MachinesAssumption, DecimalAssumption DEF Init, DecimalInv, IsDecimalProgram, Origin
<1>2. TypeOK /\ DecimalInv /\ [MCNext]_vars => DecimalInv'
  <2>1. DecimalInv /\ UNCHANGED vars => DecimalInv'
    BY DEF DecimalInv, vars, Unadjusted, Adjusted, DecimalCarry
  <2> QED BY <2>1, DecimalStep
<1>3. MCSpec => Spec
  <2>1. [MCNext]_vars => [Next]_vars
    BY DEF MCNext
  <2> QED BY <2>1, PTL DEF MCSpec, Spec
<1> QED BY <1>1, <1>2, <1>3, ProcessorTyped, DecimalAtEnd, PTL DEF MCSpec

(***************************************************************************)
(* Idle programs and their handler.                                        *)
(***************************************************************************)
\* The places pc can be at in the program.
Point(pc) == \E n \in 0..100 : Loop(start, n) /\ pc \in 256..(256 + n)

\* The program and the handler are as they were.
CodeKept(s) == \A a \in 0..511 : Peek(s, a) = Peek(start, a)
Base(s) == Kept(s, Open) /\ s.imode = 1 /\ CodeKept(s)

\* The program runs, the handler runs, or the handler is about to return.
Main(s) == s.sp = start.sp /\ Point(s.pc)
Frame(s) == ~s.halt /\ Point(Peek16(s, start.sp - 2))
Handling(s) ==
  /\ Frame(s) /\ ~s.iff1
  /\ \/ s.sp = start.sp - 2 /\ s.pc \in {56, 60}
     \/ s.sp = start.sp - 4 /\ s.pc \in {57, 58, 59}
Returning(s) == Frame(s) /\ s.ei_block /\ s.sp = start.sp - 2 /\ s.pc = 61
Where(s) == Main(s) \/ Handling(s) \/ Returning(s)

FrameInv ==
  start.kind = "idle" => IsIdleProgram(start) /\ start.sp \in Word /\ Base(cpu) /\ Where(cpu)

\* What a byte of memory reads after another, or itself, is written.
LEMMA PokeReads ==
  ASSUME NEW s, IsProcessor(s), NEW a \in Word, NEW v, NEW b
  PROVE  Peek(Poke(s, a, v), b) = IF b = a THEN v ELSE Peek(s, b)
<1>1. Low16(a) = a
  BY WordIs DEF Low16
<1>2. Poke(s, a, v).mem = Put(s.mem, a, v)
  BY <1>1 DEF Poke, IsProcessor, Fields
<1> QED BY <1>2 DEF Peek, Put

\* What a push does to the memory.
LEMMA PushReads ==
  ASSUME NEW s, NEW q, Kept(s, q), NEW w \in Word, 2 <= s.sp
  PROVE  /\ Pushed(s, w).sp = s.sp - 2 /\ Pushed(s, w).pc = s.pc /\ Pushed(s, w).imode = s.imode
         /\ Pushed(s, w).iff1 = s.iff1 /\ Pushed(s, w).halt = s.halt /\ Pushed(s, w).ei_block = s.ei_block
         /\ Peek16(Pushed(s, w), s.sp - 2) = w
         /\ \A b : b \notin {s.sp - 2, s.sp - 1} => Peek(Pushed(s, w), b) = Peek(s, b)
<1> DEFINE x == s.sp - 2
           t == [s EXCEPT !.sp = Low16(@ - 2)]
           u == Poke(t, x, Low(w))
           z == Poke(u, x + 1, High(w))
<1>1. s.sp \in Int /\ s.sp <= 65535
  BY WordIs DEF Kept, IsProcessor
<1>2. x \in Int /\ 0 <= x /\ x <= 65533
  BY <1>1
<1>3. x \in Word /\ x + 1 \in Word /\ Low16(x) = x /\ Low16(x + 1) = x + 1 /\ x # x + 1 /\ x + 1 = s.sp - 1
  <2>1. Low16(x) = x /\ Low16(x + 1) = x + 1
    <3> HIDE DEF x
    <3> QED BY <1>2 DEF Low16
  <2> QED BY <1>1, <1>2, <2>1, WordIs
<1>4. t.sp = x
  BY <1>3 DEF Kept, IsProcessor, Fields
<1>5. Kept(t, q) /\ t.mem = s.mem /\ t.pc = s.pc /\ t.imode = s.imode /\ t.iff1 = s.iff1 /\ t.halt = s.halt
      /\ t.ei_block = s.ei_block
  BY <1>3 DEF Kept, IsProcessor, Fields, Calm
<1>6. Pushed(s, w) = z
  BY DEF Pushed, Poke16
<1> HIDE DEF t, x
<1>7. Low(w) \in Byte /\ High(w) \in Byte /\ Low(w) + 256 * High(w) = w
  BY Widths, HighLow
<1>8. Kept(u, q) /\ Kept(z, q)
  <2>1. x \in Int /\ x + 1 \in Int
    BY <1>2
  <2> HIDE DEF u
  <2>2. Kept(u, q)
    BY <1>5, <1>7, <2>1, PokeKept DEF u
  <2> QED BY <1>7, <2>1, <2>2, PokeKept
<1>9. /\ z.sp = t.sp /\ z.pc = t.pc /\ z.imode = t.imode /\ z.iff1 = t.iff1 /\ z.halt = t.halt
      /\ z.ei_block = t.ei_block
  BY <1>5 DEF Poke, Kept, IsProcessor, Fields
<1>10. \A b : Peek(u, b) = IF b = x THEN Low(w) ELSE Peek(t, b)
  BY <1>3, <1>5, PokeReads DEF Kept
<1> HIDE DEF u
<1>11. \A b : Peek(z, b) = IF b = x + 1 THEN High(w) ELSE Peek(u, b)
  BY <1>3, <1>8, PokeReads DEF Kept
<1>12. \A b : Peek(t, b) = Peek(s, b)
  BY <1>5 DEF Peek
<1> HIDE DEF z
<1>13. Peek(z, x) = Low(w) /\ Peek(z, x + 1) = High(w)
  BY <1>3, <1>10, <1>11
<1>14. Peek16(z, x) = w
  BY <1>3, <1>7, <1>13 DEF Peek16
<1>15. \A b : b \notin {s.sp - 2, s.sp - 1} => Peek(z, b) = Peek(s, b)
  BY <1>3, <1>10, <1>11, <1>12 DEF x
<1> QED BY <1>4, <1>5, <1>6, <1>9, <1>14, <1>15 DEF x

\* Every place of the program is below the code's end.
LEMMA PointIsWord == \A pc : Point(pc) => pc \in Int /\ 256 <= pc /\ pc <= 356
BY DEF Point

\* The devices' turn, after whatever instruction.
LEMMA DevicesInFrame ==
  ASSUME IsIdleProgram(start), start.sp \in Word, NEW s, Base(s), Where(s), NEW answer \in Byte,
         Devices(s, answer)
  PROVE  Base(cpu') /\ Where(cpu')
<1> SUFFICES ASSUME NEW bus \in BusBytes, ~s.ei_block,
                    cpu' = Interrupted(Acknowledged(s), bus, answer)
             PROVE  Base(cpu') /\ Where(cpu')
  BY DEF Devices
<1> DEFINE t == Acknowledged(s)
           r == [t EXCEPT !.iff1 = FALSE, !.iff2 = FALSE, !.halt = FALSE]
<1>1. /\ Kept(t, Open) /\ t.mem = s.mem /\ t.sp = s.sp /\ t.pc = s.pc /\ t.imode = s.imode
      /\ t.iff1 = s.iff1 /\ t.halt = s.halt /\ t.ei_block = s.ei_block
  BY AcknowledgedKept DEF Base, Acknowledged, Kept, IsProcessor, Fields
<1> HIDE DEF t
<1>2. Base(t) /\ Where(t)
  <2>1. \A a : Peek(t, a) = Peek(s, a) /\ Peek16(t, a) = Peek16(s, a)
    BY <1>1 DEF Peek, Peek16
  <2> QED BY <1>1, <2>1 DEF Base, CodeKept, Where, Main, Frame, Handling, Returning
<1>3. cpu' = Interrupted(t, bus, answer)
  BY DEF t
<1>4. CASE ~t.iff1
  BY <1>2, <1>3, <1>4 DEF Interrupted
<1>5. CASE t.iff1
  <2>1. Main(t)
    BY <1>1, <1>2, <1>5 DEF Where, Handling, Returning
  <2>2. cpu' = Rst(r, 255)
    <3>1. t.imode = 1
      BY <1>2 DEF Base
    <3>2. t.imode = 1 => Interrupted(t, bus, answer) = Rst(r, 255)
      BY <1>5 DEF Interrupted
    <3> QED BY <1>3, <3>1, <3>2
  <2>3. /\ Kept(r, Open) /\ r.mem = t.mem /\ r.sp = t.sp /\ r.pc = t.pc /\ r.imode = 1
        /\ ~r.iff1 /\ ~r.halt
    BY <1>2 DEF Base, Kept, IsProcessor, Fields, Calm, Open
  <2> HIDE DEF r
  <2> DEFINE p == Pushed(r, r.pc)
  <2>4. Y(255) = 7
    BY DEF Y
  <2>5. cpu' = JumpTo(p, 56)
    BY <2>2, <2>4 DEF Rst
  <2>6. r.sp = start.sp /\ Point(r.pc) /\ r.pc \in Word /\ start.sp \in Int /\ 516 <= start.sp
    BY <2>1, <2>3, WordIs DEF Main, Kept, IsProcessor, IsIdleProgram
  <2>7. 2 <= r.sp
    BY <2>6
  <2>8. /\ p.sp = start.sp - 2 /\ p.imode = 1 /\ ~p.iff1 /\ ~p.halt
        /\ Peek16(p, start.sp - 2) = r.pc
        /\ \A b : b \notin {start.sp - 2, start.sp - 1} => Peek(p, b) = Peek(r, b)
    BY <2>3, <2>6, <2>7, PushReads
  <2>9. Kept(p, Open)
    BY <2>3, <2>6, PushedKept
  <2> HIDE DEF p
  <2>10. 56 \in Word
    BY WordIs
  <2>11. Kept(cpu', Open)
    BY <2>5, <2>9, <2>10, JumpToKept
  <2>12. /\ cpu'.sp = p.sp /\ cpu'.mem = p.mem /\ cpu'.imode = 1 /\ ~cpu'.iff1 /\ ~cpu'.halt
         /\ cpu'.pc = 56
    BY <2>5, <2>8, <2>9 DEF JumpTo, Kept, IsProcessor, Fields
  <2>13. \A a : Peek(cpu', a) = Peek(p, a) /\ Peek16(cpu', a) = Peek16(p, a)
    BY <2>12 DEF Peek, Peek16
  <2>14. \A a : Peek(r, a) = Peek(t, a)
    BY <2>3 DEF Peek
  <2>15. CodeKept(cpu')
    <3> SUFFICES ASSUME NEW a \in 0..511 PROVE Peek(cpu', a) = Peek(start, a)
      BY DEF CodeKept
    <3>1. a \notin {start.sp - 2, start.sp - 1}
      BY <2>6
    <3> QED BY <1>2, <2>8, <2>13, <2>14, <3>1 DEF Base, CodeKept
  <2> QED BY <2>6, <2>8, <2>11, <2>12, <2>13, <2>15 DEF Base, Where, Handling, Frame
<1> QED BY <1>4, <1>5

\* The opcodes of idle programs, without a prefix.
LEMMA IdleOpcodes ==
  ASSUME NEW s, s.index = "hl", NEW answer
  PROVE  /\ Execute(s, 0, answer) = s
         /\ Execute(s, 118, answer) = Halt(s)
         /\ Execute(s, 243, answer) = Disable(s)
         /\ Execute(s, 251, answer) = Enable(s)
         /\ Execute(s, 24, answer) = JumpNear(s)
<1>1. Execute(s, 0, answer) = s
  <2>1. X(0) = 0 /\ Z(0) = 0
    BY DEF X, Z
  <2>2. Execute(s, 0, answer) = FirstQuarter(s, 0)
    BY <2>1 DEF Execute
  <2>3. FirstQuarter(s, 0) = Column0(s, 0)
    BY <2>1 DEF FirstQuarter
  <2> QED BY <2>2, <2>3 DEF Column0
<1>2. Execute(s, 118, answer) = Halt(s)
  <2>1. X(118) = 1
    BY DEF X
  <2> QED BY <2>1 DEF Execute, LoadOrHalt
<1>3. Execute(s, 243, answer) = Disable(s)
  <2>1. X(243) = 3 /\ Z(243) = 3 /\ Y(243) = 6
    BY DEF X, Y, Z
  <2>2. Execute(s, 243, answer) = LastQuarter(s, 243, answer)
    BY <2>1 DEF Execute
  <2> QED BY <2>1, <2>2 DEF LastQuarter
<1>4. Execute(s, 251, answer) = Enable(s)
  <2>1. X(251) = 3 /\ Z(251) = 3 /\ Y(251) = 7
    BY DEF X, Y, Z
  <2>2. Execute(s, 251, answer) = LastQuarter(s, 251, answer)
    BY <2>1 DEF Execute
  <2> QED BY <2>1, <2>2 DEF LastQuarter
<1>5. Execute(s, 24, answer) = JumpNear(s)
  <2>1. X(24) = 0 /\ Z(24) = 0
    BY DEF X, Z
  <2>2. Execute(s, 24, answer) = FirstQuarter(s, 24)
    BY <2>1 DEF Execute
  <2>3. FirstQuarter(s, 24) = Column0(s, 24)
    BY <2>1 DEF FirstQuarter
  <2> QED BY <2>2, <2>3 DEF Column0
<1> QED BY <1>1, <1>2, <1>3, <1>4, <1>5

\* The opcodes of the handler.
LEMMA HandlerOpcodes ==
  ASSUME NEW s, s.index = "hl", NEW answer
  PROVE  /\ Execute(s, 245, answer) = Pushed(s, Pair(s, "af"))
         /\ \E v : Execute(s, 60, answer) = OnAcc(s, v)
         /\ \E v : Execute(s, 183, answer) = OnAcc(s, v)
         /\ Execute(s, 241, answer) = SetPair(Popped(s), "af", TopWord(s))
         /\ Execute(s, 201, answer) = JumpTo(Popped(s), TopWord(s))
<1>1. Execute(s, 245, answer) = Pushed(s, Pair(s, "af"))
  <2>1. X(245) = 3 /\ Z(245) = 5 /\ Y(245) = 6 /\ P(245) = 3
    BY DEF X, Y, Z, P
  <2>2. Execute(s, 245, answer) = LastQuarter(s, 245, answer)
    BY <2>1 DEF Execute
  <2>3. LastQuarter(s, 245, answer) = Push(s, 245)
    BY <2>1 DEF LastQuarter
  <2>4. StackName(s, 3) = "af"
    BY DEF StackName
  <2> QED BY <2>1, <2>2, <2>3, <2>4 DEF Push
<1>2. \E v : Execute(s, 60, answer) = OnAcc(s, v)
  <2>1. X(60) = 0 /\ Z(60) = 4 /\ Y(60) = 7
    BY DEF X, Y, Z
  <2>2. Execute(s, 60, answer) = FirstQuarter(s, 60)
    BY <2>1 DEF Execute
  <2>3. FirstQuarter(s, 60) = IncReg8(s, 60)
    BY <2>1 DEF FirstQuarter
  <2>4. Name(s, 7) = "a"
    BY DEF Name
  <2>5. IncReg8(s, 60) = OnAcc(s, Inc(Operand(s, 7), s.f))
    BY <2>1, <2>4 DEF IncReg8, SetOperand, OnAcc
  <2> QED BY <2>2, <2>3, <2>5
<1>3. \E v : Execute(s, 183, answer) = OnAcc(s, v)
  <2>1. X(183) = 2 /\ Z(183) = 7 /\ Y(183) = 6
    BY DEF X, Y, Z
  <2>2. Execute(s, 183, answer) = Arithmetic(s, 183)
    BY <2>1 DEF Execute
  <2>3. Arithmetic(s, 183) = Accumulate(s, 6, Operand(s, 7))
    BY <2>1 DEF Arithmetic, PastOperand
  <2>4. Accumulate(s, 6, Operand(s, 7)) = OnAcc(s, OrA(s.reg["a"], Operand(s, 7)))
    BY DEF Accumulate
  <2> QED BY <2>2, <2>3, <2>4
<1>4. Execute(s, 241, answer) = SetPair(Popped(s), "af", TopWord(s))
  <2>1. X(241) = 3 /\ Z(241) = 1 /\ Y(241) = 6 /\ P(241) = 3
    BY DEF X, Y, Z, P
  <2>2. Execute(s, 241, answer) = LastQuarter(s, 241, answer)
    BY <2>1 DEF Execute
  <2>3. LastQuarter(s, 241, answer) = Pop(s, 241)
    BY <2>1 DEF LastQuarter
  <2>4. StackName(s, 3) = "af"
    BY DEF StackName
  <2> QED BY <2>1, <2>2, <2>3, <2>4 DEF Pop
<1>5. Execute(s, 201, answer) = JumpTo(Popped(s), TopWord(s))
  <2>1. X(201) = 3 /\ Z(201) = 1 /\ Y(201) = 1
    BY DEF X, Y, Z
  <2>2. Execute(s, 201, answer) = LastQuarter(s, 201, answer)
    BY <2>1 DEF Execute
  <2>3. LastQuarter(s, 201, answer) = Return(s)
    BY <2>1 DEF LastQuarter
  <2> QED BY <2>2, <2>3 DEF Return
<1> QED BY <1>1, <1>2, <1>3, <1>4, <1>5

\* Awake, with the opcode fetched, the processor is where it was but for pc.
LEMMA FrameBegun ==
  ASSUME TypeOK
  PROVE  LET s == Fetched(Awake)
         IN /\ Kept(s, Open) /\ s.index = "hl" /\ s.mem = cpu.mem /\ s.sp = cpu.sp
            /\ s.pc = Low16(cpu.pc + 1) /\ s.imode = cpu.imode /\ s.iff1 = cpu.iff1
            /\ s.halt = cpu.halt /\ ~s.ei_block
<1> DEFINE s == Fetched(Awake)
<1>1. Kept(s, Open)
  BY AwakeKept, FetchedKept
<1>2. /\ s.mem = cpu.mem /\ s.sp = cpu.sp
      /\ s.pc = Low16(cpu.pc + 1) /\ s.imode = cpu.imode /\ s.iff1 = cpu.iff1
      /\ s.halt = cpu.halt /\ ~s.ei_block
  BY DEF TypeOK, IsProcessor, Fields, Awake, Fetched, Past
<1> QED BY <1>1, <1>2 DEF Kept, Open

\* An instruction that leaves the memory alone leaves the program and every word
\* of the stack.
LEMMA BaseFrom ==
  ASSUME NEW s, NEW u, Kept(u, Open), u.imode = 1, u.mem = s.mem, CodeKept(s)
  PROVE  Base(u) /\ \A a : Peek16(u, a) = Peek16(s, a)
BY DEF Base, CodeKept, Peek, Peek16

\* The opcodes an idle program is made of.
LEMMA MainOpcode ==
  ASSUME NEW pc, Point(pc) PROVE Peek(start, pc) \in {0, 24, 118, 243, 251}
<1>1. PICK n \in 0..100 : Loop(start, n) /\ pc \in 256..(256 + n)
  BY DEF Point
<1>2. CASE pc < 256 + n
  <2>1. pc - 256 \in 0..(n - 1) /\ Origin + (pc - 256) = pc
    BY <1>1, <1>2 DEF Origin
  <2> QED BY <1>1, <2>1 DEF Loop
<1>3. CASE pc = 256 + n
  BY <1>1, <1>3 DEF Loop, Origin
<1> QED BY <1>1, <1>2, <1>3

\* The instruction under pc, wherever an idle program is.
LEMMA MainInstruction ==
  ASSUME IsIdleProgram(start), start.sp \in Word, NEW s, NEW op, NEW answer, Point(cpu.pc),
         op = Peek(start, cpu.pc), Kept(s, Open), CodeKept(s), s.imode = 1,
         s.sp = start.sp, s.pc = Low16(cpu.pc + 1),
         NEW u, u = Execute(s, op, answer), Kept(u, Open)
  PROVE  op \in {0, 24, 118, 243, 251} /\ Base(u) /\ Main(u)
<1>1. PICK n \in 0..100 : Loop(start, n) /\ cpu.pc \in 256..(256 + n)
  BY DEF Point
<1>2. s.index = "hl" /\ s.pc = cpu.pc + 1
  BY <1>1 DEF Kept, Open, Low16
<1>3. CASE cpu.pc < 256 + n
  <2>1. op \in {0, 118, 243, 251}
    <3>1. cpu.pc - 256 \in 0..(n - 1) /\ Origin + (cpu.pc - 256) = cpu.pc
      BY <1>1, <1>3 DEF Origin
    <3> QED BY <1>1, <3>1 DEF Loop
  <2>2. Execute(s, op, answer) \in {s, Halt(s), Disable(s), Enable(s)}
    BY <1>2, <2>1, IdleOpcodes
  <2>3. u.sp = s.sp /\ u.pc = s.pc /\ u.imode = 1 /\ u.mem = s.mem
    BY <2>2 DEF Halt, Disable, Enable, Kept, IsProcessor, Fields
  <2>4. Point(s.pc)
    <3>1. s.pc \in 256..(256 + n)
      BY <1>1, <1>2, <1>3
    <3> QED BY <1>1, <3>1 DEF Point
  <2> QED BY <2>1, <2>3, <2>4, BaseFrom DEF Main
<1>4. CASE cpu.pc = 256 + n
  <2>1. op = 24 /\ Signed(Peek(start, cpu.pc + 1)) = -(n + 2)
    BY <1>1, <1>4 DEF Loop, Origin
  <2>2. u = JumpTo(s, Low16(s.pc + 1 + Signed(Number8(s))))
    BY <1>2, <2>1, IdleOpcodes DEF JumpNear
  <2>3. Number8(s) = Peek(start, cpu.pc + 1)
    <3>1. s.pc \in 0..511
      BY <1>1, <1>2
    <3> QED BY <1>2, <3>1 DEF CodeKept, Number8
  <2>4. s.pc + 1 + Signed(Number8(s)) = 256
    BY <1>1, <1>2, <1>4, <2>1, <2>3
  <2>5. Low16(256) = 256
    BY DEF Low16
  <2>6. u.sp = s.sp /\ u.pc = 256 /\ u.imode = 1 /\ u.mem = s.mem
    BY <2>2, <2>4, <2>5 DEF JumpTo, Kept, IsProcessor, Fields
  <2>7. Point(256)
    BY <1>1 DEF Point
  <2> QED BY <2>1, <2>6, <2>7, BaseFrom DEF Main
<1> QED BY <1>1, <1>3, <1>4

\* Places on the stack are words.
LEMMA StackPlaces ==
  ASSUME NEW m \in Int, 516 <= m, m <= 65535
  PROVE  /\ Low16(m - 2) = m - 2 /\ Low16(m - 2 + 1) = m - 1
         /\ Low16(m - 4 + 2) = m - 2 /\ Low16(m - 2 + 2) = m
<1>1. ASSUME NEW x \in Int, 0 <= x, x <= 65535 PROVE Low16(x) = x
  BY <1>1 DEF Low16
<1>2. /\ m - 2 \in Int /\ 0 <= m - 2 /\ m - 2 <= 65535
      /\ m - 1 \in Int /\ 0 <= m - 1 /\ m - 1 <= 65535
      /\ m - 2 + 1 = m - 1 /\ m - 4 + 2 = m - 2 /\ m - 2 + 2 = m
  OBVIOUS
<1> QED BY <1>1, <1>2

\* The handler at 0038h, byte by byte.
LEMMA HandlerBytes ==
  ASSUME HasHandler(start)
  PROVE  /\ Peek(start, 56) = 245 /\ Peek(start, 57) = 60 /\ Peek(start, 58) = 183
         /\ Peek(start, 59) = 241 /\ Peek(start, 60) = 251 /\ Peek(start, 61) = 201
<1> DEFINE code == <<245, 60, 183, 241, 251, 201>>
<1>1. \A k \in 1..6 : Peek(start, 56 + k - 1) = code[k]
  BY DEF HasHandler, Handler
<1>2. /\ code[1] = 245 /\ code[2] = 60 /\ code[3] = 183
      /\ code[4] = 241 /\ code[5] = 251 /\ code[6] = 201
  OBVIOUS
<1> HIDE DEF code
<1>3. \A k \in 1..6 : Peek(start, 55 + k) = code[k]
  BY <1>1
<1>4. /\ Peek(start, 55 + 1) = code[1] /\ Peek(start, 55 + 2) = code[2] /\ Peek(start, 55 + 3) = code[3]
      /\ Peek(start, 55 + 4) = code[4] /\ Peek(start, 55 + 5) = code[5] /\ Peek(start, 55 + 6) = code[6]
  BY <1>3
<1> QED BY <1>2, <1>4

\* The instruction of the handler that pc was at, from its state s with the
\* opcode fetched.
LEMMA HandlerInstruction ==
  ASSUME IsIdleProgram(start), start.sp \in Word, NEW s, Kept(s, Open), s.index = "hl",
         s.imode = 1, CodeKept(s), ~s.halt, Point(Peek16(s, start.sp - 2)),
         NEW pc \in 56..61, s.pc = pc + 1, NEW op, op = Peek(start, pc), NEW answer,
         pc # 61 => ~s.iff1,
         s.sp = IF pc \in {57, 58, 59} THEN start.sp - 4 ELSE start.sp - 2,
         NEW u, u = Execute(s, op, answer), Kept(u, Open)
  PROVE  op \in {60, 183, 201, 241, 245, 251} /\ Base(u) /\ Where(u)
<1> DEFINE m == start.sp
<1>0. HasHandler(start)
  BY DEF IsIdleProgram
<1>1. m \in Int /\ 516 <= m /\ m <= 65535
  BY WordIs DEF IsIdleProgram
<1>2. IsProcessor(s) /\ IsProcessor(u)
  BY DEF Kept
<1>3. CASE pc = 56
  <2>1. op = 245 /\ u = Pushed(s, Pair(s, "af")) /\ s.sp = m - 2 /\ 2 <= s.sp
    BY <1>1, <1>3, <1>0, HandlerBytes, HandlerOpcodes
  <2>2. Pair(s, "af") \in Word
    BY <1>2, PairIsWord DEF Pairs
  <2>3. /\ u.sp = s.sp - 2 /\ u.pc = s.pc /\ u.imode = s.imode /\ u.iff1 = s.iff1 /\ u.halt = s.halt
        /\ \A b : b \notin {s.sp - 2, s.sp - 1} => Peek(u, b) = Peek(s, b)
    BY <2>1, <2>2, PushReads
  <2>4. u.sp = m - 4 /\ s.sp - 2 = m - 4 /\ s.sp - 1 = m - 3
    BY <1>1, <2>1, <2>3
  <2>5. Low16(m - 2) = m - 2 /\ Low16(m - 2 + 1) = m - 1
    BY <1>1, StackPlaces
  <2>6. Peek16(u, m - 2) = Peek16(s, m - 2)
    <3>1. m - 2 \notin {m - 4, m - 3} /\ m - 1 \notin {m - 4, m - 3}
      BY <1>1
    <3> QED BY <2>3, <2>4, <2>5, <3>1 DEF Peek16
  <2>7. CodeKept(u)
    <3> SUFFICES ASSUME NEW a \in 0..511 PROVE Peek(u, a) = Peek(start, a)
      BY DEF CodeKept
    <3>1. a \notin {m - 4, m - 3}
      BY <1>1
    <3> QED BY <2>3, <2>4, <3>1 DEF CodeKept
  <2>8. u.pc = 57
    BY <1>3, <2>3
  <2> QED BY <1>3, <2>1, <2>3, <2>4, <2>6, <2>7, <2>8 DEF Base, Where, Handling, Frame
<1>4. CASE pc \in {57, 58}
  <2>1. op \in {60, 183} /\ \E v : u = OnAcc(s, v)
    BY <1>4, <1>0, HandlerBytes, HandlerOpcodes
  <2>2. /\ u.mem = s.mem /\ u.pc = s.pc /\ u.sp = s.sp /\ u.imode = 1 /\ u.iff1 = s.iff1
        /\ u.halt = s.halt
    BY <1>2, <2>1 DEF OnAcc, WithFlags, SetReg, IsProcessor, Fields
  <2>3. Base(u) /\ Peek16(u, m - 2) = Peek16(s, m - 2)
    BY <2>2, BaseFrom
  <2>4. u.pc \in {58, 59} /\ u.sp = m - 4
    BY <1>4, <2>2
  <2> QED BY <1>4, <2>1, <2>2, <2>3, <2>4 DEF Where, Handling, Frame
<1>5. CASE pc = 59
  <2>1. op = 241 /\ u = SetPair(Popped(s), "af", TopWord(s)) /\ s.sp = m - 4
    BY <1>5, <1>0, HandlerBytes, HandlerOpcodes
  <2>2. Low16(m - 4 + 2) = m - 2
    BY <1>1, StackPlaces
  <2>3. /\ Popped(s).sp = m - 2 /\ Popped(s).mem = s.mem /\ Popped(s).pc = s.pc
        /\ Popped(s).imode = 1 /\ Popped(s).iff1 = s.iff1 /\ Popped(s).halt = s.halt
        /\ Popped(s).reg = s.reg /\ DOMAIN Popped(s) = DOMAIN s
    BY <1>2, <2>1, <2>2 DEF Popped, IsProcessor, Fields
  <2> DEFINE v == Popped(s)
             w == TopWord(s)
  <2>4. u = [SetReg(v, "a", High(w)) EXCEPT !.f = FlagsOf(Low(w))]
    BY <2>1 DEF SetPair
  <2> HIDE DEF v, w
  <2>5. /\ u.sp = m - 2 /\ u.mem = s.mem /\ u.pc = s.pc
        /\ u.imode = 1 /\ u.iff1 = s.iff1 /\ u.halt = s.halt
    BY <1>2, <2>3, <2>4 DEF SetReg, IsProcessor, Fields, v
  <2>6. Base(u) /\ Peek16(u, m - 2) = Peek16(s, m - 2)
    BY <2>5, BaseFrom
  <2>7. u.pc = 60
    BY <1>5, <2>5
  <2> QED BY <1>5, <2>1, <2>5, <2>6, <2>7 DEF Where, Handling, Frame
<1>6. CASE pc = 60
  <2>1. op = 251 /\ u = Enable(s) /\ s.sp = m - 2
    BY <1>6, <1>0, HandlerBytes, IdleOpcodes
  <2>2. /\ u.mem = s.mem /\ u.pc = s.pc /\ u.sp = s.sp /\ u.imode = 1 /\ u.ei_block /\ u.halt = s.halt
    BY <1>2, <2>1 DEF Enable, IsProcessor, Fields
  <2>3. Base(u) /\ Peek16(u, m - 2) = Peek16(s, m - 2)
    BY <2>2, BaseFrom
  <2>4. u.pc = 61
    BY <1>6, <2>2
  <2> QED BY <2>1, <2>2, <2>3, <2>4 DEF Where, Returning, Frame
<1>7. CASE pc = 61
  <2>1. op = 201 /\ u = JumpTo(Popped(s), TopWord(s)) /\ s.sp = m - 2
    BY <1>7, <1>0, HandlerBytes, HandlerOpcodes
  <2>2. Low16(m - 2 + 2) = m
    BY <1>1, StackPlaces
  <2>3. Popped(s).sp = m /\ Popped(s).mem = s.mem /\ Popped(s).imode = 1 /\ DOMAIN Popped(s) = DOMAIN s
    BY <1>2, <2>1, <2>2 DEF Popped, IsProcessor, Fields
  <2>4. u.sp = m /\ u.mem = s.mem /\ u.imode = 1 /\ u.pc = TopWord(s)
    BY <1>2, <2>1, <2>3 DEF JumpTo, IsProcessor, Fields
  <2>5. Point(u.pc)
    BY <2>1, <2>4 DEF TopWord
  <2>6. Base(u)
    BY <2>4, BaseFrom
  <2> QED BY <2>1, <2>4, <2>5, <2>6 DEF Where, Main
<1> QED BY <1>3, <1>4, <1>5, <1>6, <1>7

\* The instruction of an idle program or of its handler.
LEMMA FrameRuns ==
  ASSUME TypeOK, IsIdleProgram(start), start.sp \in Word, Base(cpu), Where(cpu), Next, ~cpu.halt
  PROVE  Base(cpu') /\ Where(cpu')
<1> DEFINE s  == Fetched(Awake)
           op == Opcode(cpu)
<1>1. PICK answer \in Byte : /\ Devices(Instruction(s, op, answer), answer)
                             /\ Kept(Instruction(s, op, answer), Open)
  BY AwakeRuns
<1>2. /\ Kept(s, Open) /\ s.index = "hl" /\ s.mem = cpu.mem /\ s.sp = cpu.sp
      /\ s.pc = Low16(cpu.pc + 1) /\ s.imode = cpu.imode /\ s.iff1 = cpu.iff1
      /\ s.halt = cpu.halt /\ ~s.ei_block
  BY FrameBegun
<1> HIDE DEF s
<1>3. CodeKept(s) /\ s.imode = 1 /\ \A a : Peek16(s, a) = Peek16(cpu, a)
  BY <1>2 DEF Base, CodeKept, Peek, Peek16
<1> DEFINE u == Execute(s, op, answer)
<1>4. op \notin {203, 237} /\ op \notin Prefixes => Instruction(s, op, answer) = u
  BY DEF Instruction, Opened
<1>5. Base(u) /\ Where(u) /\ Instruction(s, op, answer) = u
  <2>1. CASE Main(cpu)
    <3>1. Point(cpu.pc) /\ s.sp = start.sp
      BY <1>2, <2>1 DEF Main
    <3>2. op = Peek(start, cpu.pc)
      BY <3>1, PointIsWord DEF Base, CodeKept, Opcode
    <3>3. op \in {0, 24, 118, 243, 251}
      BY <1>2, <1>3, <3>1, <3>2, MainOpcode
    <3>4. op \notin {203, 237} /\ op \notin Prefixes
      BY <3>3 DEF Prefixes
    <3>5. Kept(u, Open)
      BY <1>1, <1>4, <3>4
    <3> HIDE DEF op
    <3>6. Base(u) /\ Main(u)
      BY <1>2, <1>3, <3>1, <3>2, <3>5, MainInstruction
    <3> QED BY <1>4, <3>4, <3>6 DEF Where
  <2>2. CASE Handling(cpu) \/ Returning(cpu)
    <3>1. /\ cpu.pc \in 56..61
          /\ cpu.pc # 61 => ~cpu.iff1
          /\ cpu.sp = IF cpu.pc \in {57, 58, 59} THEN start.sp - 4 ELSE start.sp - 2
          /\ Point(Peek16(cpu, start.sp - 2)) /\ ~cpu.halt
      BY <2>2 DEF Handling, Returning, Frame
    <3>2. op = Peek(start, cpu.pc)
      BY <3>1 DEF Base, CodeKept, Opcode
    <3>3. s.pc = cpu.pc + 1
      BY <1>2, <3>1 DEF Low16
    <3>4. op \in {60, 183, 201, 241, 245, 251}
      BY <3>1, <3>2, HandlerBytes DEF IsIdleProgram
    <3>5. op \notin {203, 237} /\ op \notin Prefixes
      BY <3>4 DEF Prefixes
    <3>6. Kept(u, Open)
      BY <1>1, <1>4, <3>5
    <3> HIDE DEF op
    <3>7. Base(u) /\ Where(u)
      BY <1>2, <1>3, <3>1, <3>2, <3>3, <3>6, HandlerInstruction
    <3> QED BY <1>4, <3>5, <3>7
  <2> QED BY <2>1, <2>2 DEF Where
<1> HIDE DEF u, op
<1> QED BY <1>1, <1>5, DevicesInFrame

\* A processor that has stopped counts its refreshes.
LEMMA FrameWaits ==
  ASSUME TypeOK, IsIdleProgram(start), start.sp \in Word, Base(cpu), Where(cpu), Next, cpu.halt
  PROVE  Base(cpu') /\ Where(cpu')
<1> DEFINE s == [Awake EXCEPT !.r = 128 * Top(@) + ((@ + 3) % 128)]
<1>1. PICK answer \in Byte : Devices(s, answer)
  <2>1. 0 \in Byte
    BY DEF Byte
  <2> QED BY <2>1 DEF Next, RunPlain, RunBits, RunExtended, RunIndexed, Run, RunHalted
<1>2. Main(cpu)
  BY DEF Where, Handling, Returning, Frame
<1>3. 128 * Top(cpu.r) + ((cpu.r + 3) % 128) \in Byte
  <2>1. cpu.r \in 0..255
    BY DEF TypeOK, IsProcessor, Byte
  <2> QED BY <2>1 DEF Top, Byte
<1>4. /\ Kept(s, Open) /\ s.mem = cpu.mem /\ s.sp = cpu.sp /\ s.pc = cpu.pc /\ s.imode = cpu.imode
  BY <1>3 DEF TypeOK, Kept, IsProcessor, Fields, Awake, Open
<1> HIDE DEF s
<1>5. CodeKept(cpu) /\ cpu.imode = 1
  BY DEF Base
<1>6. Base(s) /\ Where(s)
  BY <1>2, <1>4, <1>5, BaseFrom DEF Where, Main
<1> QED BY <1>1, <1>6, DevicesInFrame

\* The invariant in the next state, of a step that leaves start alone.
LEMMA FrameInvNext ==
  ASSUME start' = start,
         start.kind = "idle" => /\ IsIdleProgram(start) /\ start.sp \in Word
                                /\ Base(cpu') /\ Where(cpu')
  PROVE  FrameInv'
<1> DEFINE c == cpu'
<1>1. Base(cpu)' <=> Base(c)
  BY DEF Base, CodeKept
<1>2. Main(cpu)' <=> Main(c)
  BY DEF Main, Point
<1>3. Frame(cpu)' <=> Frame(c)
  BY DEF Frame, Point
<1>4. Handling(cpu)' <=> Handling(c)
  BY <1>3 DEF Handling
<1>5. Returning(cpu)' <=> Returning(c)
  BY <1>3 DEF Returning
<1>6. Where(cpu)' <=> Where(c)
  BY <1>2, <1>4, <1>5 DEF Where
<1> QED BY <1>1, <1>6 DEF FrameInv

LEMMA FrameStep == ASSUME TypeOK, FrameInv, Next PROVE FrameInv'
<1>1. start' = start
  BY DEF Next, RunPlain, RunBits, RunExtended, RunIndexed, RunHalted, Run
<1>2. ASSUME start.kind = "idle"
      PROVE  IsIdleProgram(start) /\ start.sp \in Word /\ Base(cpu') /\ Where(cpu')
  BY <1>2, FrameRuns, FrameWaits DEF FrameInv
<1> QED BY <1>1, <1>2, FrameInvNext

\* The handler never stands on another frame of itself: between EI and RET no
\* interrupt is taken, so that the stack of an idle program holds at most one
\* return address and one saved pair, whatever the program and however often the
\* devices interrupt (CPU_step, handle_interrupt, ei).
THEOREM FramesDoNotPile == MCSpec => []OneFrame
<1>1. Init => FrameInv
  <2> SUFFICES ASSUME Init, start.kind = "idle"
               PROVE  IsIdleProgram(start) /\ start.sp \in Word /\ Base(cpu) /\ Where(cpu)
    BY DEF FrameInv
  <2>1. start \in Machines /\ cpu = start
    BY DEF Init
  <2>2. IsIdleProgram(start) /\ IsProcessor(start) /\ start.index = "hl"
    BY <2>1, MachinesAssumption, IdleAssumption
  <2>3. start.sp \in Word /\ start.imode = 1 /\ start.pc = 256
    BY <2>2 DEF IsProcessor, IsIdleProgram, Origin
  <2>4. PICK n \in 0..100 : Loop(start, n)
    BY <2>2 DEF IsIdleProgram
  <2>5. Point(256)
    BY <2>4 DEF Point
  <2> QED BY <2>1, <2>2, <2>3, <2>5 DEF Base, Kept, Open, CodeKept, Where, Main
<1>2. TypeOK /\ FrameInv /\ [MCNext]_vars => FrameInv'
  <2>1. FrameInv /\ UNCHANGED vars => FrameInv'
    BY FrameInvNext DEF FrameInv, vars
  <2> QED BY <2>1, FrameStep DEF MCNext
<1>3. FrameInv => OneFrame
  <2> SUFFICES ASSUME FrameInv, start.kind = "idle" PROVE cpu.sp >= start.sp - 4
    BY DEF OneFrame
  <2>1. start.sp \in Int /\ cpu.sp \in {start.sp, start.sp - 2, start.sp - 4}
    BY WordIs DEF FrameInv, Where, Main, Handling, Returning
  <2> QED BY <2>1
<1>4. MCSpec => Spec
  <2>1. [MCNext]_vars => [Next]_vars
    BY DEF MCNext
  <2> QED BY <2>1, PTL DEF MCSpec, Spec
<1> QED BY <1>1, <1>2, <1>3, <1>4, ProcessorTyped, PTL DEF MCSpec

(***************************************************************************)
(* Block programs.  After j rounds, what the instruction has done; the     *)
(* handler may run between two of them.                                    *)
(***************************************************************************)
BlockOp == Peek(start, 257)
Hl == Pair(start, "hl")
De == Pair(start, "de")
Bc == Pair(start, "bc")
B == start.reg["b"]
A == start.reg["a"]
Room == 258..(start.sp - 5)

RoomKept(s) == \A a \in Room : Peek(s, a) = Peek(start, a)
CopiedUp(s, j) ==
  /\ j \in 0..Bc /\ Pair(s, "hl") = Hl + j /\ Pair(s, "de") = De + j /\ Pair(s, "bc") = Bc - j
  /\ \A a \in Room : Peek(s, a) = IF a >= De /\ a < De + j
                                    THEN Peek(start, Hl + ((a - De) % (De - Hl)))
                                    ELSE Peek(start, a)
CopiedDown(s, j) ==
  /\ j \in 0..Bc /\ Pair(s, "hl") = Hl - j /\ Pair(s, "de") = De - j /\ Pair(s, "bc") = Bc - j
  /\ \A a \in Room : Peek(s, a) = IF a <= De /\ a > De - j
                                    THEN Peek(start, Hl - ((De - a) % (Hl - De)))
                                    ELSE Peek(start, a)
Sought(s, j) ==
  /\ j \in 0..Bc /\ Pair(s, "hl") = Hl + j /\ Pair(s, "bc") = Bc - j
  /\ \A k \in 0..(j - 2) : Peek(start, Hl + k) # A
Sent(s, j) ==
  /\ j \in 0..B /\ Pair(s, "hl") = Hl + j /\ s.reg["b"] = B - j /\ s.reg["c"] = start.reg["c"]
  /\ RoomKept(s)
  /\ s.sent = [k \in 1..j |-> <<start.reg["c"], Peek(start, Hl + k - 1)>>]

\* The next round is to come, or the last one was done; then Z tells
\* whether the byte was found.
Resume(more) == IF more THEN 256 ELSE 258
Found(j) == j > 0 /\ Peek(start, Hl + j - 1) = A
Rounds(s, j, back, f) ==
  \/ BlockOp = 176 /\ CopiedUp(s, j) /\ back = Resume(j < Bc)
  \/ BlockOp = 184 /\ CopiedDown(s, j) /\ back = Resume(j < Bc)
  \/ /\ BlockOp = 177 /\ Sought(s, j) /\ RoomKept(s) /\ back = Resume(j < Bc /\ ~Found(j))
     /\ back = 258 => ("Z" \in f <=> Found(j))
  \/ BlockOp = 179 /\ Sent(s, j) /\ back = Resume(j < B)
Work(s, back, f) == \E j \in Word : Rounds(s, j, back, f)

FrameKept(s) == s.imode = 1 /\ ~s.halt /\ \A a \in 0..257 : Peek(s, a) = Peek(start, a)
Back(s) == Peek16(s, start.sp - 2)
AtWork(s) == s.sp = start.sp /\ s.reg["a"] = A /\ Work(s, s.pc, s.f)
InHandler(s) ==
  \/ /\ s.pc \in {56, 60} /\ ~s.iff1 /\ s.sp = start.sp - 2
     /\ s.reg["a"] = A /\ Work(s, Back(s), s.f)
  \/ /\ s.pc \in {57, 58, 59} /\ ~s.iff1 /\ s.sp = start.sp - 4
     /\ \E f \in SUBSET Flags : Peek16(s, start.sp - 4) = 256 * A + FlagByte(f) /\ Work(s, Back(s), f)
  \/ /\ s.pc = 61 /\ s.ei_block /\ s.sp = start.sp - 2
     /\ s.reg["a"] = A /\ Work(s, Back(s), s.f)
BlockInv ==
  start.kind = "block" =>
    IsBlockProgram(start) /\ IsProcessor(start) /\ FrameKept(cpu) /\ (AtWork(cpu) \/ InHandler(cpu))

(***************************************************************************)
(* Remainders, and rows that grow.                                         *)
(***************************************************************************)
LEMMA Remainder ==
  ASSUME NEW g \in Nat, 0 < g, NEW q \in Int, NEW r \in Int, 0 <= r, r < g
  PROVE  (g * q + r) % g = r
<1> DEFINE a == g * q + r
           p == a \div g
           t == a % g
<1>1. a \in Int /\ p \in Int /\ t \in Int /\ a = g * p + t /\ 0 <= t /\ t < g
  OBVIOUS
<1>2. g * q + r = g * p + t
  BY <1>1
<1> HIDE DEF a, p, t
<1>3. CASE p = q
  BY <1>1, <1>2, <1>3 DEF t
<1>4. CASE p > q
  <2>1. PICK d \in Int : p = q + d /\ d >= 1
    <3>1. p = q + (p - q) /\ p - q >= 1 /\ p - q \in Int
      BY <1>1, <1>4
    <3> QED BY <3>1
  <2>2. g * p = g * q + g * d
    BY <2>1
  <2>3. g * d >= g
    BY <2>1
  <2> QED BY <1>1, <1>2, <2>2, <2>3
<1>5. CASE p < q
  <2>1. PICK d \in Int : q = p + d /\ d >= 1
    <3>1. q = p + (q - p) /\ q - p >= 1 /\ q - p \in Int
      BY <1>1, <1>5
    <3> QED BY <3>1
  <2>2. g * q = g * p + g * d
    BY <1>1, <2>1
  <2>3. g * d >= g
    BY <2>1
  <2> QED BY <1>1, <1>2, <2>2, <2>3
<1> QED BY <1>1, <1>3, <1>4, <1>5 DEF t

\* A copy over a gap g repeats with the period g.
LEMMA Periodic ==
  ASSUME NEW g \in Nat, 0 < g, NEW j \in Nat
  PROVE  /\ j % g \in Nat /\ j % g < g /\ j % g <= j
         /\ j < g => j % g = j
         /\ j >= g => (j - g) % g = j % g
<1> DEFINE q == j \div g
           r == j % g
<1>1. q \in Int /\ 0 <= q /\ r \in Int /\ 0 <= r /\ r < g /\ j = g * q + r
  OBVIOUS
<1>2. j < g => r = j
  OBVIOUS
<1> HIDE DEF q, r
<1>3. r <= j
  <2>1. 0 <= g * q
    BY <1>1
  <2> QED BY <1>1, <2>1
<1>4. j - g = g * (q - 1) + r /\ q - 1 \in Int
  BY <1>1
<1>5. (g * (q - 1) + r) % g = r
  BY <1>1, <1>4, Remainder
<1> QED BY <1>1, <1>2, <1>3, <1>4, <1>5 DEF r

LEMMA RowGrows ==
  ASSUME NEW S, NEW j \in Nat, NEW c \in S, NEW f, \A k \in 1..(j + 1) : f[k] \in S
  PROVE  Append([k \in 1..j |-> <<c, f[k]>>], <<c, f[j + 1]>>) = [k \in 1..(j + 1) |-> <<c, f[k]>>]
<1> DEFINE s == [k \in 1..j |-> <<c, f[k]>>]
           t == Append(s, <<c, f[j + 1]>>)
           T == S \X S
<1>1. s \in Seq(T) /\ Len(s) = j /\ <<c, f[j + 1]>> \in T
  OBVIOUS
<1>2. t \in Seq(T) /\ Len(t) = j + 1
  BY <1>1
<1>3. t \in [1..(j + 1) -> T]
  <2> HIDE DEF t, T
  <2>1. ASSUME NEW z \in Seq(T) PROVE z \in [1..Len(z) -> T]
    OBVIOUS
  <2> QED BY <1>2, <2>1
<1>4. ASSUME NEW k \in 1..(j + 1) PROVE t[k] = <<c, f[k]>>
  BY <1>1
<1> HIDE DEF t
<1>5. t = [k \in 1..(j + 1) |-> t[k]]
  BY <1>3
<1> QED BY <1>4, <1>5 DEF t

\* Flags stored in a byte are found in it.
LEMMA FlagsBack == \A f \in SUBSET Flags : FlagsOf(FlagByte(f)) = f
<1> SUFFICES ASSUME NEW f \in SUBSET Flags PROVE FlagsOf(FlagByte(f)) = f
  OBVIOUS
<1> DEFINE b == FlagByte(f)
           bit(n) == IF n \in f THEN 1 ELSE 0
<1>1. b = bit("C") + 2 * bit("N") + 4 * bit("P") + 8 * bit("F3") + 16 * bit("H") + 32 * bit("F5")
            + 64 * bit("Z") + 128 * bit("S")
  BY DEF FlagByte, Part, Weight
<1>2. ASSUME NEW c \in {0, 1}, NEW n \in {0, 1}, NEW p \in {0, 1}, NEW f3 \in {0, 1}, NEW h \in {0, 1},
             NEW f5 \in {0, 1}, NEW z \in {0, 1}, NEW s \in {0, 1}, NEW v,
             v = c + 2 * n + 4 * p + 8 * f3 + 16 * h + 32 * f5 + 64 * z + 128 * s
      PROVE  /\ Has(v, 1) <=> c = 1
             /\ Has(v, 2) <=> n = 1
             /\ Has(v, 4) <=> p = 1
             /\ Has(v, 8) <=> f3 = 1
             /\ Has(v, 16) <=> h = 1
             /\ Has(v, 32) <=> f5 = 1
             /\ Has(v, 64) <=> z = 1
             /\ Has(v, 128) <=> s = 1
  BY <1>2 DEF Has
<1>3. \A n : bit(n) \in {0, 1} /\ (bit(n) = 1 <=> n \in f)
  OBVIOUS
<1> HIDE DEF b, bit
<1>4. /\ Has(b, 1) <=> "C" \in f
      /\ Has(b, 2) <=> "N" \in f
      /\ Has(b, 4) <=> "P" \in f
      /\ Has(b, 8) <=> "F3" \in f
      /\ Has(b, 16) <=> "H" \in f
      /\ Has(b, 32) <=> "F5" \in f
      /\ Has(b, 64) <=> "Z" \in f
      /\ Has(b, 128) <=> "S" \in f
  BY <1>1, <1>2, <1>3
<1>5. \A n \in Flags : Has(b, Weight[n]) <=> n \in f
  BY <1>4, FlagsAre DEF Weight
<1> QED BY <1>5 DEF FlagsOf, b

\* The pair AF, taken apart again.
LEMMA AccAndFlags ==
  ASSUME NEW a \in Byte, NEW f \in SUBSET Flags, NEW w, w = 256 * a + FlagByte(f)
  PROVE  w \in Word /\ High(w) = a /\ FlagsOf(Low(w)) = f
<1>1. FlagByte(f) \in Byte
  BY FlagByteIsByte
<1>2. ASSUME NEW b \in Int, 0 <= b, b <= 255, NEW x \in Int, NEW v, v = 256 * x + b
      PROVE  v \div 256 = x /\ v % 256 = b
  BY <1>2
<1>3. High(w) = a /\ Low(w) = FlagByte(f)
  BY <1>1, <1>2, ByteIs DEF High, Low
<1> QED BY <1>1, <1>3, FlagsBack, Widths

(***************************************************************************)
(* What the block instructions do, round by round.                         *)
(***************************************************************************)
\* All but the pairs BC, DE and HL, and the flags.
Same(t, s) ==
  /\ t.mem = s.mem /\ t.sp = s.sp /\ t.pc = s.pc /\ t.imode = s.imode /\ t.halt = s.halt
  /\ t.sent = s.sent /\ t.reg["a"] = s.reg["a"]

LEMMA SetPairIs ==
  ASSUME NEW s, IsProcessor(s), NEW p \in {"bc", "de", "hl"}, NEW w \in Word
  PROVE  LET t == SetPair(s, p, w)
         IN /\ Pair(t, p) = w /\ Same(t, s) /\ t.f = s.f
            /\ \A q \in {"bc", "de", "hl"} : q # p => Pair(t, q) = Pair(s, q)
<1> DEFINE t == SetPair(s, p, w)
           h == High(w)
           l == Low(w)
<1>1. 256 * h + l = w
  BY HighLow
<1>2. /\ Halves["bc"][1] = "b" /\ Halves["bc"][2] = "c"
      /\ Halves["de"][1] = "d" /\ Halves["de"][2] = "e"
      /\ Halves["hl"][1] = "h" /\ Halves["hl"][2] = "l"
  BY DEF Halves
<1> HIDE DEF h, l
<1>3. \A r : /\ Pair(r, "bc") = 256 * r.reg["b"] + r.reg["c"]
             /\ Pair(r, "de") = 256 * r.reg["d"] + r.reg["e"]
             /\ Pair(r, "hl") = 256 * r.reg["h"] + r.reg["l"]
  BY <1>2 DEF Pair
<1>4. t = SetReg(SetReg(s, Halves[p][1], h), Halves[p][2], l)
  BY DEF SetPair, h, l
<1> HIDE DEF t
<1>5. CASE p = "bc"
  <2>1. t = SetReg(SetReg(s, "b", h), "c", l)
    BY <1>2, <1>4, <1>5
  <2>2. /\ t.reg["b"] = h /\ t.reg["c"] = l /\ Same(t, s) /\ t.f = s.f
        /\ t.reg["d"] = s.reg["d"] /\ t.reg["e"] = s.reg["e"]
        /\ t.reg["h"] = s.reg["h"] /\ t.reg["l"] = s.reg["l"]
    BY <2>1 DEF SetReg, Same, IsProcessor, Fields, Registers
  <2> QED BY <1>1, <1>3, <1>5, <2>2 DEF t
<1>6. CASE p = "de"
  <2>1. t = SetReg(SetReg(s, "d", h), "e", l)
    BY <1>2, <1>4, <1>6
  <2>2. /\ t.reg["d"] = h /\ t.reg["e"] = l /\ Same(t, s) /\ t.f = s.f
        /\ t.reg["b"] = s.reg["b"] /\ t.reg["c"] = s.reg["c"]
        /\ t.reg["h"] = s.reg["h"] /\ t.reg["l"] = s.reg["l"]
    BY <2>1 DEF SetReg, Same, IsProcessor, Fields, Registers
  <2> QED BY <1>1, <1>3, <1>6, <2>2 DEF t
<1>7. CASE p = "hl"
  <2>1. t = SetReg(SetReg(s, "h", h), "l", l)
    BY <1>2, <1>4, <1>7
  <2>2. /\ t.reg["h"] = h /\ t.reg["l"] = l /\ Same(t, s) /\ t.f = s.f
        /\ t.reg["b"] = s.reg["b"] /\ t.reg["c"] = s.reg["c"]
        /\ t.reg["d"] = s.reg["d"] /\ t.reg["e"] = s.reg["e"]
    BY <2>1 DEF SetReg, Same, IsProcessor, Fields, Registers
  <2> QED BY <1>1, <1>3, <1>7, <2>2 DEF t
<1> QED BY <1>5, <1>6, <1>7

LEMMA MovedIs ==
  ASSUME NEW s, NEW q, Kept(s, q), NEW p \in {"bc", "de", "hl"}, NEW by \in Int
  PROVE  LET t == Moved(s, p, by)
         IN /\ Kept(t, q) /\ Pair(t, p) = Low16(Pair(s, p) + by) /\ Same(t, s)
            /\ \A n \in {"bc", "de", "hl"} : n # p => Pair(t, n) = Pair(s, n)
<1>1. p \in Pairs
  BY DEF Pairs
<1>2. Pair(s, p) \in Word
  BY <1>1, PairIsWord DEF Kept
<1>3. Low16(Pair(s, p) + by) \in Word
  BY <1>2, Widths
<1> QED BY <1>1, <1>3, MovedKept, SetPairIs DEF Kept, Moved

\* The last step of a round.
LEMMA AgainIs ==
  ASSUME NEW s, IsProcessor(s), NEW f, NEW y \in {6, 7}, NEW more \in BOOLEAN, NEW u,
         u = Again(WithFlags(s, f), y, more)
  PROVE  /\ u.reg = s.reg /\ u.mem = s.mem /\ u.sp = s.sp /\ u.imode = s.imode
         /\ u.halt = s.halt /\ u.sent = s.sent /\ u.f = f
         /\ u.pc = IF more THEN Low16(s.pc - 2) ELSE s.pc
<1>1. CASE more
  <2>1. u = Past(WithFlags(s, f), -2)
    BY <1>1 DEF Again
  <2>2. s.pc + (-2) = s.pc - 2
    BY WordIs DEF IsProcessor
  <2> QED BY <1>1, <2>1, <2>2 DEF Past, WithFlags, IsProcessor, Fields
<1>2. CASE ~more
  <2>1. u = WithFlags(s, f)
    BY <1>2 DEF Again
  <2> QED BY <1>2, <2>1 DEF WithFlags, IsProcessor, Fields
<1> QED BY <1>1, <1>2

LEMMA PairsAre ==
  ASSUME NEW s, NEW u, u.reg = s.reg PROVE \A p \in {"bc", "de", "hl"} : Pair(u, p) = Pair(s, p)
BY DEF Pair

LEMMA CopyRound ==
  ASSUME NEW s, NEW q, Kept(s, q), NEW y \in {6, 7}, NEW u, u = CopyBlock(s, y)
  PROVE  /\ Pair(u, "hl") = Low16(Pair(s, "hl") + Way(y)) /\ Pair(u, "de") = Low16(Pair(s, "de") + Way(y))
         /\ Pair(u, "bc") = Low16(Pair(s, "bc") - 1)
         /\ u.sp = s.sp /\ u.imode = s.imode /\ u.halt = s.halt /\ u.reg["a"] = s.reg["a"]
         /\ u.pc = IF Pair(u, "bc") # 0 THEN Low16(s.pc - 2) ELSE s.pc
         /\ \A b : Peek(u, b) = IF b = Pair(s, "de") THEN Peek(s, Pair(s, "hl")) ELSE Peek(s, b)
<1> DEFINE hl == Pair(s, "hl")
           de == Pair(s, "de")
           bc == Pair(s, "bc")
           v  == Peek(s, hl)
           s1 == Poke(s, de, v)
           s2 == Moved(s1, "bc", -1)
           s3 == Moved(s2, "hl", Way(y))
           t  == Moved(s3, "de", Way(y))
           more == Pair(t, "bc") # 0
           f  == CopyFlags(s.reg["a"] + v, more, s.f)
<1>1. hl \in Word /\ de \in Word /\ bc \in Word
  BY PairIsWord DEF Kept, Pairs
<1>2. v \in Byte
  BY PeekIsByte DEF Kept
<1>3. u = Again(WithFlags(t, f), y, more)
  BY DEF CopyBlock
<1> HIDE DEF hl, de, bc, v, f
<1>4. Kept(s1, q)
  BY <1>1, <1>2, Widths, PokeKept
<1>5. /\ s1.reg = s.reg /\ s1.sp = s.sp /\ s1.pc = s.pc /\ s1.imode = s.imode /\ s1.halt = s.halt
  BY DEF Poke, Kept, IsProcessor, Fields
<1>6. \A b : Peek(s1, b) = IF b = de THEN v ELSE Peek(s, b)
  BY <1>1, PokeReads DEF Kept
<1> HIDE DEF s1
<1>7. Pair(s1, "hl") = hl /\ Pair(s1, "de") = de /\ Pair(s1, "bc") = bc
  BY <1>5, PairsAre DEF hl, de, bc
<1>8. Way(y) \in Int /\ -1 \in Int
  BY WayIsInt
<1>9. Kept(s2, q) /\ Pair(s2, "bc") = Low16(bc + (-1)) /\ Pair(s2, "hl") = hl /\ Pair(s2, "de") = de /\ Same(s2, s1)
  BY <1>4, <1>7, <1>8, MovedIs
<1> HIDE DEF s2
<1>10. /\ Kept(s3, q) /\ Pair(s3, "bc") = Pair(s2, "bc") /\ Pair(s3, "hl") = Low16(hl + Way(y))
       /\ Pair(s3, "de") = de /\ Same(s3, s2)
  BY <1>8, <1>9, MovedIs
<1> HIDE DEF s3
<1>11. /\ Kept(t, q) /\ Pair(t, "bc") = Pair(s2, "bc") /\ Pair(t, "hl") = Pair(s3, "hl")
       /\ Pair(t, "de") = Low16(de + Way(y)) /\ Same(t, s3)
  BY <1>8, <1>10, MovedIs
<1> HIDE DEF t
<1>12. /\ u.reg = t.reg /\ u.mem = t.mem /\ u.sp = t.sp /\ u.imode = t.imode /\ u.halt = t.halt
       /\ u.pc = IF more THEN Low16(t.pc - 2) ELSE t.pc
  <2>1. more \in BOOLEAN
    OBVIOUS
  <2> HIDE DEF more
  <2> QED BY <1>3, <1>11, <2>1, AgainIs DEF Kept
<1>13. Pair(u, "bc") = Pair(t, "bc") /\ Pair(u, "hl") = Pair(t, "hl") /\ Pair(u, "de") = Pair(t, "de")
  BY <1>12, PairsAre
<1>14. \A b : Peek(u, b) = Peek(s1, b)
  BY <1>9, <1>10, <1>11, <1>12 DEF Peek, Same
<1>15. bc + (-1) = bc - 1
  BY <1>1, WordIs
<1>16. /\ u.sp = s.sp /\ u.imode = s.imode /\ u.halt = s.halt /\ u.reg["a"] = s.reg["a"] /\ t.pc = s.pc
  BY <1>5, <1>9, <1>10, <1>11, <1>12 DEF Same
<1>17. u.pc = IF Pair(u, "bc") # 0 THEN Low16(s.pc - 2) ELSE s.pc
  BY <1>12, <1>13, <1>16
<1>18. Pair(u, "bc") = Low16(bc - 1) /\ Pair(u, "hl") = Low16(hl + Way(y)) /\ Pair(u, "de") = Low16(de + Way(y))
  BY <1>9, <1>10, <1>11, <1>13, <1>15
<1> QED BY <1>6, <1>14, <1>16, <1>17, <1>18 DEF hl, de, bc, v

LEMMA SearchRound ==
  ASSUME NEW s, NEW q, Kept(s, q), NEW y \in {6, 7}, NEW u, u = SearchBlock(s, y)
  PROVE  /\ Pair(u, "hl") = Low16(Pair(s, "hl") + Way(y))
         /\ Pair(u, "bc") = Low16(Pair(s, "bc") - 1)
         /\ u.sp = s.sp /\ u.imode = s.imode /\ u.halt = s.halt /\ u.reg["a"] = s.reg["a"] /\ u.mem = s.mem
         /\ "Z" \in u.f <=> s.reg["a"] = Peek(s, Pair(s, "hl"))
         /\ u.pc = IF Pair(u, "bc") # 0 /\ "Z" \notin u.f THEN Low16(s.pc - 2) ELSE s.pc
<1> DEFINE hl == Pair(s, "hl")
           bc == Pair(s, "bc")
           v  == Peek(s, hl)
           a  == s.reg["a"]
           s1 == Moved(s, "bc", -1)
           t  == Moved(s1, "hl", Way(y))
           f  == SearchFlags(a, v, Pair(t, "bc") # 0, s.f)
           more == "P" \in f /\ "Z" \notin f
<1>1. hl \in Word /\ bc \in Word
  BY PairIsWord DEF Kept, Pairs
<1>2. v \in Byte /\ a \in Byte
  BY PeekIsByte DEF Kept, IsProcessor, Registers
<1>3. u = Again(WithFlags(t, f), y, more)
  BY DEF SearchBlock
<1>4. "Z" \in f <=> a = v
  <2>1. "Z" \in f <=> Low(a - v) = 0
    BY DEF SearchFlags, SignZero, Copies, HalfSub, On
  <2> HIDE DEF a, v, f
  <2>2. Low(a - v) = 0 <=> a = v
    BY <1>2, ByteIs DEF Low
  <2> QED BY <2>1, <2>2
<1>5. "P" \in f <=> Pair(t, "bc") # 0
  BY DEF SearchFlags, SignZero, Copies, HalfSub, On
<1> HIDE DEF hl, bc, v, f, a
<1>6. Way(y) \in Int /\ -1 \in Int
  BY WayIsInt
<1>7. Kept(s1, q) /\ Pair(s1, "bc") = Low16(bc + (-1)) /\ Pair(s1, "hl") = hl /\ Same(s1, s)
  BY <1>6, MovedIs DEF bc, hl
<1> HIDE DEF s1
<1>8. Kept(t, q) /\ Pair(t, "bc") = Pair(s1, "bc") /\ Pair(t, "hl") = Low16(hl + Way(y)) /\ Same(t, s1)
  BY <1>6, <1>7, MovedIs
<1> HIDE DEF t
<1>9. /\ u.reg = t.reg /\ u.mem = t.mem /\ u.sp = t.sp /\ u.imode = t.imode /\ u.halt = t.halt /\ u.f = f
      /\ u.pc = IF more THEN Low16(t.pc - 2) ELSE t.pc
  <2>1. more \in BOOLEAN
    OBVIOUS
  <2> HIDE DEF more
  <2> QED BY <1>3, <1>8, <2>1, AgainIs DEF Kept
<1>10. Pair(u, "bc") = Pair(t, "bc") /\ Pair(u, "hl") = Pair(t, "hl")
  BY <1>9, PairsAre
<1>11. bc + (-1) = bc - 1
  BY <1>1, WordIs
<1>12. /\ u.sp = s.sp /\ u.imode = s.imode /\ u.halt = s.halt /\ u.reg["a"] = s.reg["a"] /\ u.mem = s.mem
       /\ t.pc = s.pc
  BY <1>7, <1>8, <1>9 DEF Same
<1> QED BY <1>4, <1>5, <1>7, <1>8, <1>9, <1>10, <1>11, <1>12 DEF hl, bc, v, a

LEMMA SendRound ==
  ASSUME NEW s, NEW q, Kept(s, q), NEW y \in {6, 7}, NEW u, u = WriteBlock(s, y)
  PROVE  /\ Pair(u, "hl") = Low16(Pair(s, "hl") + Way(y))
         /\ u.reg["b"] = Low(s.reg["b"] - 1) /\ u.reg["c"] = s.reg["c"]
         /\ u.sp = s.sp /\ u.imode = s.imode /\ u.halt = s.halt /\ u.reg["a"] = s.reg["a"] /\ u.mem = s.mem
         /\ u.sent = Append(s.sent, <<s.reg["c"], Peek(s, Pair(s, "hl"))>>)
         /\ u.pc = IF u.reg["b"] # 0 THEN Low16(s.pc - 2) ELSE s.pc
<1> DEFINE hl == Pair(s, "hl")
           v  == Peek(s, hl)
           b  == Low(s.reg["b"] - 1)
           c  == s.reg["c"]
           s1 == Output(s, c, v)
           s2 == SetReg(s1, "b", b)
           w  == Low16(hl + Way(y))
           t  == Moved(s2, "hl", Way(y))
           f  == PortFlags(b, v, v + t.reg["l"])
           more == b # 0
<1>1. hl \in Word
  BY PairIsWord DEF Kept, Pairs
<1>2. v \in Byte /\ c \in Byte /\ b \in Byte
  <2>1. s.reg["b"] \in Byte /\ c \in Byte
    BY DEF Kept, IsProcessor, Registers
  <2>2. s.reg["b"] - 1 \in Int
    BY <2>1, ByteIs
  <2> QED BY <2>1, <2>2, Widths, PeekIsByte DEF Kept
<1>3. u = Again(WithFlags(t, f), y, more)
  BY DEF WriteBlock
<1> HIDE DEF hl, v, f, b, c
<1>4. Kept(s1, q)
  BY <1>2, OutputKept
<1>5. Kept(s2, q)
  BY <1>2, <1>4, SetRegKept DEF Registers
<1>6. /\ s2.mem = s.mem /\ s2.sp = s.sp /\ s2.pc = s.pc /\ s2.imode = s.imode /\ s2.halt = s.halt
      /\ s2.sent = Append(s.sent, <<c, v>>)
      /\ s2.reg["a"] = s.reg["a"] /\ s2.reg["b"] = b /\ s2.reg["c"] = c
      /\ s2.reg["h"] = s.reg["h"] /\ s2.reg["l"] = s.reg["l"]
  BY DEF Output, SetReg, Kept, IsProcessor, Fields, Registers, c
<1> HIDE DEF s1, s2
<1>7. Pair(s2, "hl") = hl
  BY <1>6 DEF Pair, Halves, hl
<1>8. w \in Word
  BY <1>1, WayIsInt, Widths DEF w
<1>9. t = SetReg(SetReg(s2, "h", High(w)), "l", Low(w))
  <2>1. Halves["hl"][1] = "h" /\ Halves["hl"][2] = "l"
    BY DEF Halves
  <2>2. t = SetPair(s2, "hl", w)
    BY <1>7 DEF Moved, w
  <2> QED BY <2>1, <2>2 DEF SetPair
<1>10. Kept(t, q) /\ Pair(t, "hl") = w /\ Same(t, s2)
  BY <1>5, <1>7, WayIsInt, MovedIs DEF w
<1> HIDE DEF t, w
<1>11. t.reg["b"] = b /\ t.reg["c"] = c
  BY <1>5, <1>6, <1>9 DEF SetReg, Kept, IsProcessor, Fields, Registers
<1>12. /\ u.reg = t.reg /\ u.mem = t.mem /\ u.sp = t.sp /\ u.imode = t.imode /\ u.halt = t.halt
       /\ u.sent = t.sent /\ u.pc = IF more THEN Low16(t.pc - 2) ELSE t.pc
  <2>1. more \in BOOLEAN
    OBVIOUS
  <2> HIDE DEF more
  <2> QED BY <1>3, <1>10, <2>1, AgainIs DEF Kept
<1>13. Pair(u, "hl") = Pair(t, "hl")
  BY <1>12, PairsAre
<1> QED BY <1>6, <1>10, <1>11, <1>12, <1>13 DEF Same, hl, v, b, c, w

(***************************************************************************)
(* Rounds of a block program.                                              *)
(***************************************************************************)
LEMMA BlockFacts ==
  ASSUME IsBlockProgram(start), IsProcessor(start)
  PROVE  /\ start.sp \in Int /\ start.sp <= 65535 /\ A \in Byte /\ HasHandler(start)
         /\ Hl \in Int /\ De \in Int /\ Bc \in Int /\ B \in Int
         /\ 258 <= Hl /\ Hl <= start.sp - 5 /\ 0 <= De /\ De <= 65535 /\ 0 <= Bc /\ Bc <= 65535 /\ B <= 255
         /\ start.pc = 256 /\ start.end = 258 /\ start.imode = 1 /\ ~start.halt /\ start.sent = <<>>
         /\ Peek(start, 256) = 237
         /\ BlockOp \in {176, 177, 179, 184}
         /\ BlockOp = 176 => 0 < Bc /\ Hl < De /\ De + Bc - 1 <= start.sp - 5
         /\ BlockOp = 184 => 0 < Bc /\ De < Hl /\ 258 <= De - Bc + 1
         /\ BlockOp = 177 => 0 < Bc /\ Hl + Bc - 1 <= start.sp - 5
         /\ BlockOp = 179 => 0 < B /\ Hl + B - 1 <= start.sp - 5
<1>1. Hl \in Word /\ De \in Word /\ Bc \in Word
  BY PairIsWord DEF Pairs, Hl, De, Bc
<1>2. A \in Byte /\ B \in Byte /\ start.sp \in Word
  BY DEF IsProcessor, Registers, A, B
<1>3. /\ start.pc = 256 /\ start.end = 258 /\ start.imode = 1 /\ ~start.halt /\ start.sent = <<>>
      /\ Peek(start, 256) = 237 /\ HasHandler(start) /\ Hl \in Room
      /\ \/ BlockOp = 176 /\ Bc > 0 /\ Hl < De /\ De + Bc - 1 \in Room
         \/ BlockOp = 184 /\ Bc > 0 /\ De < Hl /\ De - Bc + 1 \in Room
         \/ BlockOp = 177 /\ Bc > 0 /\ Hl + Bc - 1 \in Room
         \/ BlockOp = 179 /\ B > 0 /\ Hl + B - 1 \in Room
  <2>1. Origin = 256 /\ Origin + 1 = 257 /\ Origin + 2 = 258
    BY DEF Origin
  <2> QED BY <2>1 DEF IsBlockProgram, BlockOp, Hl, De, Bc, B, Room
<1>4. \A x : x \in Room <=> x \in Int /\ 258 <= x /\ x <= start.sp - 5
  <2>1. start.sp \in Int
    BY <1>2, WordIs
  <2> QED BY <2>1 DEF Room
<1> QED BY <1>1, <1>2, <1>3, <1>4, WordIs, ByteIs

LEMMA RoomIs ==
  ASSUME start.sp \in Int PROVE \A x : x \in Room <=> x \in Int /\ 258 <= x /\ x <= start.sp - 5
BY DEF Room

LEMMA Low16Is == \A x \in Int : 0 <= x /\ x <= 65535 => Low16(x) = x
BY DEF Low16

\* Where pc goes from the byte after the instruction.
LEMMA ResumeIs ==
  ASSUME NEW n \in Int, NEW pc, pc = IF n # 0 THEN Low16(258 - 2) ELSE 258 PROVE pc = Resume(n # 0)
<1>1. Low16(256) = 256
  BY Low16Is
<1> QED BY <1>1 DEF Resume

\* Where a round is in its row.
LEMMA RoundNumbers ==
  ASSUME NEW m \in Int, NEW hl \in Int, NEW n \in Int, NEW j \in Int,
         m <= 65535, 258 <= hl, hl + n - 1 <= m - 5, 0 <= j, j < n
  PROVE  /\ hl + j + 1 \in Int /\ 0 <= hl + j + 1 /\ hl + j + 1 <= 65535
         /\ n - j - 1 \in Int /\ 0 <= n - j - 1 /\ n - j - 1 < n /\ n - j - 1 <= 65535
         /\ hl + (j + 1) = hl + j + 1 /\ n - (j + 1) = n - j - 1
         /\ j + 1 \in 0..n /\ hl + (j + 1) - 1 = hl + j /\ j + 1 > 0 /\ j \in Nat
         /\ hl + j \in Int /\ 258 <= hl + j /\ hl + j <= m - 5
         /\ n - j - 1 # 0 <=> j + 1 < n
OBVIOUS

LEMMA RoundNumbersDown ==
  ASSUME NEW hl \in Int, NEW n \in Int, NEW j \in Int,
         hl <= 65535, 258 <= hl - n + 1, 0 <= j, j < n
  PROVE  /\ hl - j + (-1) \in Int /\ 0 <= hl - j + (-1) /\ hl - j + (-1) <= 65535
         /\ hl - (j + 1) = hl - j + (-1)
         /\ hl - j \in Int /\ 258 <= hl - j /\ hl - j <= hl
OBVIOUS

LEMMA CopyUpRound ==
  ASSUME IsBlockProgram(start), IsProcessor(start), BlockOp = 176,
         NEW s, NEW q, Kept(s, q), NEW j, CopiedUp(s, j), j < Bc, s.pc = 258,
         NEW u, u = CopyBlock(s, 6)
  PROVE  CopiedUp(u, j + 1) /\ u.pc = Resume(j + 1 < Bc)
<1>1. /\ start.sp \in Int /\ start.sp <= 65535 /\ Hl \in Int /\ De \in Int /\ Bc \in Int
      /\ 258 <= Hl /\ Hl < De /\ 0 < Bc /\ Bc <= 65535 /\ De + Bc - 1 <= start.sp - 5
  BY BlockFacts
<1>j. j \in Int /\ 0 <= j
  BY <1>1 DEF CopiedUp
<1>2. /\ Pair(s, "hl") = Hl + j /\ Pair(s, "de") = De + j /\ Pair(s, "bc") = Bc - j
      /\ \A a \in Room : Peek(s, a) = IF a >= De /\ a < De + j
                                        THEN Peek(start, Hl + ((a - De) % (De - Hl)))
                                        ELSE Peek(start, a)
  BY DEF CopiedUp
<1>3. Way(6) = 1
  BY DEF Way
<1>4. /\ Pair(u, "hl") = Low16(Hl + j + 1) /\ Pair(u, "de") = Low16(De + j + 1)
      /\ Pair(u, "bc") = Low16(Bc - j - 1)
      /\ u.pc = IF Pair(u, "bc") # 0 THEN Low16(258 - 2) ELSE 258
      /\ \A b : Peek(u, b) = IF b = De + j THEN Peek(s, Hl + j) ELSE Peek(s, b)
  BY <1>2, <1>3, CopyRound
<1> DEFINE hl == Hl
           de == De
           bc == Bc
           m == start.sp
<1> HIDE DEF hl, de, bc, m
<1>a. /\ m \in Int /\ m <= 65535 /\ hl \in Int /\ de \in Int /\ bc \in Int
      /\ 258 <= hl /\ hl < de /\ 0 < bc /\ bc <= 65535 /\ de + bc - 1 <= m - 5 /\ j < bc
  BY <1>1 DEF hl, de, bc, m
<1>5. /\ hl + j + 1 \in Int /\ 0 <= hl + j + 1 /\ hl + j + 1 <= 65535
      /\ de + j + 1 \in Int /\ 0 <= de + j + 1 /\ de + j + 1 <= 65535
      /\ hl + (j + 1) = hl + j + 1 /\ de + (j + 1) = de + j + 1
      /\ bc - j - 1 \in Int /\ 0 <= bc - j - 1 /\ bc - j - 1 <= 65535 /\ bc - (j + 1) = bc - j - 1
      /\ j + 1 \in 0..bc /\ j \in Nat /\ (bc - j - 1 # 0 <=> j + 1 < bc)
      /\ hl + j \in Int /\ 258 <= hl + j /\ hl + j <= m - 5
  <2>1. hl + bc - 1 <= m - 5 /\ 258 <= de
    BY <1>a
  <2> QED BY <1>j, <1>a, <2>1, RoundNumbers
<1>6. /\ Pair(u, "hl") = Hl + (j + 1) /\ Pair(u, "de") = De + (j + 1) /\ Pair(u, "bc") = Bc - (j + 1)
  BY <1>4, <1>5, Low16Is DEF hl, de, bc
<1>7. u.pc = Resume(j + 1 < Bc)
  <2>1. u.pc = Resume(Pair(u, "bc") # 0)
    <3>1. Pair(u, "bc") \in Int
      BY <1>5, <1>6 DEF bc
    <3> QED BY <1>4, <3>1, ResumeIs
  <2>2. Pair(u, "bc") # 0 <=> j + 1 < Bc
    <3>1. Pair(u, "bc") = bc - j - 1
      BY <1>5, <1>6 DEF bc
    <3>2. bc - j - 1 # 0 <=> j + 1 < bc
      BY <1>5
    <3> QED BY <3>1, <3>2 DEF bc
  <2> QED BY <2>1, <2>2 DEF Resume
<1>8. ASSUME NEW a \in Room
      PROVE  Peek(u, a) = IF a >= De /\ a < De + (j + 1)
                            THEN Peek(start, Hl + ((a - De) % (De - Hl)))
                            ELSE Peek(start, a)
  <2>1. a \in Int
    BY <1>1, RoomIs
  <2>2. CASE a # De + j
    <3>1. Peek(u, a) = Peek(s, a)
      BY <1>4, <2>2
    <3>2. a >= De /\ a < De + (j + 1) <=> a >= De /\ a < De + j
      BY <1>1, <1>j, <2>1, <2>2
    <3> QED BY <1>2, <3>1, <3>2
  <2>3. CASE a = De + j
    <3> DEFINE g == de - hl
    <3>1. g \in Nat /\ 0 < g /\ j \in Nat
      BY <1>j, <1>a
    <3>3. hl + j \in Room
      BY <1>1, <1>5, RoomIs DEF m
    <3>4. Peek(s, hl + j) = Peek(start, hl + (j % g))
      <4>1. CASE j < g
        <5>1. j % g = j
          BY <3>1, <4>1, Periodic
        <5>2. ~(hl + j >= de)
          BY <1>j, <1>a, <4>1
        <5> QED BY <1>2, <3>3, <5>1, <5>2 DEF hl, de
      <4>2. CASE j >= g
        <5>1. (j - g) % g = j % g
          BY <3>1, <4>2, Periodic
        <5>2. hl + j >= de /\ hl + j < de + j /\ hl + j - de = j - g
          BY <1>j, <1>a, <4>2
        <5>3. PICK x : x = hl + j
          OBVIOUS
        <5>4. x \in Room /\ x >= de /\ x < de + j /\ x - de = j - g
          BY <1>j, <1>a, <3>3, <5>2, <5>3
        <5>5. Peek(s, x) = Peek(start, hl + ((x - de) % g))
          BY <1>2, <5>4 DEF hl, de
        <5>6. (x - de) % g = j % g
          BY <5>1, <5>4
        <5> QED BY <5>3, <5>5, <5>6
      <4> QED BY <3>1, <4>1, <4>2
    <3>5. a - de = j /\ a >= de /\ a < de + (j + 1)
      BY <1>j, <1>a, <2>3 DEF de
    <3> QED BY <1>4, <2>3, <3>4, <3>5 DEF hl, de
  <2> QED BY <2>2, <2>3
<1> QED BY <1>5, <1>6, <1>7, <1>8 DEF CopiedUp, bc

LEMMA CopyDownRound ==
  ASSUME IsBlockProgram(start), IsProcessor(start), BlockOp = 184,
         NEW s, NEW q, Kept(s, q), NEW j, CopiedDown(s, j), j < Bc, s.pc = 258,
         NEW u, u = CopyBlock(s, 7)
  PROVE  CopiedDown(u, j + 1) /\ u.pc = Resume(j + 1 < Bc)
<1>1. /\ start.sp \in Int /\ start.sp <= 65535 /\ Hl \in Int /\ De \in Int /\ Bc \in Int
      /\ De < Hl /\ Hl <= start.sp - 5 /\ 0 < Bc /\ Bc <= 65535 /\ 258 <= De - Bc + 1
  BY BlockFacts
<1>j. j \in Int /\ 0 <= j
  BY <1>1 DEF CopiedDown
<1>2. /\ Pair(s, "hl") = Hl - j /\ Pair(s, "de") = De - j /\ Pair(s, "bc") = Bc - j
      /\ \A a \in Room : Peek(s, a) = IF a <= De /\ a > De - j
                                        THEN Peek(start, Hl - ((De - a) % (Hl - De)))
                                        ELSE Peek(start, a)
  BY DEF CopiedDown
<1>3. Way(7) = -1
  BY DEF Way
<1>4. /\ Pair(u, "hl") = Low16(Hl - j + (-1)) /\ Pair(u, "de") = Low16(De - j + (-1))
      /\ Pair(u, "bc") = Low16(Bc - j - 1)
      /\ u.pc = IF Pair(u, "bc") # 0 THEN Low16(258 - 2) ELSE 258
      /\ \A b : Peek(u, b) = IF b = De - j THEN Peek(s, Hl - j) ELSE Peek(s, b)
  BY <1>2, <1>3, CopyRound
<1> DEFINE hl == Hl
           de == De
           bc == Bc
           m == start.sp
<1> HIDE DEF hl, de, bc, m
<1>a. /\ m \in Int /\ m <= 65535 /\ hl \in Int /\ de \in Int /\ bc \in Int
      /\ de < hl /\ hl <= m - 5 /\ 0 < bc /\ bc <= 65535 /\ 258 <= de - bc + 1 /\ j < bc
  BY <1>1 DEF hl, de, bc, m
<1>5. /\ hl - j + (-1) \in Int /\ 0 <= hl - j + (-1) /\ hl - j + (-1) <= 65535
      /\ de - j + (-1) \in Int /\ 0 <= de - j + (-1) /\ de - j + (-1) <= 65535
      /\ hl - (j + 1) = hl - j + (-1) /\ de - (j + 1) = de - j + (-1)
      /\ bc - j - 1 \in Int /\ 0 <= bc - j - 1 /\ bc - j - 1 <= 65535 /\ bc - (j + 1) = bc - j - 1
      /\ j + 1 \in 0..bc /\ j \in Nat /\ (bc - j - 1 # 0 <=> j + 1 < bc)
      /\ hl - j \in Int /\ 258 <= hl - j /\ hl - j <= m - 5
  <2>1. hl <= 65535 /\ de <= 65535 /\ 258 <= hl - bc + 1
    BY <1>a
  <2>2. /\ bc - j - 1 \in Int /\ 0 <= bc - j - 1 /\ bc - j - 1 <= 65535 /\ bc - (j + 1) = bc - j - 1
        /\ j + 1 \in 0..bc /\ j \in Nat /\ (bc - j - 1 # 0 <=> j + 1 < bc)
    BY <1>j, <1>a
  <2>3. hl - j \in Int /\ 258 <= hl - j /\ hl - j <= hl
    BY <1>j, <1>a, <2>1, RoundNumbersDown
  <2>4. hl - j <= m - 5
    BY <1>a, <2>3
  <2> QED BY <1>j, <1>a, <2>1, <2>2, <2>3, <2>4, RoundNumbersDown
<1>6. /\ Pair(u, "hl") = Hl - (j + 1) /\ Pair(u, "de") = De - (j + 1) /\ Pair(u, "bc") = Bc - (j + 1)
  BY <1>4, <1>5, Low16Is DEF hl, de, bc
<1>7. u.pc = Resume(j + 1 < Bc)
  <2>1. u.pc = Resume(Pair(u, "bc") # 0)
    <3>1. Pair(u, "bc") \in Int
      BY <1>5, <1>6 DEF bc
    <3> QED BY <1>4, <3>1, ResumeIs
  <2>2. Pair(u, "bc") # 0 <=> j + 1 < Bc
    <3>1. Pair(u, "bc") = bc - j - 1
      BY <1>5, <1>6 DEF bc
    <3>2. bc - j - 1 # 0 <=> j + 1 < bc
      BY <1>5
    <3> QED BY <3>1, <3>2 DEF bc
  <2> QED BY <2>1, <2>2 DEF Resume
<1>8. ASSUME NEW a \in Room
      PROVE  Peek(u, a) = IF a <= De /\ a > De - (j + 1)
                            THEN Peek(start, Hl - ((De - a) % (Hl - De)))
                            ELSE Peek(start, a)
  <2>1. a \in Int
    BY <1>1, RoomIs
  <2>2. CASE a # De - j
    <3>1. Peek(u, a) = Peek(s, a)
      BY <1>4, <2>2
    <3>2. a <= De /\ a > De - (j + 1) <=> a <= De /\ a > De - j
      BY <1>1, <1>j, <2>1, <2>2
    <3> QED BY <1>2, <3>1, <3>2
  <2>3. CASE a = De - j
    <3> DEFINE g == hl - de
    <3>1. g \in Nat /\ 0 < g /\ j \in Nat
      BY <1>j, <1>a
    <3>3. hl - j \in Room
      BY <1>1, <1>5, RoomIs DEF m
    <3>4. Peek(s, hl - j) = Peek(start, hl - (j % g))
      <4>1. CASE j < g
        <5>1. j % g = j
          BY <3>1, <4>1, Periodic
        <5>2. ~(hl - j <= de)
          BY <1>j, <1>a, <4>1
        <5> QED BY <1>2, <3>3, <5>1, <5>2 DEF hl, de
      <4>2. CASE j >= g
        <5>1. (j - g) % g = j % g
          BY <3>1, <4>2, Periodic
        <5>2. hl - j <= de /\ hl - j > de - j /\ de - (hl - j) = j - g
          BY <1>j, <1>a, <4>2
        <5>3. Peek(s, hl - j) = Peek(start, hl - ((de - (hl - j)) % g))
          BY <1>2, <3>3, <5>2 DEF hl, de
        <5> QED BY <5>1, <5>2, <5>3
      <4> QED BY <3>1, <4>1, <4>2
    <3>5. de - a = j /\ a <= de /\ a > de - (j + 1)
      BY <1>j, <1>a, <2>3 DEF de
    <3> QED BY <1>4, <2>3, <3>4, <3>5 DEF hl, de
  <2> QED BY <2>2, <2>3
<1> QED BY <1>5, <1>6, <1>7, <1>8 DEF CopiedDown, bc

LEMMA SeekRound ==
  ASSUME IsBlockProgram(start), IsProcessor(start), BlockOp = 177,
         NEW s, NEW q, Kept(s, q), NEW j, Sought(s, j), RoomKept(s), j < Bc, ~Found(j), s.pc = 258,
         s.reg["a"] = A, NEW u, u = SearchBlock(s, 6)
  PROVE  /\ Sought(u, j + 1) /\ RoomKept(u) /\ ("Z" \in u.f <=> Found(j + 1))
         /\ u.pc = Resume(j + 1 < Bc /\ ~Found(j + 1))
<1>1. /\ start.sp \in Int /\ start.sp <= 65535 /\ Hl \in Int /\ Bc \in Int
      /\ 258 <= Hl /\ 0 < Bc /\ Bc <= 65535 /\ Hl + Bc - 1 <= start.sp - 5
  BY BlockFacts
<1>j. j \in Int /\ 0 <= j
  BY <1>1 DEF Sought
<1>2. /\ Pair(s, "hl") = Hl + j /\ Pair(s, "bc") = Bc - j
      /\ \A k \in 0..(j - 2) : Peek(start, Hl + k) # A
  BY DEF Sought
<1>3. Way(6) = 1
  BY DEF Way
<1>4. /\ Pair(u, "hl") = Low16(Hl + j + 1) /\ Pair(u, "bc") = Low16(Bc - j - 1) /\ u.mem = s.mem
      /\ "Z" \in u.f <=> A = Peek(s, Hl + j)
      /\ u.pc = IF Pair(u, "bc") # 0 /\ "Z" \notin u.f THEN Low16(258 - 2) ELSE 258
  BY <1>2, <1>3, SearchRound
<1> DEFINE hl == Hl
           bc == Bc
           m == start.sp
<1> HIDE DEF hl, bc, m
<1>a. /\ m \in Int /\ m <= 65535 /\ hl \in Int /\ bc \in Int
      /\ 258 <= hl /\ 0 < bc /\ bc <= 65535 /\ hl + bc - 1 <= m - 5 /\ j < bc
  BY <1>1 DEF hl, bc, m
<1>5. /\ hl + j + 1 \in Int /\ 0 <= hl + j + 1 /\ hl + j + 1 <= 65535
      /\ bc - j - 1 \in Int /\ 0 <= bc - j - 1 /\ bc - j - 1 <= 65535
      /\ hl + (j + 1) = hl + j + 1 /\ bc - (j + 1) = bc - j - 1
      /\ j + 1 \in 0..bc /\ hl + (j + 1) - 1 = hl + j /\ j + 1 > 0
      /\ hl + j \in Int /\ 258 <= hl + j /\ hl + j <= m - 5
      /\ bc - j - 1 # 0 <=> j + 1 < bc
  BY <1>j, <1>a, RoundNumbers
<1>6. /\ Pair(u, "hl") = Hl + (j + 1) /\ Pair(u, "bc") = Bc - (j + 1)
  BY <1>4, <1>5, Low16Is DEF hl, bc
<1>7. "Z" \in u.f <=> Found(j + 1)
  <2>1. hl + j \in Room
    BY <1>1, <1>5, RoomIs DEF m
  <2>2. Peek(s, hl + j) = Peek(start, hl + j)
    BY <2>1 DEF RoomKept
  <2>3. Found(j + 1) <=> Peek(start, hl + j) = A
    BY <1>5 DEF Found, hl
  <2> QED BY <1>4, <2>2, <2>3 DEF hl
<1>8. u.pc = Resume(j + 1 < Bc /\ ~Found(j + 1))
  <2>1. Low16(258 - 2) = 256
    BY Low16Is
  <2>2. Pair(u, "bc") # 0 <=> j + 1 < Bc
    <3>1. Pair(u, "bc") = bc - j - 1
      BY <1>5, <1>6 DEF bc
    <3>2. bc - j - 1 # 0 <=> j + 1 < bc
      BY <1>5
    <3> QED BY <3>1, <3>2 DEF bc
  <2> QED BY <1>4, <1>7, <2>1, <2>2 DEF Resume
<1>9. ASSUME NEW k \in 0..(j + 1 - 2) PROVE Peek(start, Hl + k) # A
  <2>1. CASE k \in 0..(j - 2)
    BY <1>2, <2>1
  <2>2. CASE k = j - 1 /\ j > 0
    <3>1. Hl + k = Hl + j - 1
      BY <1>1, <1>j, <2>2
    <3> QED BY <2>2, <3>1 DEF Found
  <2>3. k \in 0..(j - 2) \/ (k = j - 1 /\ j > 0)
    BY <1>j
  <2> QED BY <2>1, <2>2, <2>3
<1>10. RoomKept(u)
  BY <1>4 DEF RoomKept, Peek
<1> QED BY <1>5, <1>6, <1>7, <1>8, <1>9, <1>10 DEF Sought, bc

LEMMA WriteRound ==
  ASSUME IsBlockProgram(start), IsProcessor(start), BlockOp = 179,
         NEW s, NEW q, Kept(s, q), NEW j, Sent(s, j), j < B, s.pc = 258,
         NEW u, u = WriteBlock(s, 6)
  PROVE  Sent(u, j + 1) /\ u.pc = Resume(j + 1 < B)
<1>1. /\ start.sp \in Int /\ start.sp <= 65535 /\ Hl \in Int /\ B \in Int
      /\ 258 <= Hl /\ 0 < B /\ B <= 255 /\ Hl + B - 1 <= start.sp - 5
  BY BlockFacts
<1> DEFINE c == start.reg["c"]
<1>j. j \in Int /\ 0 <= j
  BY <1>1 DEF Sent
<1>2. Pair(s, "hl") = Hl + j /\ s.reg["b"] = B - j /\ s.reg["c"] = c /\ RoomKept(s)
  BY DEF Sent
<1>s. s.sent = [k \in 1..j |-> <<c, Peek(start, Hl + k - 1)>>]
  BY DEF Sent, c
<1>3. Way(6) = 1
  BY DEF Way
<1> HIDE DEF c
<1>4. /\ Pair(u, "hl") = Low16(Hl + j + 1) /\ u.reg["b"] = Low(B - j - 1) /\ u.mem = s.mem
      /\ u.reg["c"] = c /\ u.sent = Append(s.sent, <<c, Peek(s, Hl + j)>>)
      /\ u.pc = IF u.reg["b"] # 0 THEN Low16(258 - 2) ELSE 258
  BY <1>2, <1>3, SendRound
<1>0. c \in Byte
  BY DEF IsProcessor, Registers, c
<1> DEFINE hl == Hl
           b == B
           m == start.sp
<1> HIDE DEF hl, b, m
<1>a. /\ m \in Int /\ m <= 65535 /\ hl \in Int /\ b \in Int
      /\ 258 <= hl /\ 0 < b /\ b <= 255 /\ hl + b - 1 <= m - 5 /\ j < b
  BY <1>1 DEF hl, b, m
<1>5. /\ hl + j + 1 \in Int /\ 0 <= hl + j + 1 /\ hl + j + 1 <= 65535
      /\ b - j - 1 \in Int /\ 0 <= b - j - 1 /\ b - j - 1 < b
      /\ hl + (j + 1) = hl + j + 1 /\ b - (j + 1) = b - j - 1
      /\ j + 1 \in 0..b /\ hl + (j + 1) - 1 = hl + j /\ j \in Nat
      /\ hl + j \in Int /\ 258 <= hl + j /\ hl + j <= m - 5
      /\ b - j - 1 # 0 <=> j + 1 < b
  BY <1>j, <1>a, RoundNumbers
<1>6. /\ Pair(u, "hl") = Hl + (j + 1) /\ u.reg["b"] = B - (j + 1)
  <2>1. ASSUME NEW x \in Int, 0 <= x, x <= 255 PROVE Low(x) = x
    BY <2>1 DEF Low
  <2>2. b - j - 1 <= 255
    BY <1>j, <1>5, <1>a
  <2> QED BY <1>4, <1>5, <2>1, <2>2, Low16Is DEF hl, b
<1>7. u.pc = Resume(j + 1 < B)
  <2>1. u.pc = Resume(u.reg["b"] # 0)
    <3>1. u.reg["b"] \in Int
      BY <1>5, <1>6 DEF b
    <3> QED BY <1>4, <3>1, ResumeIs
  <2>2. u.reg["b"] # 0 <=> j + 1 < B
    <3>1. u.reg["b"] = b - j - 1
      BY <1>5, <1>6 DEF b
    <3>2. b - j - 1 # 0 <=> j + 1 < b
      BY <1>5
    <3> QED BY <3>1, <3>2 DEF b
  <2> QED BY <2>1, <2>2 DEF Resume
<1>8. u.sent = [k \in 1..(j + 1) |-> <<c, Peek(start, Hl + k - 1)>>]
  <2>1. Peek(s, Hl + j) = Peek(start, Hl + j)
    <3>1. hl + j \in Room
      BY <1>1, <1>5, RoomIs DEF m
    <3> QED BY <1>2, <3>1 DEF RoomKept, hl
  <2> DEFINE f == [k \in 1..(j + 1) |-> Peek(start, Hl + k - 1)]
  <2>2. \A k \in 1..(j + 1) : f[k] \in Byte /\ f[k] = Peek(start, Hl + k - 1)
    BY PeekIsByte
  <2>3. f[j + 1] = Peek(s, Hl + j) /\ \A k \in 1..j : k \in 1..(j + 1)
    BY <1>5, <2>1, <2>2 DEF hl
  <2> HIDE DEF f
  <2>4. s.sent = [k \in 1..j |-> <<c, f[k]>>]
    BY <1>s, <2>2, <2>3
  <2>5. Append([k \in 1..j |-> <<c, f[k]>>], <<c, f[j + 1]>>) = [k \in 1..(j + 1) |-> <<c, f[k]>>]
    BY <1>0, <1>5, <2>2, RowGrows
  <2> QED BY <1>4, <2>2, <2>3, <2>4, <2>5
<1>9. RoomKept(u)
  BY <1>2, <1>4 DEF RoomKept, Peek
<1> QED BY <1>4, <1>5, <1>6, <1>7, <1>8, <1>9 DEF Sent, b, c

\* What tells the rounds apart is not what the handler works with.
Untouched(t, s) ==
  /\ \A n \in Shadowed : t.reg[n] = s.reg[n]
  /\ t.sent = s.sent /\ \A a \in Room : Peek(t, a) = Peek(s, a)

LEMMA RoundsAlike ==
  ASSUME NEW s, NEW t, Untouched(t, s), NEW j, NEW back, NEW f, NEW g, "Z" \in f <=> "Z" \in g,
         Rounds(s, j, back, f)
  PROVE  Rounds(t, j, back, g)
<1>1. /\ t.reg["b"] = s.reg["b"] /\ t.reg["c"] = s.reg["c"] /\ t.reg["d"] = s.reg["d"]
      /\ t.reg["e"] = s.reg["e"] /\ t.reg["h"] = s.reg["h"] /\ t.reg["l"] = s.reg["l"]
  BY DEF Untouched, Shadowed
<1>2. Pair(t, "bc") = Pair(s, "bc") /\ Pair(t, "de") = Pair(s, "de") /\ Pair(t, "hl") = Pair(s, "hl")
  BY <1>1 DEF Pair, Halves
<1>3. t.sent = s.sent /\ \A a \in Room : Peek(t, a) = Peek(s, a)
  BY DEF Untouched
<1>4. CopiedUp(s, j) => CopiedUp(t, j)
  BY <1>2, <1>3 DEF CopiedUp
<1>5. CopiedDown(s, j) => CopiedDown(t, j)
  BY <1>2, <1>3 DEF CopiedDown
<1>6. Sought(s, j) => Sought(t, j)
  BY <1>2 DEF Sought
<1>7. RoomKept(s) => RoomKept(t)
  BY <1>3 DEF RoomKept
<1>8. Sent(s, j) => Sent(t, j)
  BY <1>1, <1>2, <1>3, <1>7 DEF Sent
<1> QED BY <1>4, <1>5, <1>6, <1>7, <1>8 DEF Rounds

LEMMA WorkAlike ==
  ASSUME NEW s, NEW t, Untouched(t, s), NEW back, NEW f, NEW g, "Z" \in f <=> "Z" \in g, Work(s, back, f)
  PROVE  Work(t, back, g)
<1>1. PICK j \in Word : Rounds(s, j, back, f)
  BY DEF Work
<1>2. Rounds(t, j, back, g)
  BY <1>1, RoundsAlike
<1> QED BY <1>2 DEF Work

LEMMA UntouchedIs ==
  ASSUME NEW s, NEW t, t.mem = s.mem, t.sent = s.sent, t.reg = s.reg
  PROVE  Untouched(t, s) /\ \A a : Peek(t, a) = Peek(s, a) /\ Peek16(t, a) = Peek16(s, a)
BY DEF Untouched, Peek, Peek16

LEMMA PushedIs ==
  ASSUME NEW s, IsProcessor(s), NEW w
  PROVE  Pushed(s, w).reg = s.reg /\ Pushed(s, w).sent = s.sent /\ Pushed(s, w).f = s.f
BY DEF Pushed, Poke16, Poke, IsProcessor, Fields

\* A push writes between what the block instruction works on and the stack.
LEMMA PushInBlock ==
  ASSUME IsBlockProgram(start), IsProcessor(start), NEW s, NEW q, Kept(s, q), NEW w \in Word,
         s.sp \in {start.sp, start.sp - 2}, FrameKept(s)
  PROVE  LET u == Pushed(s, w)
         IN /\ Untouched(u, s) /\ FrameKept(u) /\ u.sp = s.sp - 2 /\ Peek16(u, s.sp - 2) = w
            /\ u.pc = s.pc /\ u.iff1 = s.iff1 /\ u.reg["a"] = s.reg["a"] /\ u.f = s.f
            /\ s.sp = start.sp - 2 => Back(u) = Back(s)
<1> DEFINE m == start.sp
           u == Pushed(s, w)
<1>1. m \in Int /\ 263 <= m /\ m <= 65535
  BY BlockFacts
<1>2. s.sp \in Int /\ 2 <= s.sp
  BY <1>1
<1>3. /\ u.sp = s.sp - 2 /\ u.pc = s.pc /\ u.imode = s.imode
      /\ u.iff1 = s.iff1 /\ u.halt = s.halt
      /\ Peek16(u, s.sp - 2) = w
      /\ \A b : b \notin {s.sp - 2, s.sp - 1} => Peek(u, b) = Peek(s, b)
  BY <1>2, PushReads
<1>4. u.reg = s.reg /\ u.sent = s.sent /\ u.f = s.f
  BY PushedIs DEF Kept
<1> HIDE DEF u
<1>5. s.sp - 2 >= m - 4 /\ s.sp - 1 >= m - 3 /\ s.sp - 1 \in Int /\ s.sp - 2 \in Int
  BY <1>1
<1>6. \A a : a \in Int /\ a < m - 4 => Peek(u, a) = Peek(s, a)
  <2> SUFFICES ASSUME NEW a \in Int, a < m - 4 PROVE a \notin {s.sp - 2, s.sp - 1}
    BY <1>3
  <2> HIDE DEF m
  <2> QED BY <1>1, <1>5 DEF m
<1>7. \A a \in Room : a \in Int /\ a < m - 4
  BY <1>1, RoomIs
<1>8. \A a \in 0..257 : a \in Int /\ a < m - 4
  BY <1>1
<1>9. Untouched(u, s)
  BY <1>4, <1>6, <1>7 DEF Untouched
<1>10. FrameKept(u)
  BY <1>3, <1>6, <1>8 DEF FrameKept
<1>11. s.sp = m - 2 => Back(u) = Back(s)
  <2> SUFFICES ASSUME s.sp = m - 2 PROVE Back(u) = Back(s)
    OBVIOUS
  <2>1. Low16(m - 2) = m - 2 /\ Low16(m - 2 + 1) = m - 1
    <3> HIDE DEF m
    <3>1. m - 2 \in Int /\ 0 <= m - 2 /\ m - 2 <= 65535 /\ m - 2 + 1 = m - 1
          /\ m - 1 \in Int /\ 0 <= m - 1 /\ m - 1 <= 65535
      BY <1>1
    <3> QED BY <3>1, Low16Is
  <2>2. m - 2 \notin {s.sp - 2, s.sp - 1} /\ m - 1 \notin {s.sp - 2, s.sp - 1}
    BY <1>1
  <2>3. Peek(u, m - 2) = Peek(s, m - 2) /\ Peek(u, m - 1) = Peek(s, m - 1)
    BY <1>3, <2>2
  <2> HIDE DEF m
  <2>4. Peek16(u, m - 2) = Peek16(s, m - 2)
    BY <2>1, <2>3 DEF Peek16
  <2> QED BY <2>4 DEF Back, m
<1> QED BY <1>3, <1>4, <1>9, <1>10, <1>11 DEF u

\* The devices' turn, after whatever instruction of the program or the handler.
LEMMA DevicesInBlock ==
  ASSUME IsBlockProgram(start), IsProcessor(start), NEW s, Kept(s, Open), FrameKept(s),
         AtWork(s) \/ InHandler(s), NEW answer \in Byte, Devices(s, answer)
  PROVE  FrameKept(cpu') /\ (AtWork(cpu') \/ InHandler(cpu'))
<1> SUFFICES ASSUME NEW bus \in BusBytes, ~s.ei_block,
                    cpu' = Interrupted(Acknowledged(s), bus, answer)
             PROVE  FrameKept(cpu') /\ (AtWork(cpu') \/ InHandler(cpu'))
  BY DEF Devices
<1> DEFINE t == Acknowledged(s)
           r == [t EXCEPT !.iff1 = FALSE, !.iff2 = FALSE, !.halt = FALSE]
<1>1. /\ Kept(t, Open) /\ t.mem = s.mem /\ t.sp = s.sp /\ t.pc = s.pc /\ t.imode = s.imode
      /\ t.iff1 = s.iff1 /\ t.halt = s.halt /\ t.ei_block = s.ei_block
      /\ t.reg = s.reg /\ t.sent = s.sent /\ ("Z" \in t.f <=> "Z" \in s.f)
  <2>1. Kept(t, Open)
    BY AcknowledgedKept
  <2>2. t = s \/ t = [s EXCEPT !.f = s.f \ {"P"}]
    BY DEF Acknowledged
  <2> QED BY <2>1, <2>2 DEF Kept, IsProcessor, Fields
<1> HIDE DEF t
<1>2. Untouched(t, s) /\ \A a : Peek(t, a) = Peek(s, a) /\ Peek16(t, a) = Peek16(s, a)
  BY <1>1, UntouchedIs
<1>3. FrameKept(t)
  BY <1>1, <1>2 DEF FrameKept
<1>4. /\ \A back : Work(s, back, s.f) => Work(t, back, t.f)
      /\ \A back, f : Work(s, back, f) => Work(t, back, f)
  BY <1>1, <1>2, WorkAlike
<1>5. AtWork(s) => AtWork(t)
  BY <1>1, <1>4 DEF AtWork
<1>6. InHandler(s) => InHandler(t) /\ ~t.iff1
  <2>1. Back(t) = Back(s) /\ Peek16(t, start.sp - 4) = Peek16(s, start.sp - 4)
    BY <1>2 DEF Back
  <2> QED BY <1>1, <1>4, <2>1 DEF InHandler
<1>7. cpu' = Interrupted(t, bus, answer)
  BY DEF t
<1>8. CASE ~t.iff1
  BY <1>3, <1>5, <1>6, <1>7, <1>8 DEF Interrupted
<1>9. CASE t.iff1
  <2>1. AtWork(t)
    BY <1>5, <1>6, <1>9
  <2>2. cpu' = Rst(r, 255)
    <3>1. t.imode = 1
      BY <1>3 DEF FrameKept
    <3>2. t.imode = 1 => Interrupted(t, bus, answer) = Rst(r, 255)
      BY <1>9 DEF Interrupted
    <3> QED BY <1>7, <3>1, <3>2
  <2>3. /\ Kept(r, Open) /\ r.mem = t.mem /\ r.sp = t.sp /\ r.pc = t.pc /\ r.imode = 1
        /\ ~r.iff1 /\ ~r.halt /\ r.reg = t.reg /\ r.sent = t.sent /\ r.f = t.f
    BY <1>1, <1>3 DEF FrameKept, Kept, IsProcessor, Fields, Calm, Open
  <2> HIDE DEF r
  <2> DEFINE p == Pushed(r, r.pc)
  <2>4. Y(255) = 7
    BY DEF Y
  <2>5. cpu' = JumpTo(p, 56)
    BY <2>2, <2>4 DEF Rst
  <2>6. r.sp = start.sp /\ r.pc \in Word /\ IsProcessor(r)
    BY <2>1, <2>3 DEF AtWork, Kept, IsProcessor
  <2>7. Untouched(r, t) /\ \A a : Peek(r, a) = Peek(t, a)
    BY <2>3, UntouchedIs
  <2>8. FrameKept(r)
    BY <1>3, <2>3, <2>7 DEF FrameKept
  <2>9. /\ Untouched(p, r) /\ FrameKept(p) /\ p.sp = start.sp - 2 /\ Peek16(p, start.sp - 2) = r.pc
        /\ ~p.iff1 /\ p.reg["a"] = r.reg["a"] /\ p.f = r.f
    BY <2>3, <2>6, <2>8, PushInBlock
  <2>10. IsProcessor(p)
    BY <2>3, <2>6, PushedKept DEF Kept
  <2> HIDE DEF p
  <2>11. /\ cpu'.sp = p.sp /\ cpu'.mem = p.mem /\ cpu'.imode = p.imode /\ cpu'.iff1 = p.iff1
         /\ cpu'.halt = p.halt /\ cpu'.pc = 56 /\ cpu'.reg = p.reg /\ cpu'.sent = p.sent /\ cpu'.f = p.f
    BY <2>5, <2>10 DEF JumpTo, IsProcessor, Fields
  <2> DEFINE c == cpu'
  <2>12. Untouched(c, p) /\ \A a : Peek(c, a) = Peek(p, a) /\ Peek16(c, a) = Peek16(p, a)
    BY <2>11, UntouchedIs
  <2> HIDE DEF c
  <2>13. FrameKept(c)
    BY <2>9, <2>11, <2>12 DEF FrameKept, c
  <2>14. Work(t, t.pc, t.f) /\ t.reg["a"] = A
    BY <2>1 DEF AtWork
  <2>15. Work(r, t.pc, t.f)
    BY <2>7, <2>14, WorkAlike
  <2>16. Work(p, t.pc, t.f)
    BY <2>9, <2>15, WorkAlike
  <2>17. Work(c, t.pc, t.f)
    BY <2>12, <2>16, WorkAlike
  <2>18. Back(c) = t.pc /\ c.f = t.f /\ c.reg["a"] = A /\ c.pc = 56 /\ ~c.iff1 /\ c.sp = start.sp - 2
    BY <2>3, <2>9, <2>11, <2>12, <2>14 DEF Back, c
  <2> QED BY <2>13, <2>17, <2>18 DEF InHandler, c
<1> QED BY <1>8, <1>9

\* The instruction that pc = 256 is at, with both its bytes fetched.
LEMMA BlockBegun ==
  ASSUME TypeOK, cpu.pc = 256
  PROVE  LET t == Fetched(Fetched(Awake))
         IN /\ Kept(t, Open) /\ t.pc = 258 /\ t.mem = cpu.mem /\ t.sp = cpu.sp /\ t.reg = cpu.reg
            /\ t.imode = cpu.imode /\ t.halt = cpu.halt /\ t.sent = cpu.sent
            /\ Opcode(Fetched(Awake)) = Peek(cpu, 257)
<1> DEFINE s == Fetched(Awake)
           t == Fetched(s)
<1>1. Kept(t, Open) /\ Kept(s, Open)
  BY AwakeKept, FetchedKept
<1>2. /\ s.mem = cpu.mem /\ s.sp = cpu.sp /\ s.pc = Low16(cpu.pc + 1) /\ s.imode = cpu.imode
      /\ s.halt = cpu.halt /\ s.reg = cpu.reg /\ s.sent = cpu.sent
  BY DEF TypeOK, IsProcessor, Fields, Awake, Fetched, Past
<1> HIDE DEF s
<1>3. /\ t.mem = s.mem /\ t.sp = s.sp /\ t.pc = Low16(s.pc + 1) /\ t.imode = s.imode
      /\ t.halt = s.halt /\ t.reg = s.reg /\ t.sent = s.sent
  BY <1>1 DEF Kept, IsProcessor, Fields, Fetched, Past
<1> HIDE DEF t
<1>4. Low16(256 + 1) = 257 /\ Low16(257 + 1) = 258
  BY Low16Is
<1>5. Opcode(s) = Peek(cpu, 257)
  BY <1>2, <1>4 DEF Opcode, Peek
<1> QED BY <1>1, <1>2, <1>3, <1>4, <1>5 DEF s, t

LEMMA BlockOpcodes ==
  ASSUME NEW t, NEW answer
  PROVE  /\ Extended(t, 176, answer) = CopyBlock(t, 6)
         /\ Extended(t, 184, answer) = CopyBlock(t, 7)
         /\ Extended(t, 177, answer) = SearchBlock(t, 6)
         /\ Extended(t, 179, answer) = WriteBlock(t, 6)
<1>1. X(176) = 2 /\ Y(176) = 6 /\ Z(176) = 0
  BY DEF X, Y, Z
<1>2. X(184) = 2 /\ Y(184) = 7 /\ Z(184) = 0
  BY DEF X, Y, Z
<1>3. X(177) = 2 /\ Y(177) = 6 /\ Z(177) = 1
  BY DEF X, Y, Z
<1>4. X(179) = 2 /\ Y(179) = 6 /\ Z(179) = 3
  BY DEF X, Y, Z
<1>5. \A op \in {176, 177, 179, 184} : Extended(t, op, answer) = Blocks(t, op, answer)
  BY <1>1, <1>2, <1>3, <1>4 DEF Extended
<1>6. Blocks(t, 176, answer) = CopyBlock(t, 6)
  BY <1>1 DEF Blocks
<1>7. Blocks(t, 184, answer) = CopyBlock(t, 7)
  BY <1>2 DEF Blocks
<1>8. Blocks(t, 177, answer) = SearchBlock(t, 6)
  BY <1>3 DEF Blocks
<1>9. Blocks(t, 179, answer) = WriteBlock(t, 6)
  BY <1>4 DEF Blocks
<1> QED BY <1>5, <1>6, <1>7, <1>8, <1>9

\* One more round.
LEMMA RoundRuns ==
  ASSUME IsBlockProgram(start), IsProcessor(start), NEW t, NEW q, Kept(t, q), t.pc = 258, FrameKept(t),
         t.sp = start.sp, t.reg["a"] = A, NEW f, Work(t, 256, f),
         NEW answer, NEW u, u = Extended(t, BlockOp, answer)
  PROVE  FrameKept(u) /\ AtWork(u)
<1>1. PICK j \in Word : Rounds(t, j, 256, f)
  BY DEF Work
<1>2. BlockOp \in {176, 177, 179, 184}
  BY BlockFacts
<1>w. /\ Bc \in Int /\ Bc <= 65535 /\ B \in Int /\ B <= 255 /\ Hl \in Int /\ De \in Int
      /\ start.sp \in Int
  BY BlockFacts
<1>j. j \in Int /\ 0 <= j /\ (j < Bc \/ j < B => j + 1 \in Word)
  BY <1>w, WordIs
<1>x. \A more : 256 = Resume(more) => more
  BY DEF Resume
<1>3. CASE BlockOp = 176
  <2>1. CopiedUp(t, j) /\ j < Bc
    BY <1>1, <1>3 DEF Rounds, Resume
  <2>2. u = CopyBlock(t, 6)
    BY <1>3, BlockOpcodes
  <2>3. CopiedUp(u, j + 1) /\ u.pc = Resume(j + 1 < Bc)
    BY <1>3, <2>1, <2>2, CopyUpRound
  <2>4. Rounds(u, j + 1, u.pc, u.f)
    BY <1>3, <2>3 DEF Rounds
  <2>5. /\ u.sp = t.sp /\ u.imode = t.imode /\ u.halt = t.halt /\ u.reg["a"] = t.reg["a"]
        /\ \A b : b # Pair(t, "de") => Peek(u, b) = Peek(t, b)
    BY <2>2, CopyRound
  <2>6. \A a \in 0..257 : a # Pair(t, "de")
    <3>1. Pair(t, "de") = De + j /\ De + j > 257
      <4>1. De > 257
        BY <1>3, BlockFacts
      <4> QED BY <1>j, <1>w, <2>1, <4>1 DEF CopiedUp
    <3> QED BY <1>j, <1>w, <3>1
  <2>7. FrameKept(u)
    BY <2>5, <2>6 DEF FrameKept
  <2> QED BY <1>j, <2>1, <2>4, <2>5, <2>7 DEF AtWork, Work
<1>4. CASE BlockOp = 184
  <2>1. CopiedDown(t, j) /\ j < Bc
    BY <1>1, <1>4 DEF Rounds, Resume
  <2>2. u = CopyBlock(t, 7)
    BY <1>4, BlockOpcodes
  <2>3. CopiedDown(u, j + 1) /\ u.pc = Resume(j + 1 < Bc)
    BY <1>4, <2>1, <2>2, CopyDownRound
  <2>4. Rounds(u, j + 1, u.pc, u.f)
    BY <1>4, <2>3 DEF Rounds
  <2>5. /\ u.sp = t.sp /\ u.imode = t.imode /\ u.halt = t.halt /\ u.reg["a"] = t.reg["a"]
        /\ \A b : b # Pair(t, "de") => Peek(u, b) = Peek(t, b)
    BY <2>2, CopyRound
  <2>6. \A a \in 0..257 : a # Pair(t, "de")
    <3>1. Pair(t, "de") = De - j /\ De - j > 257
      <4>1. 258 <= De - Bc + 1
        BY <1>4, BlockFacts
      <4> QED BY <1>j, <1>w, <2>1, <4>1 DEF CopiedDown
    <3> QED BY <1>j, <1>w, <3>1
  <2>7. FrameKept(u)
    BY <2>5, <2>6 DEF FrameKept
  <2> QED BY <1>j, <2>1, <2>4, <2>5, <2>7 DEF AtWork, Work
<1>5. CASE BlockOp = 177
  <2>1. Sought(t, j) /\ RoomKept(t) /\ j < Bc /\ ~Found(j)
    BY <1>1, <1>5 DEF Rounds, Resume
  <2>2. u = SearchBlock(t, 6)
    BY <1>5, BlockOpcodes
  <2>3. /\ Sought(u, j + 1) /\ RoomKept(u) /\ ("Z" \in u.f <=> Found(j + 1))
        /\ u.pc = Resume(j + 1 < Bc /\ ~Found(j + 1))
    BY <1>5, <2>1, <2>2, SeekRound
  <2>4. Rounds(u, j + 1, u.pc, u.f)
    BY <1>5, <2>3 DEF Rounds
  <2>5. /\ u.sp = t.sp /\ u.imode = t.imode /\ u.halt = t.halt /\ u.reg["a"] = t.reg["a"] /\ u.mem = t.mem
    BY <2>2, SearchRound
  <2>6. FrameKept(u)
    BY <2>5 DEF FrameKept, Peek
  <2> QED BY <1>j, <2>1, <2>4, <2>5, <2>6 DEF AtWork, Work
<1>6. CASE BlockOp = 179
  <2>1. Sent(t, j) /\ j < B
    BY <1>1, <1>6 DEF Rounds, Resume
  <2>2. u = WriteBlock(t, 6)
    BY <1>6, BlockOpcodes
  <2>3. Sent(u, j + 1) /\ u.pc = Resume(j + 1 < B)
    BY <1>6, <2>1, <2>2, WriteRound
  <2>4. Rounds(u, j + 1, u.pc, u.f)
    BY <1>6, <2>3 DEF Rounds
  <2>5. /\ u.sp = t.sp /\ u.imode = t.imode /\ u.halt = t.halt /\ u.reg["a"] = t.reg["a"] /\ u.mem = t.mem
    BY <2>2, SendRound
  <2>6. FrameKept(u)
    BY <2>5 DEF FrameKept, Peek
  <2> QED BY <1>j, <2>1, <2>4, <2>5, <2>6 DEF AtWork, Work
<1> QED BY <1>2, <1>3, <1>4, <1>5, <1>6

LEMMA RoundStep ==
  ASSUME TypeOK, Next, IsBlockProgram(start), IsProcessor(start), FrameKept(cpu), AtWork(cpu), cpu.pc = 256
  PROVE  FrameKept(cpu') /\ (AtWork(cpu') \/ InHandler(cpu'))
<1> DEFINE s == Fetched(Awake)
           t == Fetched(s)
<1>1. Opcode(cpu) = 237
  <2>1. Peek(start, 256) = 237
    BY BlockFacts
  <2> QED BY <2>1 DEF FrameKept, Opcode
<1>2. PICK answer \in Byte : /\ Devices(Instruction(s, 237, answer), answer)
                             /\ Kept(Instruction(s, 237, answer), Open)
  <2>1. ~cpu.halt
    BY DEF FrameKept
  <2> QED BY <1>1, <2>1, AwakeRuns
<1>3. Instruction(s, 237, answer) = Extended(t, Opcode(s), answer)
  BY DEF Instruction, Opened, Prefixes
<1>4. /\ Kept(t, Open) /\ t.pc = 258 /\ t.mem = cpu.mem /\ t.sp = cpu.sp /\ t.reg = cpu.reg
      /\ t.imode = cpu.imode /\ t.halt = cpu.halt /\ t.sent = cpu.sent
      /\ Opcode(s) = Peek(cpu, 257)
  BY BlockBegun
<1>5. Opcode(s) = BlockOp
  BY <1>4 DEF FrameKept, BlockOp
<1> HIDE DEF t
<1>6. Untouched(t, cpu) /\ FrameKept(t)
  <2>1. Untouched(t, cpu) /\ \A a : Peek(t, a) = Peek(cpu, a)
    BY <1>4, UntouchedIs
  <2> QED BY <1>4, <2>1 DEF FrameKept
<1>7. Work(t, 256, cpu.f)
  BY <1>6, WorkAlike DEF AtWork
<1>8. t.sp = start.sp /\ t.reg["a"] = A
  BY <1>4 DEF AtWork
<1> DEFINE u == Extended(t, BlockOp, answer)
<1>9. FrameKept(u) /\ AtWork(u)
  BY <1>4, <1>6, <1>7, <1>8, RoundRuns
<1>10. Devices(u, answer) /\ Kept(u, Open)
  BY <1>2, <1>3, <1>5
<1> HIDE DEF u
<1> QED BY <1>9, <1>10, DevicesInBlock

\* The handler, between two rounds.
LEMMA HandlerInBlock ==
  ASSUME IsBlockProgram(start), IsProcessor(start), NEW s, Kept(s, Open), s.index = "hl", FrameKept(s),
         NEW pc \in 56..61, s.pc = pc + 1, NEW op, op = Peek(start, pc), NEW answer,
         pc # 61 => ~s.iff1,
         s.sp = IF pc \in {57, 58, 59} THEN start.sp - 4 ELSE start.sp - 2,
         IF pc \in {57, 58, 59}
           THEN \E f \in SUBSET Flags : Peek16(s, start.sp - 4) = 256 * A + FlagByte(f) /\ Work(s, Back(s), f)
           ELSE s.reg["a"] = A /\ Work(s, Back(s), s.f),
         NEW u, u = Execute(s, op, answer), Kept(u, Open)
  PROVE  FrameKept(u) /\ (AtWork(u) \/ InHandler(u))
<1> DEFINE m == start.sp
<1>0. HasHandler(start) /\ A \in Byte
  BY BlockFacts
<1>1. m \in Int /\ 263 <= m /\ m <= 65535
  BY BlockFacts
<1>2. IsProcessor(s) /\ IsProcessor(u)
  BY DEF Kept
<1>k. ASSUME u.mem = s.mem, u.sent = s.sent, \A n \in Shadowed : u.reg[n] = s.reg[n],
             u.imode = s.imode, u.halt = s.halt
      PROVE  /\ Untouched(u, s) /\ FrameKept(u) /\ Back(u) = Back(s)
             /\ Peek16(u, m - 4) = Peek16(s, m - 4)
  <2>1. \A a : Peek(u, a) = Peek(s, a)
    BY <1>k DEF Peek
  <2>2. \A a : Peek16(u, a) = Peek16(s, a)
    BY <2>1 DEF Peek16
  <2>3. Untouched(u, s)
    BY <1>k, <2>1 DEF Untouched
  <2>4. FrameKept(u)
    BY <1>k, <2>1 DEF FrameKept
  <2> QED BY <2>2, <2>3, <2>4 DEF Back
<1>l. Low16(m - 4 + 2) = m - 2 /\ Low16(m - 2 + 2) = m
  <2> HIDE DEF m
  <2>1. m - 2 \in Int /\ 0 <= m - 2 /\ m - 2 <= 65535 /\ m - 4 + 2 = m - 2 /\ m - 2 + 2 = m
    BY <1>1
  <2> QED BY <1>1, <2>1, Low16Is
<1>3. CASE pc = 56
  <2>1. u = Pushed(s, Pair(s, "af")) /\ s.sp = m - 2
    BY <1>0, <1>3, HandlerBytes, HandlerOpcodes
  <2>2. Pair(s, "af") = 256 * A + FlagByte(s.f) /\ s.f \in SUBSET Flags
    BY <1>2, <1>3 DEF Pair, IsProcessor
  <2>3. Pair(s, "af") \in Word
    BY <1>2, PairIsWord DEF Pairs
  <2>4. /\ Untouched(u, s) /\ FrameKept(u) /\ u.sp = s.sp - 2 /\ Peek16(u, s.sp - 2) = Pair(s, "af")
        /\ u.pc = s.pc /\ u.iff1 = s.iff1 /\ Back(u) = Back(s)
    BY <2>1, <2>3, PushInBlock
  <2>5. u.sp = m - 4 /\ s.sp - 2 = m - 4 /\ u.pc = 57
    BY <1>1, <1>3, <2>1, <2>4
  <2>6. Work(u, Back(u), s.f)
    BY <1>3, <2>4, WorkAlike
  <2> QED BY <1>3, <2>2, <2>4, <2>5, <2>6 DEF InHandler
<1>4. CASE pc \in {57, 58}
  <2>1. \E v : u = OnAcc(s, v)
    BY <1>0, <1>4, HandlerBytes, HandlerOpcodes
  <2>2. /\ u.mem = s.mem /\ u.sent = s.sent /\ u.pc = s.pc /\ u.sp = s.sp /\ u.imode = s.imode
        /\ u.iff1 = s.iff1 /\ u.halt = s.halt /\ \A n \in Shadowed : u.reg[n] = s.reg[n]
    BY <1>2, <2>1 DEF OnAcc, WithFlags, SetReg, IsProcessor, Fields, Registers, Shadowed
  <2>3. Untouched(u, s) /\ FrameKept(u) /\ Back(u) = Back(s) /\ Peek16(u, m - 4) = Peek16(s, m - 4)
    BY <1>k, <2>2
  <2>4. PICK f \in SUBSET Flags : Peek16(s, m - 4) = 256 * A + FlagByte(f) /\ Work(s, Back(s), f)
    BY <1>4
  <2>5. Work(u, Back(u), f)
    BY <2>3, <2>4, WorkAlike
  <2>6. u.pc \in {58, 59} /\ u.sp = m - 4 /\ ~u.iff1
    BY <1>4, <2>2
  <2> QED BY <2>3, <2>4, <2>5, <2>6 DEF InHandler
<1>5. CASE pc = 59
  <2> DEFINE v == Popped(s)
             w == TopWord(s)
  <2>1. u = SetPair(v, "af", w) /\ s.sp = m - 4
    BY <1>0, <1>5, HandlerBytes, HandlerOpcodes
  <2>2. PICK f \in SUBSET Flags : Peek16(s, m - 4) = 256 * A + FlagByte(f) /\ Work(s, Back(s), f)
    BY <1>5
  <2>3. High(w) = A /\ FlagsOf(Low(w)) = f
    BY <1>0, <2>1, <2>2, AccAndFlags DEF TopWord
  <2>4. /\ v.sp = m - 2 /\ v.mem = s.mem /\ v.pc = s.pc /\ v.sent = s.sent
        /\ v.imode = s.imode /\ v.iff1 = s.iff1 /\ v.halt = s.halt
        /\ v.reg = s.reg /\ DOMAIN v = DOMAIN s
    BY <1>2, <1>l, <2>1 DEF Popped, IsProcessor, Fields
  <2>5. u = [SetReg(v, "a", High(w)) EXCEPT !.f = FlagsOf(Low(w))]
    BY <2>1 DEF SetPair
  <2> HIDE DEF v, w
  <2>6. /\ u.sp = m - 2 /\ u.mem = s.mem /\ u.pc = s.pc /\ u.sent = s.sent
        /\ u.imode = s.imode /\ u.iff1 = s.iff1 /\ u.halt = s.halt
        /\ u.reg["a"] = A /\ u.f = f /\ \A n \in Shadowed : u.reg[n] = s.reg[n]
    BY <1>2, <2>3, <2>4, <2>5 DEF SetReg, IsProcessor, Fields, Registers, Shadowed
  <2>7. Untouched(u, s) /\ FrameKept(u) /\ Back(u) = Back(s)
    BY <1>k, <2>6
  <2>8. Work(u, Back(u), u.f)
    BY <2>2, <2>6, <2>7, WorkAlike
  <2>9. u.pc = 60 /\ ~u.iff1
    BY <1>5, <2>6
  <2> QED BY <2>6, <2>7, <2>8, <2>9 DEF InHandler
<1>6. CASE pc = 60
  <2>1. u = Enable(s) /\ s.sp = m - 2
    BY <1>0, <1>6, HandlerBytes, IdleOpcodes
  <2>2. /\ u.mem = s.mem /\ u.sent = s.sent /\ u.pc = s.pc /\ u.sp = s.sp /\ u.imode = s.imode
        /\ u.ei_block /\ u.halt = s.halt /\ u.reg = s.reg /\ u.f = s.f
    BY <1>2, <2>1 DEF Enable, IsProcessor, Fields
  <2>3. Untouched(u, s) /\ FrameKept(u) /\ Back(u) = Back(s)
    BY <1>k, <2>2
  <2>4. Work(u, Back(u), u.f)
    BY <1>6, <2>2, <2>3, WorkAlike
  <2>5. u.pc = 61 /\ u.reg["a"] = A
    BY <1>6, <2>2
  <2> QED BY <2>1, <2>2, <2>3, <2>4, <2>5 DEF InHandler
<1>7. CASE pc = 61
  <2>1. u = JumpTo(Popped(s), TopWord(s)) /\ s.sp = m - 2
    BY <1>0, <1>7, HandlerBytes, HandlerOpcodes
  <2> DEFINE v == Popped(s)
  <2>2. /\ v.sp = m /\ v.mem = s.mem /\ v.sent = s.sent /\ v.imode = s.imode /\ v.halt = s.halt
        /\ v.reg = s.reg /\ v.f = s.f /\ DOMAIN v = DOMAIN s
    BY <1>2, <1>l, <2>1 DEF Popped, IsProcessor, Fields
  <2> HIDE DEF v
  <2>3. /\ u.sp = m /\ u.mem = s.mem /\ u.sent = s.sent /\ u.imode = s.imode /\ u.halt = s.halt
        /\ u.reg = s.reg /\ u.f = s.f /\ u.pc = TopWord(s)
    BY <1>2, <2>1, <2>2 DEF JumpTo, IsProcessor, Fields, v
  <2>4. Untouched(u, s) /\ FrameKept(u)
    BY <1>k, <2>3
  <2>5. u.pc = Back(s)
    BY <2>1, <2>3 DEF TopWord, Back
  <2>6. Work(u, u.pc, u.f) /\ u.reg["a"] = A
    BY <1>7, <2>3, <2>4, <2>5, WorkAlike
  <2> QED BY <2>3, <2>4, <2>6 DEF AtWork
<1> QED BY <1>3, <1>4, <1>5, <1>6, <1>7

LEMMA HandlerRunsBlock ==
  ASSUME TypeOK, Next, IsBlockProgram(start), IsProcessor(start), FrameKept(cpu), InHandler(cpu)
  PROVE  FrameKept(cpu') /\ (AtWork(cpu') \/ InHandler(cpu'))
<1> DEFINE s  == Fetched(Awake)
           op == Opcode(cpu)
           pc == cpu.pc
<1>1. PICK answer \in Byte : /\ Devices(Instruction(s, op, answer), answer)
                             /\ Kept(Instruction(s, op, answer), Open)
  BY AwakeRuns DEF FrameKept
<1>2. /\ Kept(s, Open) /\ s.index = "hl" /\ s.mem = cpu.mem /\ s.sp = cpu.sp
      /\ s.pc = Low16(cpu.pc + 1) /\ s.imode = cpu.imode /\ s.iff1 = cpu.iff1
      /\ s.halt = cpu.halt
  BY FrameBegun
<1>3. s.reg = cpu.reg /\ s.f = cpu.f /\ s.sent = cpu.sent
  BY DEF TypeOK, IsProcessor, Fields, Awake, Fetched, Past
<1> HIDE DEF s
<1>4. Untouched(s, cpu) /\ \A a : Peek(s, a) = Peek(cpu, a) /\ Peek16(s, a) = Peek16(cpu, a)
  BY <1>2, <1>3, UntouchedIs
<1>5. FrameKept(s)
  BY <1>2, <1>4 DEF FrameKept
<1>6. Back(s) = Back(cpu) /\ \A back, f : Work(cpu, back, f) => Work(s, back, f)
  BY <1>4, WorkAlike DEF Back
<1>7. /\ pc \in 56..61 /\ (pc # 61 => ~cpu.iff1)
      /\ cpu.sp = IF pc \in {57, 58, 59} THEN start.sp - 4 ELSE start.sp - 2
      /\ IF pc \in {57, 58, 59}
           THEN \E f \in SUBSET Flags : Peek16(cpu, start.sp - 4) = 256 * A + FlagByte(f) /\ Work(cpu, Back(cpu), f)
           ELSE cpu.reg["a"] = A /\ Work(cpu, Back(cpu), cpu.f)
  BY DEF InHandler
<1>8. s.pc = pc + 1
  BY <1>2, <1>7 DEF Low16
<1>9. op = Peek(start, pc)
  BY <1>7 DEF FrameKept, Opcode
<1>10. op \notin {203, 237} /\ op \notin Prefixes
  <2>1. op \in {60, 183, 201, 241, 245, 251}
    <3> HIDE DEF op, pc
    <3>1. HasHandler(start)
      BY BlockFacts
    <3>2. pc \in {56, 57, 58, 59, 60, 61}
      BY <1>7
    <3> QED BY <1>9, <3>1, <3>2, HandlerBytes
  <2> QED BY <2>1 DEF Prefixes
<1> DEFINE u == Execute(s, op, answer)
<1>11. Instruction(s, op, answer) = u
  BY <1>10 DEF Instruction, Opened
<1> HIDE DEF op, pc
<1>12. Kept(u, Open) /\ Devices(u, answer)
  BY <1>1, <1>11
<1>13. IF pc \in {57, 58, 59}
         THEN \E f \in SUBSET Flags : Peek16(s, start.sp - 4) = 256 * A + FlagByte(f) /\ Work(s, Back(s), f)
         ELSE s.reg["a"] = A /\ Work(s, Back(s), s.f)
  BY <1>3, <1>4, <1>6, <1>7
<1>14. (pc # 61 => ~s.iff1) /\ s.sp = IF pc \in {57, 58, 59} THEN start.sp - 4 ELSE start.sp - 2
  BY <1>2, <1>7
<1> DEFINE v == u
<1> HIDE DEF u
<1>15. FrameKept(v) /\ (AtWork(v) \/ InHandler(v))
  <2>1. v = Execute(s, op, answer)
    BY DEF u
  <2> HIDE DEF v
  <2>2. Kept(v, Open)
    BY <1>12 DEF v
  <2> QED BY <1>2, <1>5, <1>7, <1>8, <1>9, <1>13, <1>14, <2>1, <2>2, HandlerInBlock
<1> QED BY <1>12, <1>15, DevicesInBlock

\* The invariant in the next state, of a step that leaves start alone.
LEMMA BlockInvNext ==
  ASSUME start' = start,
         start.kind = "block" => /\ IsBlockProgram(start) /\ IsProcessor(start)
                                 /\ FrameKept(cpu') /\ (AtWork(cpu') \/ InHandler(cpu'))
  PROVE  BlockInv'
<1> DEFINE c == cpu'
<1>1. /\ BlockOp' = BlockOp /\ Hl' = Hl /\ De' = De /\ Bc' = Bc /\ B' = B /\ A' = A /\ Room' = Room
  BY DEF BlockOp, Hl, De, Bc, B, A, Room
<1>2. RoomKept(cpu)' <=> RoomKept(c)
  BY <1>1 DEF RoomKept
<1>3. \A j : CopiedUp(cpu, j)' <=> CopiedUp(c, j)
  BY <1>1 DEF CopiedUp
<1>4. \A j : CopiedDown(cpu, j)' <=> CopiedDown(c, j)
  BY <1>1 DEF CopiedDown
<1>5. \A j : Sought(cpu, j)' <=> Sought(c, j)
  BY <1>1 DEF Sought
<1>6. \A j : Sent(cpu, j)' <=> Sent(c, j)
  BY <1>1, <1>2 DEF Sent
<1>7. \A j : Found(j)' <=> Found(j)
  BY <1>1 DEF Found
<1>8. \A j, back, f : Rounds(cpu, j, back, f)' <=> Rounds(c, j, back, f)
  BY <1>1, <1>2, <1>3, <1>4, <1>5, <1>6, <1>7 DEF Rounds
<1>9. \A back, f : Work(cpu, back, f)' <=> Work(c, back, f)
  BY <1>8 DEF Work
<1>10. Back(cpu)' = Back(c)
  BY DEF Back
<1>11. AtWork(cpu)' <=> AtWork(c)
  BY <1>1, <1>9 DEF AtWork
<1>12. InHandler(cpu)' <=> InHandler(c)
  BY <1>1, <1>9, <1>10 DEF InHandler
<1>13. FrameKept(cpu)' <=> FrameKept(c)
  BY DEF FrameKept
<1> QED BY <1>11, <1>12, <1>13 DEF BlockInv

LEMMA BlockStep == ASSUME TypeOK, BlockInv, MCNext PROVE BlockInv'
<1>1. start' = start /\ Next
  BY DEF MCNext, Next, RunPlain, RunBits, RunExtended, RunIndexed, RunHalted, Run
<1>2. ASSUME start.kind = "block"
      PROVE  /\ IsBlockProgram(start) /\ IsProcessor(start)
             /\ FrameKept(cpu') /\ (AtWork(cpu') \/ InHandler(cpu'))
  <2>1. IsBlockProgram(start) /\ IsProcessor(start) /\ FrameKept(cpu) /\ (AtWork(cpu) \/ InHandler(cpu))
    BY <1>2 DEF BlockInv
  <2>2. CASE InHandler(cpu)
    BY <1>1, <2>1, <2>2, HandlerRunsBlock
  <2>3. CASE AtWork(cpu)
    <3>1. PICK j \in Word : Rounds(cpu, j, cpu.pc, cpu.f)
      BY <2>3 DEF AtWork, Work
    <3>2. cpu.pc \in {256, 258}
      BY <3>1 DEF Rounds, Resume
    <3>3. cpu.pc # 258
      <4>1. start.end = 258
        BY <2>1, BlockFacts
      <4> QED BY <1>2, <4>1 DEF MCNext, Followed
    <3> QED BY <1>1, <2>1, <2>3, <3>2, <3>3, RoundStep
  <2> QED BY <2>1, <2>2, <2>3
<1> QED BY <1>1, <1>2, BlockInvNext

\* Nothing is done yet.
LEMMA NothingDone ==
  ASSUME IsBlockProgram(start), IsProcessor(start), cpu = start
  PROVE  FrameKept(cpu) /\ AtWork(cpu)
<1>1. /\ start.sp \in Int /\ Hl \in Int /\ De \in Int /\ Bc \in Int /\ B \in Int
      /\ 0 <= Bc /\ start.pc = 256 /\ start.imode = 1 /\ ~start.halt /\ start.sent = <<>>
      /\ BlockOp \in {176, 177, 179, 184}
      /\ BlockOp \in {176, 177, 184} => 0 < Bc
      /\ BlockOp = 179 => 0 < B
  BY BlockFacts
<1>2. Hl + 0 = Hl /\ De + 0 = De /\ Bc - 0 = Bc /\ Hl - 0 = Hl /\ De - 0 = De /\ B - 0 = B
      /\ 0 \in 0..Bc /\ (0 < B => 0 \in 0..B) /\ 0 \in Word
  BY <1>1, WordIs
<1>3. \A a \in Room : a \in Int
  BY <1>1, RoomIs
<1>4. Pair(cpu, "hl") = Hl /\ Pair(cpu, "de") = De /\ Pair(cpu, "bc") = Bc /\ cpu.reg["b"] = B
  BY DEF Hl, De, Bc, B
<1>5. RoomKept(cpu)
  BY DEF RoomKept
<1>6. CASE BlockOp = 176
  <2>1. \A a \in Room : ~(a >= De /\ a < De + 0)
    BY <1>1, <1>3
  <2>2. CopiedUp(cpu, 0)
    BY <1>2, <1>4, <2>1 DEF CopiedUp
  <2>3. Rounds(cpu, 0, cpu.pc, cpu.f)
    BY <1>1, <1>6, <2>2 DEF Rounds, Resume
  <2> QED BY <1>1, <1>2, <2>3 DEF FrameKept, AtWork, Work, A
<1>7. CASE BlockOp = 184
  <2>1. \A a \in Room : ~(a <= De /\ a > De - 0)
    BY <1>1, <1>3
  <2>2. CopiedDown(cpu, 0)
    BY <1>2, <1>4, <2>1 DEF CopiedDown
  <2>3. Rounds(cpu, 0, cpu.pc, cpu.f)
    BY <1>1, <1>7, <2>2 DEF Rounds, Resume
  <2> QED BY <1>1, <1>2, <2>3 DEF FrameKept, AtWork, Work, A
<1>8. CASE BlockOp = 177
  <2>1. \A k \in 0..(0 - 2) : FALSE
    OBVIOUS
  <2>2. Sought(cpu, 0)
    BY <1>2, <1>4, <2>1 DEF Sought
  <2>3. Rounds(cpu, 0, cpu.pc, cpu.f)
    BY <1>1, <1>5, <1>8, <2>2 DEF Rounds, Resume, Found
  <2> QED BY <1>1, <1>2, <2>3 DEF FrameKept, AtWork, Work, A
<1>9. CASE BlockOp = 179
  <2>1. [k \in 1..0 |-> <<start.reg["c"], Peek(start, Hl + k - 1)>>] = <<>>
    OBVIOUS
  <2>2. Sent(cpu, 0)
    BY <1>1, <1>2, <1>4, <1>5, <1>9, <2>1 DEF Sent
  <2>3. Rounds(cpu, 0, cpu.pc, cpu.f)
    BY <1>1, <1>9, <2>2 DEF Rounds, Resume
  <2> QED BY <1>1, <1>2, <2>3 DEF FrameKept, AtWork, Work, A
<1> QED BY <1>1, <1>6, <1>7, <1>8, <1>9

\* What a search has found when it stops after j bytes.
LEMMA SearchStops ==
  ASSUME IsBlockProgram(start), IsProcessor(start), BlockOp = 177, NEW s, NEW j, Sought(s, j),
         ~(j < Bc /\ ~Found(j))
  PROVE  LET equal == {k \in 0..(Bc - 1) : Peek(start, Hl + k) = A}
         IN /\ (equal = {}) <=> ~Found(j)
            /\ j = IF equal = {} THEN Bc ELSE 1 + CHOOSE k \in equal : \A m \in equal : k <= m
<1> DEFINE equal == {k \in 0..(Bc - 1) : Peek(start, Hl + k) = A}
<1>1. Bc \in Int /\ 0 < Bc /\ Hl \in Int
  BY BlockFacts
<1>2. j \in Int /\ 0 <= j /\ j <= Bc
  BY <1>1 DEF Sought
<1>3. \A k \in 0..(j - 2) : Peek(start, Hl + k) # A
  BY DEF Sought
<1>4. CASE Found(j)
  <2>1. j > 0 /\ Peek(start, Hl + (j - 1)) = A
    <3>1. Hl + j - 1 = Hl + (j - 1)
      BY <1>1, <1>2
    <3> QED BY <1>4, <3>1 DEF Found
  <2>2. j - 1 \in equal
    BY <1>1, <1>2, <2>1
  <2>3. ASSUME NEW k \in equal PROVE k \in Int /\ j - 1 <= k
    <3>1. k \in Int /\ 0 <= k /\ k \notin 0..(j - 2)
      BY <1>1, <1>3, <2>3
    <3> QED BY <1>2, <3>1
  <2> HIDE DEF equal
  <2> DEFINE least == CHOOSE k \in equal : \A m \in equal : k <= m
  <2>4. least \in equal /\ \A m \in equal : least <= m
    BY <2>2, <2>3
  <2> HIDE DEF least
  <2>5. least = j - 1
    BY <1>2, <2>2, <2>3, <2>4
  <2>6. j = 1 + least
    BY <1>2, <2>5
  <2> QED BY <1>4, <2>2, <2>6 DEF equal, least
<1>5. CASE ~Found(j)
  <2>1. j = Bc
    BY <1>1, <1>2, <1>5
  <2>2. Peek(start, Hl + (Bc - 1)) # A
    <3>1. Hl + Bc - 1 = Hl + (Bc - 1)
      BY <1>1
    <3> QED BY <1>1, <1>5, <2>1, <3>1 DEF Found
  <2>3. ASSUME NEW k \in 0..(Bc - 1) PROVE Peek(start, Hl + k) # A
    <3>1. k = Bc - 1 \/ k \in 0..(j - 2)
      BY <1>1, <2>1
    <3> QED BY <1>3, <2>2, <3>1
  <2>4. equal = {}
    BY <2>3
  <2> HIDE DEF equal
  <2> QED BY <1>5, <2>1, <2>4 DEF equal
<1> QED BY <1>4, <1>5

LEMMA BlockAtEnd == ASSUME BlockInv PROVE BlockDone
<1> SUFFICES ASSUME start.kind = "block", cpu.pc = start.end PROVE BlockDone
  BY DEF BlockDone, AtEnd
<1>1. IsBlockProgram(start) /\ IsProcessor(start) /\ (AtWork(cpu) \/ InHandler(cpu))
  BY DEF BlockInv
<1>2. /\ cpu.pc = 258 /\ start.sp \in Int /\ Hl \in Int /\ De \in Int /\ Bc \in Int /\ B \in Int
      /\ 258 <= Hl /\ 0 <= Bc
      /\ BlockOp \in {176, 177, 179, 184}
      /\ BlockOp = 176 => 0 < Bc /\ Hl < De /\ De + Bc - 1 <= start.sp - 5
      /\ BlockOp = 184 => 0 < Bc /\ De < Hl /\ 258 <= De - Bc + 1
      /\ Hl <= start.sp - 5
  BY <1>1, BlockFacts
<1>3. AtWork(cpu)
  BY <1>1, <1>2 DEF InHandler
<1>4. PICK j \in Word : Rounds(cpu, j, 258, cpu.f)
  BY <1>2, <1>3 DEF AtWork, Work
<1>5. \A more : 258 = Resume(more) => ~more
  BY DEF Resume
<1>6. BlockOp = 176 => (\A k \in 0..(Bc - 1) : Peek(cpu, De + k) = Peek(start, Hl + (k % (De - Hl)))) /\ Pair(cpu, "bc") = 0
  <2> SUFFICES ASSUME BlockOp = 176
               PROVE  (\A k \in 0..(Bc - 1) : Peek(cpu, De + k) = Peek(start, Hl + (k % (De - Hl)))) /\ Pair(cpu, "bc") = 0
    OBVIOUS
  <2>1. CopiedUp(cpu, j) /\ ~(j < Bc)
    BY <1>4 DEF Rounds, Resume
  <2>2. j = Bc /\ Pair(cpu, "bc") = Bc - j
    BY <1>2, <2>1 DEF CopiedUp
  <2>3. Pair(cpu, "bc") = 0
    BY <1>2, <2>2
  <2>4. ASSUME NEW k \in 0..(Bc - 1) PROVE Peek(cpu, De + k) = Peek(start, Hl + (k % (De - Hl)))
    <3>1. De + k \in Int /\ 258 <= De + k /\ De + k <= start.sp - 5 /\ De + k >= De /\ De + k < De + j
          /\ (De + k) - De = k
      BY <1>2, <2>2
    <3>2. De + k \in Room
      BY <1>2, <3>1, RoomIs
    <3> QED BY <2>1, <3>1, <3>2 DEF CopiedUp
  <2> QED BY <2>3, <2>4
<1>7. BlockOp = 184 => (\A k \in 0..(Bc - 1) : Peek(cpu, De - k) = Peek(start, Hl - (k % (Hl - De)))) /\ Pair(cpu, "bc") = 0
  <2> SUFFICES ASSUME BlockOp = 184
               PROVE  (\A k \in 0..(Bc - 1) : Peek(cpu, De - k) = Peek(start, Hl - (k % (Hl - De)))) /\ Pair(cpu, "bc") = 0
    OBVIOUS
  <2>1. CopiedDown(cpu, j) /\ ~(j < Bc)
    BY <1>4 DEF Rounds, Resume
  <2>2. j = Bc /\ Pair(cpu, "bc") = Bc - j
    BY <1>2, <2>1 DEF CopiedDown
  <2>3. Pair(cpu, "bc") = 0
    BY <1>2, <2>2
  <2>4. ASSUME NEW k \in 0..(Bc - 1) PROVE Peek(cpu, De - k) = Peek(start, Hl - (k % (Hl - De)))
    <3>1. De - k \in Int /\ 258 <= De - k /\ De - k <= start.sp - 5 /\ De - k <= De /\ De - k > De - j
          /\ De - (De - k) = k
      BY <1>2, <2>2
    <3>2. De - k \in Room
      BY <1>2, <3>1, RoomIs
    <3> QED BY <2>1, <3>1, <3>2 DEF CopiedDown
  <2> QED BY <2>3, <2>4
<1> DEFINE equal == {k \in 0..(Bc - 1) : Peek(start, Hl + k) = A}
           steps == IF equal = {} THEN Bc ELSE 1 + CHOOSE k \in equal : \A m \in equal : k <= m
<1>8. BlockOp = 177 => /\ Pair(cpu, "hl") = Hl + steps /\ Pair(cpu, "bc") = Bc - steps
                       /\ "Z" \in cpu.f <=> equal # {}
  <2> SUFFICES ASSUME BlockOp = 177
               PROVE  /\ Pair(cpu, "hl") = Hl + steps /\ Pair(cpu, "bc") = Bc - steps
                      /\ "Z" \in cpu.f <=> equal # {}
    OBVIOUS
  <2>1. Sought(cpu, j) /\ ~(j < Bc /\ ~Found(j)) /\ ("Z" \in cpu.f <=> Found(j))
    BY <1>4 DEF Rounds, Resume
  <2>2. (equal = {} <=> ~Found(j)) /\ j = steps
    BY <1>1, <2>1, SearchStops
  <2> HIDE DEF equal, steps
  <2> QED BY <2>1, <2>2 DEF Sought
<1>9. BlockOp = 179 => cpu.sent = [k \in 1..B |-> <<start.reg["c"], Peek(start, Hl + k - 1)>>]
  <2> SUFFICES ASSUME BlockOp = 179
               PROVE  cpu.sent = [k \in 1..B |-> <<start.reg["c"], Peek(start, Hl + k - 1)>>]
    OBVIOUS
  <2>1. Sent(cpu, j) /\ ~(j < B)
    BY <1>4 DEF Rounds, Resume
  <2>2. j = B
    BY <1>2, <2>1 DEF Sent
  <2> QED BY <2>1, <2>2 DEF Sent
<1>10. cpu.reg["a"] = A /\ cpu.sp = start.sp
  BY <1>3 DEF AtWork
<1>11. Origin + 1 = 257
  BY DEF Origin
<1> QED BY <1>6, <1>7, <1>8, <1>9, <1>10, <1>11 DEF BlockDone, BlockOp, Hl, De, Bc, B, A

\* A block instruction that interrupts cut between two of its rounds, whatever
\* its operands and however often, does what it does undisturbed: the handler
\* keeps the pairs and gives back the flags, and the instruction is run again
\* from where it stood (CPU_step, handle_interrupt, ldir, lddr, cpir, otir).
THEOREM BlocksAreDone == MCSpec => []BlockDone
<1>1. Init => BlockInv
  <2> SUFFICES ASSUME Init, start.kind = "block"
               PROVE  IsBlockProgram(start) /\ IsProcessor(start) /\ FrameKept(cpu) /\ AtWork(cpu)
    BY DEF BlockInv
  <2>1. start \in Machines /\ cpu = start
    BY DEF Init
  <2>2. IsBlockProgram(start) /\ IsProcessor(start)
    BY <2>1, MachinesAssumption, BlockAssumption
  <2> QED BY <2>1, <2>2, NothingDone
<1>2. TypeOK /\ BlockInv /\ [MCNext]_vars => BlockInv'
  <2>1. BlockInv /\ UNCHANGED vars => BlockInv'
    BY BlockInvNext DEF BlockInv, vars
  <2> QED BY <2>1, BlockStep
<1>3. MCSpec => Spec
  <2>1. [MCNext]_vars => [Next]_vars
    BY DEF MCNext
  <2> QED BY <2>1, PTL DEF MCSpec, Spec
<1> QED BY <1>1, <1>2, <1>3, ProcessorTyped, BlockAtEnd, PTL DEF MCSpec
=============================================================================
