------------------------- MODULE BitStream_proofs -------------------------
(***************************************************************************)
(* What the bit writer holds and what the bit reader returns, proved for   *)
(* every word, byte and buffer size, every sequence of calls, every        *)
(* allocation that is refused and every number of bytes the reader's       *)
(* callback may give at a time.                                            *)
(*                                                                         *)
(* The writer of BitWriter keeps the bits it was given in two places: the  *)
(* whole words in its buffer and the rest in its accumulator, above which  *)
(* garbage of earlier words may lie.  Good(w) says that the two are as     *)
(* full as the counts say and that the words are within the capacity, and  *)
(* Place(w) where a value that is put now will come to lie.                *)
(*                                                                         *)
(* A call is a chain of such puts, so the argument follows the chain:      *)
(*   1. a put keeps Good and appends its bits (Followed), whatever the     *)
(*      alignment: within the accumulator, up to its edge, or over it;     *)
(*   2. it stores inside the buffer if there is room for its bits          *)
(*      (HasRoom).  The size checks of the code compare a number of words  *)
(*      with a number of bits; RoomIs and RiceRoomIs show that they are    *)
(*      sometimes too long for it and never too short;                     *)
(*   3. a call of the client is refused memory and changes nothing of what *)
(*      is held, or appends what it was given (Wrote).                     *)
(* WriterInv, Good with the contents being what was written, is inductive  *)
(* by 3, and reading leaves the writer alone.                              *)
(*                                                                         *)
(* The reader of BitReader has the last of the fetched bits in its buffer  *)
(* and is at a bit of a word of it.  Both are expressed by the file: the   *)
(* buffer is a slice of it (Buffered), the word begins at WordStart, the   *)
(* next bit is BitAt, and the CRC is another slice (Summed).  So is what a *)
(* call that is not finished has behind it: zeros, and the stop bit        *)
(* (Counted).  The argument:                                               *)
(*   1. what is taken, scanned or skipped is what the file has behind      *)
(*      BitAt, and moves BitAt by as much (TakeIs, StopIs, PassIs, SkipIs);*)
(*   2. the shift and the fill before and after the callback leave BitAt   *)
(*      where it is (ShiftIs, FillIs), and there is always room to fetch a *)
(*      byte, because a call that wants more has less than a word left     *)
(*      (WantsMoreIs, SpaceIs), so that a call fails at the end of the     *)
(*      file only;                                                         *)
(*   3. hence every step keeps BitAt at the bit that the answers, and what *)
(*      the call has behind it, stand for (InPlace).                       *)
(* ReaderInv says this of a reader that is not astray, with what the last  *)
(* answer says of the file (Returned, Failed).  A failed call has lost the *)
(* tail; until the reader is cleared the same is true of it with another   *)
(* buffer (Intact).  The invariant needs the writer once:                  *)
(* the file is of whole bytes because the writer was byte aligned.         *)
(***************************************************************************)
EXTENDS BitStream, SequenceTheorems, WellFoundedInduction, TLAPS

-----------------------------------------------------------------------------
(* Bits.                                                                   *)

\* The sizes.
LEMMA BitSizes ==
  /\ WordBits \in Nat \ {0, 1} /\ ByteBits \in Nat \ {0, 1}
  /\ WriterCapacity \in Nat \ {0} /\ WriterIncrement \in Nat \ {0} /\ Memory \subseteq Nat
BY WriterAssumption

\* Zeros ...
LEMMA ZerosAre ==
  ASSUME NEW n \in Nat
  PROVE  /\ NoBits(n) \in Seq(Bit) /\ Len(NoBits(n)) = n
         /\ \A i \in 1 .. n : NoBits(n)[i] = 0
<1>1. 0 \in Bit
  BY DEF Bit
<1>2. NoBits(n) = [i \in 1 .. n |-> 0]
  BY DEF NoBits
<1>3. NoBits(n) \in [1 .. n -> Bit]
  BY <1>1, <1>2
<1> QED BY <1>2, <1>3

\* ... and zeros are zeros.
LEMMA ZerosAdd ==
  ASSUME NEW m \in Nat, NEW n \in Nat
  PROVE  NoBits(m) \o NoBits(n) = NoBits(m + n)
<1>1. m + n \in Nat
  OBVIOUS
<1>2. /\ NoBits(m) \in Seq(Bit) /\ Len(NoBits(m)) = m /\ \A i \in 1 .. m : NoBits(m)[i] = 0
      /\ NoBits(n) \in Seq(Bit) /\ Len(NoBits(n)) = n /\ \A i \in 1 .. n : NoBits(n)[i] = 0
  BY ZerosAre
<1>3. /\ NoBits(m + n) \in Seq(Bit) /\ Len(NoBits(m + n)) = m + n
      /\ \A i \in 1 .. m + n : NoBits(m + n)[i] = 0
  BY <1>1, ZerosAre
<1> DEFINE a == NoBits(m)
           b == NoBits(n)
           c == NoBits(m + n)
<1> HIDE DEF a, b, c
<1>4. /\ a \in Seq(Bit) /\ Len(a) = m /\ b \in Seq(Bit) /\ Len(b) = n
      /\ (\A i \in 1 .. m : a[i] = 0) /\ (\A i \in 1 .. n : b[i] = 0)
  BY <1>2 DEF a, b
<1>5. /\ a \o b \in Seq(Bit) /\ Len(a \o b) = Len(a) + Len(b)
      /\ \A i \in 1 .. Len(a) + Len(b) : (a \o b)[i] = IF i <= Len(a) THEN a[i] ELSE b[i - Len(a)]
  BY <1>4, ConcatProperties
<1>6. ASSUME NEW i \in 1 .. m + n PROVE (a \o b)[i] = c[i]
  <2>1. c[i] = 0
    BY <1>3 DEF c
  <2>2. CASE i <= m
    <3>1. i \in 1 .. m /\ i \in 1 .. Len(a) + Len(b)
      BY <1>4, <2>2
    <3> QED BY <1>2, <1>4, <1>5, <2>1, <2>2, <3>1 DEF a
  <2>3. CASE ~ (i <= m)
    <3>1. i - m \in 1 .. n /\ i \in 1 .. Len(a) + Len(b)
      BY <1>4, <2>3
    <3> QED BY <1>2, <1>4, <1>5, <2>1, <2>3, <3>1 DEF b
  <2> QED BY <2>2, <2>3
<1>7. c \in Seq(Bit) /\ Len(c) = Len(a \o b)
  BY <1>3, <1>4, <1>5 DEF c
<1>8. \A i \in 1 .. Len(a \o b) : (a \o b)[i] = c[i]
  BY <1>4, <1>5, <1>6
<1>9. a \o b = c
  BY <1>5, <1>7, <1>8, SeqEqual
<1> QED BY <1>9 DEF a, b, c

\* Brackets do not matter.
LEMMA Assoc ==
  ASSUME NEW s \in Seq(Bit), NEW t \in Seq(Bit), NEW u \in Seq(Bit)
  PROVE  (s \o t) \o u = s \o (t \o u)
BY ConcatAssociative

\* A word is WordBits bits.
LEMMA WordIs ==
  /\ \A x \in Word : x \in Seq(Bit) /\ Len(x) = WordBits
  /\ \A x \in Seq(Bit) : Len(x) = WordBits => x \in Word
BY BitSizes DEF Word

\* The low bits of one.
LEMMA LowIs ==
  ASSUME NEW word \in Word, NEW n \in 0 .. WordBits
  PROVE  /\ Low(word, n) \in Seq(Bit) /\ Len(Low(word, n)) = n
         /\ \A i \in 1 .. n : Low(word, n)[i] = word[WordBits - n + i]
<1> DEFINE m == WordBits - n + 1
<1>1. m \in Int /\ WordBits \in Int /\ n \in Int /\ n >= 0 /\ WordBits - m + 1 = n
  BY BitSizes
<1>2. \A i \in m .. WordBits : word[i] \in Bit
  <2>1. \A i \in m .. WordBits : i \in 1 .. WordBits
    BY BitSizes
  <2> QED BY <2>1 DEF Word
<1> HIDE DEF m
<1>3. /\ SubSeq(word, m, WordBits) \in Seq(Bit)
      /\ Len(SubSeq(word, m, WordBits)) = IF m <= WordBits THEN WordBits - m + 1 ELSE 0
      /\ \A i \in 1 .. WordBits - m + 1 : SubSeq(word, m, WordBits)[i] = word[m + i - 1]
  BY <1>1, <1>2, SubSeqProperties
<1>4. Low(word, n) = SubSeq(word, m, WordBits)
  BY DEF Low, m
<1>5. Len(Low(word, n)) = n
  BY <1>1, <1>3, <1>4
<1>6. \A i \in 1 .. n : m + i - 1 = WordBits - n + i
  BY BitSizes DEF m
<1> QED BY <1>1, <1>3, <1>4, <1>5, <1>6

\* All of them are the word, ...
LEMMA LowAll == ASSUME NEW word \in Word PROVE Low(word, WordBits) = word
<1>1. word \in Seq(Bit) /\ Len(word) = WordBits
  BY WordIs
<1>2. WordBits - WordBits + 1 = 1
  BY BitSizes
<1> QED BY <1>1, <1>2, SubSeqFull DEF Low

\* ... and none nothing.
LEMMA LowNone == ASSUME NEW word \in Word PROVE Low(word, 0) = <<>>
<1>1. 0 \in 0 .. WordBits
  BY BitSizes
<1> QED BY <1>1, LowIs

\* A sequence in two parts.
LEMMA Parts ==
  ASSUME NEW v \in Seq(Bit), NEW k \in 0 .. Len(v)
  PROVE  /\ SubSeq(v, 1, k) \in Seq(Bit) /\ Len(SubSeq(v, 1, k)) = k
         /\ SubSeq(v, k + 1, Len(v)) \in Seq(Bit)
         /\ Len(SubSeq(v, k + 1, Len(v))) = Len(v) - k
         /\ SubSeq(v, 1, k) \o SubSeq(v, k + 1, Len(v)) = v
<1>1. Len(v) \in Nat /\ k \in Int /\ 0 <= k /\ k <= Len(v)
  OBVIOUS
<1>2. SubSeq(v, 1, k) \o SubSeq(v, k + 1, Len(v)) = SubSeq(v, 1, Len(v))
  <2>1. 1 \in 1 .. Len(v) + 1 /\ k \in 1 - 1 .. Len(v) /\ Len(v) \in k .. Len(v)
    BY <1>1
  <2> QED BY <2>1, ConcatAdjacentSubSeq
<1>3. SubSeq(v, 1, Len(v)) = v
  BY SubSeqFull
<1>4. SubSeq(v, 1, k) \in Seq(Bit) /\ Len(SubSeq(v, 1, k)) = k
  BY <1>1
<1>5. SubSeq(v, k + 1, Len(v)) \in Seq(Bit) /\ Len(SubSeq(v, k + 1, Len(v))) = Len(v) - k
  BY <1>1
<1> QED BY <1>2, <1>3, <1>4, <1>5

\* Bits shifted into a word are behind those of account.
LEMMA ShiftInIs ==
  ASSUME NEW accum \in Word, NEW v \in Seq(Bit), Len(v) <= WordBits
  PROVE  /\ ShiftIn(accum, v) \in Word
         /\ \A n \in 0 .. WordBits :
              n + Len(v) <= WordBits =>
                Low(ShiftIn(accum, v), n + Len(v)) = Low(accum, n) \o v
<1> DEFINE L == Len(v)
           a == accum \o v
           s == ShiftIn(accum, v)
<1>1. accum \in Seq(Bit) /\ Len(accum) = WordBits /\ L \in Nat /\ WordBits \in Nat /\ L <= WordBits
  BY WordIs, BitSizes
<1>2. /\ a \in Seq(Bit) /\ Len(a) = Len(accum) + Len(v)
      /\ \A i \in 1 .. Len(accum) + Len(v) :
           a[i] = IF i <= Len(accum) THEN accum[i] ELSE v[i - Len(accum)]
  BY <1>1, ConcatProperties
<1> HIDE DEF a
<1>3. /\ s \in Seq(Bit) /\ Len(s) = WordBits
      /\ \A i \in 1 .. WordBits : s[i] = a[L + i]
  <2> DEFINE m == L + 1
             k == L + WordBits
  <2>1. m \in Int /\ k \in Int /\ m <= k /\ k - m + 1 = WordBits
    BY <1>1, BitSizes
  <2>2. \A i \in m .. k : a[i] \in Bit
    <3>1. \A i \in m .. k : i \in 1 .. Len(a)
      BY <1>1, <1>2
    <3> QED BY <1>2, <3>1, ElementOfSeq
  <2>3. \A i \in 1 .. WordBits : m + i - 1 = L + i
    BY <1>1
  <2>4. s = SubSeq(a, m, k)
    BY DEF ShiftIn, a
  <2> HIDE DEF m, k
  <2>5. /\ SubSeq(a, m, k) \in Seq(Bit)
        /\ Len(SubSeq(a, m, k)) = IF m <= k THEN k - m + 1 ELSE 0
        /\ \A i \in 1 .. k - m + 1 : SubSeq(a, m, k)[i] = a[m + i - 1]
    BY <2>1, <2>2, SubSeqProperties
  <2> HIDE DEF s
  <2> QED BY <2>1, <2>3, <2>4, <2>5
<1>4. s \in Word
  BY <1>3, WordIs
<1> HIDE DEF s
<1>5. ASSUME NEW n \in 0 .. WordBits, n + L <= WordBits PROVE Low(s, n + L) = Low(accum, n) \o v
  <2> DEFINE x == Low(s, n + L)
             y == Low(accum, n)
  <2>1. n + L \in 0 .. WordBits /\ n \in Nat
    BY <1>1, <1>5
  <2>2. x \in Seq(Bit) /\ Len(x) = n + L /\ \A i \in 1 .. n + L : x[i] = s[WordBits - (n + L) + i]
    BY <1>4, <2>1, LowIs
  <2>3. y \in Seq(Bit) /\ Len(y) = n /\ \A i \in 1 .. n : y[i] = accum[WordBits - n + i]
    BY LowIs
  <2> HIDE DEF x, y
  <2>4. /\ y \o v \in Seq(Bit) /\ Len(y \o v) = Len(y) + Len(v)
        /\ \A i \in 1 .. Len(y) + Len(v) : (y \o v)[i] = IF i <= Len(y) THEN y[i] ELSE v[i - Len(y)]
    BY <2>3, ConcatProperties
  <2>5. ASSUME NEW i \in 1 .. n + L PROVE x[i] = (y \o v)[i]
    <3> DEFINE p == WordBits - n + i
               q == WordBits - (n + L) + i
    <3>1. /\ q \in 1 .. WordBits /\ L + q = p /\ p \in 1 .. Len(accum) + Len(v) /\ p \in Int
          /\ p - Len(accum) = i - n /\ (p <= Len(accum) <=> i <= n)
          /\ i \in 1 .. Len(y) + Len(v)
      BY <1>1, <1>5, <2>1, <2>3
    <3>2. x[i] = s[q]
      BY <2>2
    <3> HIDE DEF q
    <3>3. x[i] = a[p]
      BY <1>3, <3>1, <3>2
    <3>4. CASE i <= n
      <4>1. i \in 1 .. n
        BY <2>1, <3>4
      <4>2. y[i] = accum[p]
        BY <2>3, <4>1
      <4> HIDE DEF p
      <4>3. a[p] = accum[p]
        BY <1>2, <3>1, <3>4
      <4> QED BY <2>3, <2>4, <3>1, <3>3, <3>4, <4>2, <4>3
    <3>5. CASE ~ (i <= n)
      <4> HIDE DEF p
      <4>1. a[p] = v[i - n]
        BY <1>2, <3>1, <3>5
      <4>2. (y \o v)[i] = v[i - n]
        BY <2>3, <2>4, <3>1, <3>5
      <4> QED BY <3>3, <4>1, <4>2
    <3> QED BY <3>4, <3>5
  <2>6. Len(x) = Len(y \o v) /\ \A i \in 1 .. Len(x) : x[i] = (y \o v)[i]
    BY <2>2, <2>3, <2>4, <2>5
  <2>7. x = y \o v
    BY <2>2, <2>4, <2>6, SeqEqual
  <2> QED BY <2>7 DEF x, y
<1> QED BY <1>4, <1>5 DEF s

-----------------------------------------------------------------------------
(* Room.                                                                   *)

\* A record of the writer's whose words are in its buffer.
Good(w) ==
  /\ w \in Writers /\ w.words <= w.capacity /\ w.top <= w.capacity
  /\ Len(w.buffer) = w.words * WordBits

\* How many bits it has taken, ...
Place(w) == w.words * WordBits + w.bits

\* ... and that there is room for more.
HasRoom(w, n) == Place(w) + n <= w.capacity * WordBits

\* Its fields.
LEMMA GoodIs ==
  ASSUME NEW w, Good(w)
  PROVE  /\ w \in Writers
         /\ w.buffer \in Seq(Bit) /\ w.accum \in Word /\ w.ok \in BOOLEAN
         /\ w.words \in Nat /\ w.bits \in Nat /\ w.bits < WordBits /\ w.bits \in 0 .. WordBits
         /\ w.capacity \in Nat /\ w.top \in Nat /\ w.words <= w.capacity
         /\ w.top <= w.capacity /\ Len(w.buffer) = w.words * WordBits
         /\ Place(w) \in Nat /\ Low(w.accum, w.bits) \in Seq(Bit) /\ Contents(w) \in Seq(Bit)
<1>1. /\ w \in Writers /\ w.buffer \in Seq(Bit) /\ w.accum \in Word /\ w.ok \in BOOLEAN
      /\ w.words \in Nat /\ w.bits \in 0 .. WordBits - 1 /\ w.capacity \in Nat /\ w.top \in Nat
      /\ w.words <= w.capacity /\ w.top <= w.capacity /\ Len(w.buffer) = w.words * WordBits
  BY DEF Good, Writers
<1>2. w.bits \in Nat /\ w.bits < WordBits /\ w.bits \in 0 .. WordBits
  BY <1>1, BitSizes
<1>3. Low(w.accum, w.bits) \in Seq(Bit)
  BY <1>1, <1>2, LowIs
<1>4. Place(w) \in Nat
  BY <1>1, <1>2, BitSizes DEF Place
<1>5. Contents(w) \in Seq(Bit)
  BY <1>1, <1>3, ConcatProperties DEF Contents
<1> QED BY <1>1, <1>2, <1>3, <1>4, <1>5

\* More words take more bits.
LEMMA WordsAndBits ==
  ASSUME NEW a \in Int, NEW b \in Int, a * WordBits <= b * WordBits
  PROVE  a <= b
<1>1. SUFFICES ASSUME a >= b + 1 PROVE FALSE
  OBVIOUS
<1>2. (a - b - 1) * WordBits >= 0
  BY <1>1, BitSizes
<1>3. (a - b - 1) * WordBits = a * WordBits - b * WordBits - WordBits
  BY BitSizes
<1>4. a * WordBits \in Int /\ b * WordBits \in Int
  BY BitSizes
<1> QED BY <1>2, <1>3, <1>4, BitSizes

\* One more word for what fills the accumulator.
LEMMA RoomForWord ==
  ASSUME NEW w, Good(w), NEW n \in Nat, HasRoom(w, n), w.bits + n >= WordBits
  PROVE  w.words + 1 <= w.capacity
<1>1. w.words \in Nat /\ w.bits \in Nat /\ w.capacity \in Nat
  BY GoodIs
<1>2. w.words * WordBits \in Nat /\ w.capacity * WordBits \in Nat
  BY <1>1, BitSizes
<1>3. (w.words + 1) * WordBits = w.words * WordBits + WordBits
  BY <1>1, BitSizes
<1>4. (w.words + 1) * WordBits <= w.capacity * WordBits
  BY <1>1, <1>2, <1>3, BitSizes DEF HasRoom, Place
<1> QED BY <1>1, <1>4, WordsAndBits

\* Quotient and rest.
LEMMA DivIs ==
  ASSUME NEW N \in Nat \ {0}, NEW a \in Int
  PROVE  /\ a \div N \in Int /\ a % N \in 0 .. N - 1 /\ a = (a \div N) * N + (a % N)
OBVIOUS

\* bitwriter_grow_ makes room or fails, and changes nothing else.
LEMMA GrowIs ==
  ASSUME NEW w, Good(w), w.ok, NEW n \in Nat, NEW memory
  PROVE  LET x == Grow(w, n, memory)
         IN  /\ Good(x) /\ Contents(x) = Contents(w) /\ x.bits = w.bits
             /\ x.ok => HasRoom(x, n)
<1> DEFINE x == Grow(w, n, memory)
           need == WordsNeeded(w, n)
           over == (need - w.capacity) % WriterIncrement
           up == RoundedUp(w, need)
           q == (w.bits + n + WordBits - 1) \div WordBits
           r == (w.bits + n + WordBits - 1) % WordBits
<1>1. /\ w \in Writers /\ w.words \in Nat /\ w.bits \in Nat /\ w.capacity \in Nat
      /\ w.words <= w.capacity /\ w.top <= w.capacity /\ w.top \in Nat
  BY GoodIs
<1>2. /\ q \in Int /\ r \in 0 .. WordBits - 1
      /\ w.bits + n + WordBits - 1 = q * WordBits + r
  <2>1. w.bits + n + WordBits - 1 \in Int
    BY <1>1, BitSizes
  <2> QED BY <2>1, BitSizes, DivIs
<1>3. need = w.words + q
  BY DEF WordsNeeded
<1> HIDE DEF q, r, need
<1>4. need \in Int /\ w.words * WordBits + w.bits + n <= need * WordBits
  <2>1. need * WordBits = w.words * WordBits + q * WordBits
    BY <1>1, <1>2, <1>3, BitSizes
  <2>2. w.words * WordBits \in Int /\ q * WordBits \in Int
    BY <1>1, <1>2, BitSizes
  <2> QED BY <1>1, <1>2, <1>3, <2>1, <2>2, BitSizes
<1>5. over \in 0 .. WriterIncrement - 1
  <2>1. need - w.capacity \in Int
    BY <1>1, <1>4
  <2> QED BY <2>1, BitSizes, DivIs
<1>6. up = IF over = 0 THEN need ELSE need + WriterIncrement - over
  BY DEF RoundedUp
<1> HIDE DEF over, up
<1>7. up \in Int /\ up >= need
  BY <1>4, <1>5, <1>6, BitSizes
<1>8. x = IF w.capacity >= need THEN w
          ELSE IF up > memory THEN [w EXCEPT !.ok = FALSE]
          ELSE [w EXCEPT !.capacity = up]
  BY DEF Grow, need, up
<1>9. ASSUME NEW c \in Int, c >= need
      PROVE  w.words * WordBits + w.bits + n <= c * WordBits
  <2>1. (c - need) * WordBits >= 0
    BY <1>4, <1>9, BitSizes
  <2>2. (c - need) * WordBits = c * WordBits - need * WordBits
    BY <1>4, BitSizes
  <2>3. c * WordBits \in Int /\ need * WordBits \in Int /\ w.words * WordBits \in Int
    BY <1>1, <1>4, BitSizes
  <2> QED BY <1>1, <1>4, <2>1, <2>2, <2>3
<1> HIDE DEF x
<1>10. CASE w.capacity >= need
  <2>1. x = w
    BY <1>8, <1>10
  <2>2. w.words * WordBits + w.bits + n <= w.capacity * WordBits
    BY <1>1, <1>9, <1>10
  <2> QED BY <2>1, <2>2 DEF x, HasRoom, Place
<1>11. CASE ~ (w.capacity >= need) /\ up > memory
  <2>1. x = [w EXCEPT !.ok = FALSE]
    BY <1>8, <1>11
  <2>2. /\ x \in Writers /\ x.words = w.words /\ x.capacity = w.capacity /\ x.top = w.top
        /\ x.buffer = w.buffer /\ x.accum = w.accum /\ x.bits = w.bits /\ ~x.ok
    BY <1>1, <2>1 DEF Writers
  <2> QED BY <1>1, <2>2 DEF x, Good, Contents
<1>12. CASE ~ (w.capacity >= need) /\ ~ (up > memory)
  <2>1. x = [w EXCEPT !.capacity = up]
    BY <1>8, <1>12
  <2>2. up \in Nat /\ w.capacity <= up
    BY <1>1, <1>4, <1>7, <1>12
  <2>3. /\ x \in Writers /\ x.words = w.words /\ x.capacity = up /\ x.top = w.top
        /\ x.buffer = w.buffer /\ x.accum = w.accum /\ x.bits = w.bits
    BY <1>1, <2>1, <2>2 DEF Writers
  <2>4. x.words <= x.capacity /\ x.top <= x.capacity
    BY <1>1, <2>2, <2>3
  <2>5. x.words * WordBits + x.bits + n <= x.capacity * WordBits
    BY <1>7, <1>9, <2>3
  <2> QED BY <2>3, <2>4, <2>5 DEF x, Good, Contents, HasRoom, Place
<1> QED BY <1>10, <1>11, <1>12 DEF x

\* A word is more than a bit.
LEMMA MoreBits == ASSUME NEW a \in Nat PROVE a * WordBits \in Nat /\ a <= a * WordBits
<1>1. a * (WordBits - 1) >= 0
  BY BitSizes
<1>2. a * (WordBits - 1) = a * WordBits - a
  BY BitSizes
<1> QED BY <1>1, <1>2, BitSizes

\* The check most calls begin with compares a number of words with a number of bits: a
\* buffer with more words free than the value has bits has room for it, ...
LEMMA RoomIs ==
  ASSUME NEW w, Good(w), w.ok, NEW n \in Nat, NEW memory
  PROVE  LET x == Room(w, n, memory)
         IN  /\ Good(x) /\ Contents(x) = Contents(w) /\ x.bits = w.bits
             /\ x.ok => HasRoom(x, n)
<1>1. w.words \in Nat /\ w.bits \in Nat /\ w.capacity \in Nat /\ w.bits < WordBits
  BY GoodIs
<1>2. CASE w.capacity <= w.words + n
  BY <1>2, GrowIs DEF Room
<1>3. CASE ~ (w.capacity <= w.words + n)
  <2>1. Room(w, n, memory) = w
    BY <1>3 DEF Room
  <2>2. (w.capacity - w.words - n - 1) * WordBits >= 0
    BY <1>1, <1>3, BitSizes
  <2>3. (w.capacity - w.words - n - 1) * WordBits =
          w.capacity * WordBits - w.words * WordBits - n * WordBits - WordBits
    BY <1>1, BitSizes
  <2>4. n * WordBits >= n
    BY MoreBits
  <2>5. w.capacity * WordBits \in Int /\ w.words * WordBits \in Int /\ n * WordBits \in Int
    BY <1>1, BitSizes
  <2>6. HasRoom(w, n)
    BY <1>1, <2>2, <2>3, <2>4, <2>5, BitSizes DEF HasRoom, Place
  <2> QED BY <2>1, <2>6
<1> QED BY <1>2, <1>3

\* ... and so has one for a Rice code, whose binary part is less than a word.
LEMMA RiceRoomIs ==
  ASSUME NEW w, Good(w), w.ok, NEW msbs \in Nat, NEW lsbs \in Seq(Bit),
         Len(lsbs) + 1 < WordBits, NEW memory
  PROVE  LET x == RiceRoom(w, msbs, lsbs, memory)
         IN  /\ Good(x) /\ Contents(x) = Contents(w) /\ x.bits = w.bits
             /\ x.ok => HasRoom(x, msbs + 1 + Len(lsbs))
<1>1. /\ w.words \in Nat /\ w.bits \in Nat /\ w.capacity \in Nat /\ w.bits < WordBits
  BY GoodIs
<1>2. PICK n \in Nat : n = msbs + 1 + Len(lsbs)
  OBVIOUS
<1>3. PICK m \in Nat : m = w.bits + msbs + 1
  BY <1>1
<1>4. CASE w.capacity <= w.words + w.bits + msbs + 1
  <2>1. RiceRoom(w, msbs, lsbs, memory) = Grow(w, n, memory)
    BY <1>2, <1>4 DEF RiceRoom
  <2>2. LET x == Grow(w, n, memory)
        IN  /\ Good(x) /\ Contents(x) = Contents(w) /\ x.bits = w.bits
            /\ x.ok => HasRoom(x, n)
    BY GrowIs
  <2> QED BY <1>2, <2>1, <2>2
<1>5. CASE ~ (w.capacity <= w.words + w.bits + msbs + 1)
  <2>1. RiceRoom(w, msbs, lsbs, memory) = w
    BY <1>5 DEF RiceRoom
  <2>2. w.bits + n <= m * WordBits + WordBits
    <3>1. m * WordBits \in Nat /\ m <= m * WordBits
      BY MoreBits
    <3>2. w.bits + n = m + Len(lsbs) /\ Len(lsbs) \in Nat
      BY <1>1, <1>2, <1>3
    <3> QED BY <1>1, <3>1, <3>2, BitSizes
  <2>3. w.capacity - w.words - m - 1 >= 0
    BY <1>1, <1>3, <1>5
  <2>4. (w.capacity - w.words - m - 1) * WordBits >= 0
    BY <1>1, <2>3, BitSizes
  <2>5. (w.capacity - w.words - m - 1) * WordBits =
          w.capacity * WordBits - w.words * WordBits - m * WordBits - WordBits
    BY <1>1, BitSizes
  <2>6. w.capacity * WordBits \in Int /\ w.words * WordBits \in Int /\ m * WordBits \in Int
    BY <1>1, BitSizes
  <2>7. HasRoom(w, n)
    <3> DEFINE c == w.capacity * WordBits
               e == w.words * WordBits
               f == m * WordBits
    <3>1. c - e - f - WordBits >= 0 /\ c \in Int /\ e \in Int /\ f \in Int
          /\ w.bits + n <= f + WordBits
      BY <2>2, <2>4, <2>5, <2>6
    <3>2. HasRoom(w, n) <=> e + w.bits + n <= c
      BY DEF HasRoom, Place
    <3> HIDE DEF c, e, f
    <3> QED BY <1>1, <3>1, <3>2, BitSizes
  <2> QED BY <1>2, <2>1, <2>7
<1> QED BY <1>4, <1>5

-----------------------------------------------------------------------------
(* What is put.                                                            *)

\* x is w with v behind it.
Followed(w, x, v) ==
  /\ Good(x) /\ x.ok = w.ok /\ x.capacity = w.capacity
  /\ Contents(x) = Contents(w) \o v
  /\ Place(x) = Place(w) + Len(v)

\* w with a word of v at its end stored, and the n last bits of accum in the accumulator.
WithWord(w, v, accum, n) ==
  [Store(w, ShiftIn(w.accum, v)) EXCEPT !.accum = accum, !.bits = n]

\* A full word is stored, and some of the value is left.
LEMMA Stored ==
  ASSUME NEW w, Good(w), NEW v \in Seq(Bit), Len(v) = WordBits - w.bits,
         w.words + 1 <= w.capacity, NEW accum \in Word, NEW n \in 0 .. WordBits - 1
  PROVE  LET x == WithWord(w, v, accum, n)
         IN  /\ Good(x) /\ x.ok = w.ok /\ x.capacity = w.capacity
             /\ x.bits = n /\ x.words = w.words + 1
             /\ Contents(x) = (Contents(w) \o v) \o Low(accum, n)
<1> DEFINE word == ShiftIn(w.accum, v)
           x == WithWord(w, v, accum, n)
           low == Low(w.accum, w.bits)
           rest == Low(accum, n)
<1>1. /\ w \in Writers /\ w.buffer \in Seq(Bit) /\ w.accum \in Word /\ w.words \in Nat
      /\ w.bits \in 0 .. WordBits /\ w.bits \in Nat /\ w.bits < WordBits /\ w.capacity \in Nat
      /\ w.top \in Nat /\ low \in Seq(Bit)
  BY GoodIs
<1>2. word \in Word /\ Low(word, w.bits + Len(v)) = low \o v
  <2>1. w.bits + Len(v) <= WordBits /\ Len(v) <= WordBits
    BY <1>1, BitSizes
  <2> QED BY <1>1, <2>1, ShiftInIs, Zenon
<1>3. word \in Seq(Bit) /\ word = low \o v
  <2>1. w.bits + Len(v) = WordBits
    BY <1>1, BitSizes
  <2> HIDE DEF word, low
  <2> QED BY <1>2, <2>1, LowAll, WordIs
<1>4. rest \in Seq(Bit)
  <2>1. n \in 0 .. WordBits
    BY BitSizes
  <2> QED BY <2>1, LowIs
<1> HIDE DEF word, low
<1>5. w.buffer \o word \in Seq(Bit)
  BY <1>1, <1>3, ConcatProperties
<1>6. /\ x \in Writers /\ x.buffer = w.buffer \o word /\ x.words = w.words + 1
      /\ x.top = w.words + 1 /\ x.capacity = w.capacity /\ x.ok = w.ok
      /\ x.accum = accum /\ x.bits = n
  <2> DEFINE y == Store(w, word)
  <2>1. w.words + 1 \in Nat
    BY <1>1
  <2>2. /\ y \in Writers /\ y.buffer = w.buffer \o word /\ y.words = w.words + 1
        /\ y.top = w.words + 1 /\ y.capacity = w.capacity /\ y.ok = w.ok
    BY <1>1, <1>5, <2>1 DEF Writers, Store
  <2> HIDE DEF y
  <2>3. x = [y EXCEPT !.accum = accum, !.bits = n]
    BY DEF y, word, WithWord
  <2> HIDE DEF x
  <2> QED BY <2>2, <2>3 DEF Writers
<1> HIDE DEF x, rest
<1>7. Good(x)
  <2>1. Len(word) = WordBits
    BY <1>2, WordIs
  <2>2. Len(w.buffer) = w.words * WordBits
    BY DEF Good
  <2>3. Len(w.buffer \o word) = Len(w.buffer) + Len(word)
    BY <1>1, <1>3, ConcatProperties
  <2>4. (w.words + 1) * WordBits = w.words * WordBits + WordBits
    BY <1>1, BitSizes
  <2> QED BY <1>1, <1>6, <2>1, <2>2, <2>3, <2>4 DEF Good
<1>8. w.buffer \o word = Contents(w) \o v
  <2>1. w.buffer \in Seq(Bit) /\ low \in Seq(Bit)
    BY <1>1
  <2>2. (w.buffer \o low) \o v = w.buffer \o (low \o v)
    BY <2>1, Assoc
  <2> QED BY <1>3, <2>2 DEF Contents, low
<1>9. Contents(x) = (Contents(w) \o v) \o rest
  BY <1>6, <1>8 DEF Contents, rest
<1> QED BY <1>6, <1>7, <1>9 DEF x, rest

\* The value stays in the accumulator.
LEMMA Shifted ==
  ASSUME NEW w, Good(w), NEW v \in Seq(Bit), w.bits + Len(v) < WordBits
  PROVE  LET x == [w EXCEPT !.accum = ShiftIn(w.accum, v), !.bits = w.bits + Len(v)]
         IN  Followed(w, x, v)
<1> DEFINE word == ShiftIn(w.accum, v)
           x == [w EXCEPT !.accum = word, !.bits = w.bits + Len(v)]
           low == Low(w.accum, w.bits)
<1>1. /\ w \in Writers /\ w.buffer \in Seq(Bit) /\ w.accum \in Word /\ w.words \in Nat
      /\ w.bits \in 0 .. WordBits /\ w.bits \in Nat /\ low \in Seq(Bit)
      /\ w.words <= w.capacity /\ w.top <= w.capacity /\ w.words * WordBits \in Nat
  BY GoodIs, BitSizes
<1>2. word \in Word /\ Low(word, w.bits + Len(v)) = low \o v
  <2>1. w.bits + Len(v) <= WordBits /\ Len(v) <= WordBits
    BY <1>1, BitSizes
  <2> QED BY <1>1, <2>1, ShiftInIs, Zenon
<1> HIDE DEF word
<1>3. w.bits + Len(v) \in 0 .. WordBits - 1
  BY <1>1, BitSizes
<1>4. /\ x \in Writers /\ x.buffer = w.buffer /\ x.words = w.words
      /\ x.top = w.top /\ x.capacity = w.capacity /\ x.ok = w.ok
      /\ x.accum = word /\ x.bits = w.bits + Len(v)
  BY <1>1, <1>2, <1>3 DEF Writers
<1> HIDE DEF x
<1>5. Contents(x) = Contents(w) \o v
  <2>1. w.buffer \in Seq(Bit) /\ low \in Seq(Bit)
    BY <1>1
  <2>2. (w.buffer \o low) \o v = w.buffer \o (low \o v)
    BY <2>1, Assoc
  <2> QED BY <1>2, <1>4, <2>2 DEF Contents, low
<1>6. Place(x) = Place(w) + Len(v)
  BY <1>1, <1>4 DEF Place
<1>7. Good(x)
  BY <1>1, <1>4 DEF Good
<1> QED BY <1>4, <1>5, <1>6, <1>7 DEF Followed, x, word

\* A value of at most a word.
LEMMA PutIs ==
  ASSUME NEW w, Good(w), NEW v \in Seq(Bit), Len(v) <= WordBits, HasRoom(w, Len(v))
  PROVE  Followed(w, Put(w, v), v)
<1> DEFINE left == WordBits - w.bits
<1>1. /\ w.bits \in Nat /\ w.bits < WordBits /\ w.words \in Nat /\ w.accum \in Word
      /\ Len(v) \in Nat /\ Contents(w) \in Seq(Bit) /\ left \in Nat /\ left > 0
  BY GoodIs, BitSizes
<1>2. CASE Len(v) < left
  <2>1. Put(w, v) = [w EXCEPT !.accum = ShiftIn(w.accum, v), !.bits = w.bits + Len(v)]
    BY <1>2 DEF Put
  <2>2. w.bits + Len(v) < WordBits
    BY <1>1, <1>2, BitSizes
  <2> QED BY <2>1, <2>2, Shifted
<1>3. CASE ~ (Len(v) < left)
  <2> DEFINE a == SubSeq(v, 1, left)
             b == SubSeq(v, left + 1, Len(v))
             n == Len(v) - left
             accum == ShiftIn(NoBits(WordBits), v)
             x == WithWord(w, a, accum, n)
  <2>1. Put(w, v) = x
    BY <1>3 DEF Put, WithWord
  <2>2. left \in 0 .. Len(v) /\ n \in 0 .. WordBits - 1 /\ n + 1 <= Len(v) + 1
        /\ n = w.bits + Len(v) - WordBits /\ w.bits + Len(v) >= WordBits
    BY <1>1, <1>3, BitSizes
  <2>3. a \in Seq(Bit) /\ Len(a) = left /\ b \in Seq(Bit) /\ Len(b) = n /\ a \o b = v
    BY <2>2, Parts
  <2>4. accum \in Word /\ Low(accum, n) = b
    <3>1. NoBits(WordBits) \in Word
      <4>1. NoBits(WordBits) \in Seq(Bit) /\ Len(NoBits(WordBits)) = WordBits
        BY BitSizes, ZerosAre
      <4> QED BY <4>1, WordIs
    <3>2. /\ accum \in Word
          /\ \A m \in 0 .. WordBits : m + Len(v) <= WordBits =>
               Low(accum, m + Len(v)) = Low(NoBits(WordBits), m) \o v
      BY <3>1, ShiftInIs
    <3>3. 0 \in 0 .. WordBits /\ 0 + Len(v) = Len(v)
      BY <1>1, BitSizes
    <3> HIDE DEF accum
    <3>4. Low(accum, Len(v)) = <<>> \o v
      BY <3>1, <3>2, <3>3, LowNone
    <3>5. Low(accum, Len(v)) = v
      BY <3>4, ConcatEmptySeq
    <3>6. Low(accum, n) = b
      <4>1. /\ Len(v) \in 0 .. WordBits /\ n \in 0 .. WordBits
        BY <1>1, <2>2, BitSizes
      <4>2. \A i \in 1 .. Len(v) : v[i] = accum[WordBits - Len(v) + i]
        BY <3>2, <3>5, <4>1, LowIs
      <4>3. /\ Low(accum, n) \in Seq(Bit) /\ Len(Low(accum, n)) = n
            /\ \A i \in 1 .. n : Low(accum, n)[i] = accum[WordBits - n + i]
        BY <3>2, <4>1, LowIs
      <4>4. \A i \in 1 .. n : b[i] = v[left + i]
        <5>1. left + 1 \in Int /\ Len(v) \in Int /\ Len(v) - (left + 1) + 1 = n
          <6>1. n = Len(v) - left /\ left \in Nat /\ Len(v) \in Nat
            BY <1>1, <2>2
          <6> HIDE DEF n, left
          <6> QED BY <6>1
        <5>2. \A i \in left + 1 .. Len(v) : v[i] \in Bit
          <6>1. \A i \in left + 1 .. Len(v) : i \in 1 .. Len(v)
            BY <1>1, <2>2
          <6> QED BY <6>1, ElementOfSeq
        <5>3. \A i \in 1 .. Len(v) - (left + 1) + 1 : b[i] = v[left + 1 + i - 1]
          BY <5>1, <5>2, SubSeqProperties
        <5>4. \A i \in 1 .. n : left + 1 + i - 1 = left + i
          BY <1>1, <2>2
        <5> HIDE DEF b, n, left
        <5> QED BY <5>1, <5>3, <5>4
      <4>5. ASSUME NEW i \in 1 .. n PROVE Low(accum, n)[i] = b[i]
        <5>1. left + i \in 1 .. Len(v) /\ WordBits - Len(v) + (left + i) = WordBits - n + i
          <6>1. n = Len(v) - left /\ n \in Int /\ left \in Nat /\ Len(v) \in Nat
            BY <1>1, <2>2
          <6> HIDE DEF n, left
          <6> QED BY <6>1, BitSizes
        <5> HIDE DEF b, n, left
        <5> QED BY <4>2, <4>3, <4>4, <5>1
      <4> HIDE DEF b, n
      <4>6. \A i \in 1 .. Len(Low(accum, n)) : Low(accum, n)[i] = b[i]
        BY <4>3, <4>5
      <4> QED BY <2>3, <4>3, <4>6, SeqEqual
    <3> QED BY <3>2, <3>6
  <2>5. w.words + 1 <= w.capacity
    BY <1>1, <2>2, RoomForWord
  <2> HIDE DEF a, b, accum
  <2>6. /\ Good(x) /\ x.ok = w.ok /\ x.capacity = w.capacity
        /\ x.bits = n /\ x.words = w.words + 1
        /\ Contents(x) = (Contents(w) \o a) \o Low(accum, n)
    <3>1. /\ n \in 0 .. WordBits - 1 /\ Len(a) = WordBits - w.bits /\ a \in Seq(Bit)
          /\ accum \in Word /\ w.words + 1 <= w.capacity
      BY <2>2, <2>3, <2>4, <2>5
    <3> HIDE DEF n, left
    <3> QED BY <3>1, Stored
  <2> HIDE DEF x
  <2>7. Contents(x) = Contents(w) \o v
    <3>1. Contents(w) \in Seq(Bit) /\ a \in Seq(Bit) /\ b \in Seq(Bit)
      BY <1>1, <2>3
    <3>2. (Contents(w) \o a) \o b = Contents(w) \o (a \o b)
      BY <3>1, Assoc
    <3> QED BY <2>3, <2>4, <2>6, <3>2
  <2>8. Place(x) = Place(w) + Len(v)
    <3>1. (w.words + 1) * WordBits = w.words * WordBits + WordBits /\ w.words * WordBits \in Nat
      BY <1>1, BitSizes
    <3>2. Place(x) = (w.words + 1) * WordBits + n /\ Place(w) = w.words * WordBits + w.bits
      BY <2>6 DEF Place
    <3>3. n = w.bits + Len(v) - WordBits /\ n \in Int
      BY <2>2
    <3> HIDE DEF n, left
    <3> QED BY <1>1, <3>1, <3>2, <3>3, BitSizes
  <2> QED BY <2>1, <2>6, <2>7, <2>8 DEF Followed
<1> QED BY <1>2, <1>3

\* No zeros are nothing, ...
LEMMA NoZeros == NoBits(0) = <<>>
<1>1. NoBits(0) \in Seq(Bit) /\ Len(NoBits(0)) = 0
  BY ZerosAre
<1> QED BY <1>1

\* ... and the low bits of zeros are zeros.
LEMMA LowZeros ==
  ASSUME NEW n \in 0 .. WordBits
  PROVE  NoBits(WordBits) \in Word /\ Low(NoBits(WordBits), n) = NoBits(n)
<1> DEFINE z == NoBits(WordBits)
           x == Low(z, n)
           y == NoBits(n)
<1>1. z \in Seq(Bit) /\ Len(z) = WordBits /\ \A i \in 1 .. WordBits : z[i] = 0
  BY BitSizes, ZerosAre
<1>2. n \in Nat /\ n <= WordBits /\ WordBits \in Nat
  BY BitSizes
<1>3. y \in Seq(Bit) /\ Len(y) = n /\ \A i \in 1 .. n : y[i] = 0
  BY <1>2, ZerosAre
<1>4. z \in Word
  BY <1>1, WordIs
<1> HIDE DEF y, z
<1>5. x \in Seq(Bit) /\ Len(x) = n /\ \A i \in 1 .. n : x[i] = z[WordBits - n + i]
  BY <1>4, LowIs
<1> HIDE DEF x
<1>6. \A i \in 1 .. n : WordBits - n + i \in 1 .. WordBits
  BY <1>2
<1>7. Len(x) = Len(y) /\ \A i \in 1 .. Len(x) : x[i] = y[i]
  BY <1>1, <1>3, <1>5, <1>6
<1>8. x = y
  BY <1>3, <1>5, <1>7, SeqEqual
<1> QED BY <1>4, <1>8 DEF x, y, z

\* One value behind another.
LEMMA FollowedBoth ==
  ASSUME NEW w, Good(w), NEW y, NEW x, NEW a \in Seq(Bit), NEW b \in Seq(Bit),
         Followed(w, y, a), Followed(y, x, b)
  PROVE  Followed(w, x, a \o b)
<1>1. /\ Good(x) /\ x.ok = w.ok /\ x.capacity = w.capacity
      /\ Contents(y) = Contents(w) \o a /\ Contents(x) = Contents(y) \o b
      /\ Place(y) = Place(w) + Len(a) /\ Place(x) = Place(y) + Len(b)
  BY DEF Followed
<1>2. Contents(w) \in Seq(Bit) /\ Place(w) \in Nat
  BY GoodIs
<1>3. (Contents(w) \o a) \o b = Contents(w) \o (a \o b)
  BY <1>2, Assoc
<1>4. Len(a \o b) = Len(a) + Len(b) /\ Len(a) \in Nat /\ Len(b) \in Nat
  BY ConcatProperties
<1>5. Place(x) = Place(w) + Len(a \o b)
  BY <1>1, <1>2, <1>4
<1> QED BY <1>1, <1>3, <1>5 DEF Followed

\* Zeros that fit the accumulator.
LEMMA FillAccumIs ==
  ASSUME NEW w, Good(w), NEW n \in Nat, w.bits + n <= WordBits, HasRoom(w, n)
  PROVE  /\ Followed(w, FillAccum(w, n), NoBits(n))
         /\ w.bits + n = WordBits => FillAccum(w, n).bits = 0
<1> DEFINE v == NoBits(n)
           accum == ShiftIn(w.accum, v)
<1>1. /\ w.bits \in Nat /\ w.words \in Nat /\ w.accum \in Word /\ Contents(w) \in Seq(Bit)
      /\ WordBits \in Nat \ {0}
  BY GoodIs, BitSizes
<1>2. v \in Seq(Bit) /\ Len(v) = n
  BY ZerosAre
<1> HIDE DEF v
<1>3. CASE w.bits + n < WordBits
  <2>1. FillAccum(w, n) = [w EXCEPT !.accum = ShiftIn(w.accum, v), !.bits = w.bits + Len(v)]
    BY <1>2, <1>3 DEF FillAccum, v
  <2>2. Followed(w, FillAccum(w, n), v)
    BY <1>2, <1>3, <2>1, Shifted
  <2> QED BY <1>1, <1>3, <2>2 DEF v
<1>4. CASE ~ (w.bits + n < WordBits)
  <2> DEFINE x == WithWord(w, v, accum, 0)
  <2>1. FillAccum(w, n) = x
    BY <1>4 DEF FillAccum, WithWord, v
  <2>2. w.bits + n = WordBits /\ Len(v) = WordBits - w.bits /\ Len(v) <= WordBits
    BY <1>1, <1>2, <1>4
  <2>3. w.words + 1 <= w.capacity
    BY <1>1, <2>2, RoomForWord
  <2>4. accum \in Word /\ 0 \in 0 .. WordBits - 1
    BY <1>1, <1>2, <2>2, ShiftInIs
  <2> HIDE DEF accum
  <2>5. /\ Good(x) /\ x.ok = w.ok /\ x.capacity = w.capacity
        /\ x.bits = 0 /\ x.words = w.words + 1
        /\ Contents(x) = (Contents(w) \o v) \o Low(accum, 0)
    BY <1>2, <2>2, <2>3, <2>4, Stored
  <2> HIDE DEF x
  <2>6. Contents(x) = Contents(w) \o v
    <3>1. Contents(w) \o v \in Seq(Bit)
      BY <1>1, <1>2, ConcatProperties
    <3>2. (Contents(w) \o v) \o <<>> = Contents(w) \o v
      BY <3>1, ConcatEmptySeq
    <3>3. Low(accum, 0) = <<>>
      BY <2>4, LowNone
    <3> QED BY <2>5, <3>2, <3>3
  <2>7. Place(x) = Place(w) + Len(v)
    <3>1. (w.words + 1) * WordBits = w.words * WordBits + WordBits /\ w.words * WordBits \in Nat
      BY <1>1
    <3>2. Place(x) = (w.words + 1) * WordBits + 0 /\ Place(w) = w.words * WordBits + w.bits
      BY <2>5 DEF Place
    <3> QED BY <1>1, <1>2, <2>2, <3>1, <3>2
  <2> QED BY <2>1, <2>5, <2>6, <2>7 DEF Followed, v
<1> QED BY <1>3, <1>4

\* Zeros on an empty accumulator.
LEMMA ZeroWordsIs ==
  ASSUME NEW w, Good(w), w.bits = 0, NEW n \in Nat, HasRoom(w, n)
  PROVE  Followed(w, ZeroWords(w, n), NoBits(n))
<1> DEFINE q == n \div WordBits
           r == n % WordBits
           m == q * WordBits
           s == StoreZeros(w, q)
           x == ZeroWords(w, n)
<1>1. /\ w \in Writers /\ w.buffer \in Seq(Bit) /\ w.accum \in Word /\ w.words \in Nat
      /\ w.capacity \in Nat /\ w.top \in Nat /\ w.words <= w.capacity /\ w.top <= w.capacity
      /\ WordBits \in Nat \ {0}
  BY GoodIs, BitSizes
<1>2. q \in Int /\ r \in 0 .. WordBits - 1 /\ n = m + r
  BY <1>1, DivIs
<1>3. x = IF r = 0 THEN s ELSE [s EXCEPT !.accum = NoBits(WordBits), !.bits = r]
  BY DEF ZeroWords
<1>4. s = IF q = 0 THEN w
          ELSE [w EXCEPT !.buffer = @ \o NoBits(m), !.words = @ + q, !.top = w.words + q]
  BY DEF StoreZeros
<1> HIDE DEF q, r, s, x
<1>5. q \in Nat
  <2>1. SUFFICES ASSUME q <= -1 PROVE FALSE
    BY <1>2
  <2>2. (-1 - q) * WordBits >= 0 /\ (-1 - q) * WordBits = -WordBits - q * WordBits
    BY <1>1, <1>2, <2>1
  <2>3. q * WordBits \in Int
    BY <1>1, <1>2
  <2> QED BY <1>1, <1>2, <2>2, <2>3
<1>6. m \in Nat /\ w.words + q <= w.capacity
  <2>1. m \in Nat
    BY <1>1, <1>5
  <2>2. (w.words + q) * WordBits = w.words * WordBits + m
    BY <1>1, <1>5
  <2>3. w.words * WordBits \in Nat /\ w.capacity * WordBits \in Nat
    BY <1>1
  <2>4. w.words * WordBits + 0 + n <= w.capacity * WordBits
    BY DEF HasRoom, Place
  <2> HIDE DEF m
  <2>5. (w.words + q) * WordBits <= w.capacity * WordBits
    BY <1>2, <2>1, <2>2, <2>3, <2>4
  <2>6. w.words + q \in Int /\ w.capacity \in Int
    BY <1>1, <1>5
  <2> QED BY <2>1, <2>5, <2>6, WordsAndBits
<1>7. NoBits(m) \in Seq(Bit)
  BY <1>6, ZerosAre
<1>8. w.buffer \o NoBits(m) \in Seq(Bit)
  BY <1>1, <1>7, ConcatProperties
<1>9. /\ s \in Writers /\ s.buffer = w.buffer \o NoBits(m) /\ s.words = w.words + q
      /\ s.top <= s.capacity /\ s.words <= s.capacity /\ s.capacity = w.capacity /\ s.ok = w.ok
      /\ s.bits = 0 /\ s.accum \in Word
  <2>1. CASE q = 0
    <3>1. s = w /\ m = 0
      BY <1>1, <1>4, <2>1
    <3>2. w.buffer \o NoBits(m) = w.buffer
      BY <1>1, <3>1, NoZeros, ConcatEmptySeq
    <3>3. w.words + q = w.words
      BY <1>1, <2>1
    <3> HIDE DEF m
    <3> QED BY <1>1, <3>1, <3>2, <3>3
  <2>2. CASE q # 0
    <3> DEFINE buffer == w.buffer \o NoBits(m)
               words == w.words + q
    <3>1. s = [w EXCEPT !.buffer = buffer, !.words = words, !.top = words]
      BY <1>4, <2>2
    <3>2. buffer \in Seq(Bit) /\ words \in Nat /\ words <= w.capacity
      BY <1>1, <1>5, <1>6, <1>8
    <3> HIDE DEF buffer, words
    <3>3. /\ s \in Writers /\ s.buffer = buffer /\ s.words = words /\ s.top = words
          /\ s.capacity = w.capacity /\ s.ok = w.ok /\ s.bits = w.bits /\ s.accum = w.accum
      BY <1>1, <3>1, <3>2 DEF Writers
    <3> QED BY <1>1, <3>2, <3>3 DEF buffer, words
  <2> QED BY <2>1, <2>2
<1> HIDE DEF m
<1>10. r \in 0 .. WordBits
  BY <1>1, <1>2
<1>11. /\ x \in Writers /\ x.buffer = s.buffer /\ x.words = s.words /\ x.top = s.top
       /\ x.capacity = s.capacity /\ x.ok = s.ok /\ x.bits = r
       /\ Low(x.accum, x.bits) = NoBits(r)
  <2>1. CASE r = 0
    <3>1. x = s
      BY <1>3, <2>1
    <3>2. Low(s.accum, 0) = NoBits(0)
      BY <1>9, LowNone, NoZeros
    <3> QED BY <1>9, <2>1, <3>1, <3>2
  <2>2. CASE r # 0
    <3> DEFINE z == NoBits(WordBits)
    <3>1. z \in Word /\ Low(z, r) = NoBits(r)
      BY <1>10, LowZeros
    <3>2. x = [s EXCEPT !.accum = z, !.bits = r]
      BY <1>3, <2>2
    <3> HIDE DEF z
    <3>3. /\ x \in Writers /\ x.buffer = s.buffer /\ x.words = s.words /\ x.top = s.top
          /\ x.capacity = s.capacity /\ x.ok = s.ok /\ x.bits = r /\ x.accum = z
      BY <1>2, <1>9, <3>1, <3>2 DEF Writers
    <3> QED BY <3>1, <3>3
  <2> QED BY <2>1, <2>2
<1>12. Good(x)
  <2> DEFINE z == NoBits(m)
  <2>1. z \in Seq(Bit) /\ Len(z) = m
    BY <1>6, ZerosAre
  <2>2. Len(w.buffer) = w.words * WordBits
    BY DEF Good
  <2> HIDE DEF z
  <2>3. Len(w.buffer \o z) = Len(w.buffer) + Len(z)
    BY <1>1, <2>1, ConcatProperties
  <2>4. (w.words + q) * WordBits = w.words * WordBits + m
    BY <1>1, <1>5 DEF m
  <2> QED BY <1>9, <1>11, <2>1, <2>2, <2>3, <2>4 DEF Good, z
<1>13. Contents(x) = Contents(w) \o NoBits(n)
  <2>1. Contents(w) = w.buffer
    <3>1. Low(w.accum, w.bits) = <<>>
      BY <1>1, LowNone
    <3> QED BY <1>1, <3>1, ConcatEmptySeq DEF Contents
  <2>2. r \in Nat /\ NoBits(r) \in Seq(Bit)
    BY <1>10, BitSizes, ZerosAre
  <2>3. (w.buffer \o NoBits(m)) \o NoBits(r) = w.buffer \o (NoBits(m) \o NoBits(r))
    BY <1>1, <1>7, <2>2, Assoc
  <2>4. NoBits(m) \o NoBits(r) = NoBits(n)
    BY <1>2, <1>6, <2>2, ZerosAdd
  <2> QED BY <1>9, <1>11, <2>1, <2>3, <2>4 DEF Contents
<1>14. Place(x) = Place(w) + Len(NoBits(n))
  <2>1. Len(NoBits(n)) = n
    BY ZerosAre
  <2>2. Place(x) = (w.words + q) * WordBits + r /\ Place(w) = w.words * WordBits + 0
    BY <1>9, <1>11 DEF Place
  <2>3. (w.words + q) * WordBits = w.words * WordBits + q * WordBits /\ q * WordBits = m
    BY <1>1, <1>5 DEF m
  <2>4. w.words * WordBits \in Nat
    BY <1>1
  <2> QED BY <1>2, <1>6, <1>10, <2>1, <2>2, <2>3, <2>4
<1> QED BY <1>9, <1>11, <1>12, <1>13, <1>14 DEF Followed, x

\* Any zeros.
LEMMA PutZerosIs ==
  ASSUME NEW w, Good(w), NEW n \in Nat, HasRoom(w, n)
  PROVE  Followed(w, PutZeros(w, n), NoBits(n))
<1>1. w.bits \in Nat /\ w.bits < WordBits /\ Contents(w) \in Seq(Bit) /\ Place(w) \in Nat
      /\ w.capacity \in Nat /\ WordBits \in Nat \ {0}
  BY GoodIs, BitSizes
<1>2. PICK left \in Nat \ {0} : left = WordBits - w.bits
  BY <1>1
<1>3. CASE w.bits = 0
  <2>1. PutZeros(w, n) = ZeroWords(w, n)
    BY <1>3 DEF PutZeros
  <2> QED BY <1>3, <2>1, ZeroWordsIs
<1>4. CASE w.bits # 0 /\ n < left
  <2>1. PutZeros(w, n) = FillAccum(w, n) /\ w.bits + n <= WordBits
    BY <1>1, <1>2, <1>4 DEF PutZeros
  <2> QED BY <2>1, FillAccumIs
<1>5. CASE w.bits # 0 /\ ~ (n < left)
  <2>1. PICK k \in Nat : k = n - left
    BY <1>5
  <2>2. PutZeros(w, n) = ZeroWords(FillAccum(w, left), k)
    BY <1>2, <1>5, <2>1 DEF PutZeros
  <2> DEFINE y == FillAccum(w, left)
             x == ZeroWords(y, k)
             a == NoBits(left)
             b == NoBits(k)
  <2>3. w.bits + left = WordBits /\ left <= n
    BY <1>1, <1>2, <1>5
  <2>4. w.capacity * WordBits \in Nat
    BY <1>1
  <2>5. HasRoom(w, left)
    BY <1>1, <2>3, <2>4 DEF HasRoom
  <2>6. Followed(w, y, a) /\ y.bits = 0
    BY <1>1, <2>3, <2>5, FillAccumIs
  <2>7. /\ a \in Seq(Bit) /\ Len(a) = left /\ b \in Seq(Bit) /\ Len(b) = k
    BY ZerosAre
  <2> HIDE DEF y
  <2>8. HasRoom(y, k)
    <3>1. Place(w) + n <= w.capacity * WordBits
      BY DEF HasRoom
    <3>2. Place(y) = Place(w) + left /\ y.capacity = w.capacity
      BY <2>6, <2>7 DEF Followed
    <3>3. Place(w) + left + k = Place(w) + n
      BY <1>1, <2>1
    <3> QED BY <3>1, <3>2, <3>3 DEF HasRoom
  <2>9. Followed(y, x, b)
    BY <2>6, <2>8, ZeroWordsIs DEF Followed
  <2> HIDE DEF x, a, b
  <2>10. Followed(w, x, a \o b)
    BY <2>6, <2>7, <2>9, FollowedBoth
  <2>11. a \o b = NoBits(n)
    <3>1. left + k = n /\ left \in Nat
      BY <1>1, <2>1
    <3> QED BY <3>1, ZerosAdd DEF a, b
  <2> QED BY <2>2, <2>10, <2>11 DEF x, y
<1> QED BY <1>3, <1>4, <1>5

-----------------------------------------------------------------------------
(* What is written.                                                        *)

\* x is what a call leaves that was to write code: all of it behind what there was, or a
\* beginning if it returns false.
Wrote(w, x, code) ==
  /\ Good(x)
  /\ \E k \in 0 .. Len(code) :
       /\ Contents(x) = Contents(w) \o SubSeq(code, 1, k)
       /\ x.ok => k = Len(code)

\* All of it, ...
LEMMA WroteAll ==
  ASSUME NEW w, NEW x, NEW code \in Seq(Bit), Good(x), Contents(x) = Contents(w) \o code
  PROVE  Wrote(w, x, code)
<1>1. SubSeq(code, 1, Len(code)) = code /\ Len(code) \in 0 .. Len(code)
  BY SubSeqFull
<1> QED BY <1>1 DEF Wrote

\* ... none of it, ...
LEMMA WroteNone ==
  ASSUME NEW w, Good(w), NEW x, NEW code \in Seq(Bit), Good(x), Contents(x) = Contents(w), ~x.ok
  PROVE  Wrote(w, x, code)
<1>1. 0 \in 0 .. Len(code) /\ SubSeq(code, 1, 0) = <<>>
  BY SubSeqEmpty
<1>2. Contents(w) \o <<>> = Contents(w)
  BY GoodIs, ConcatEmptySeq
<1> QED BY <1>1, <1>2 DEF Wrote

\* ... or one value, or a beginning of it, and then the next if all of it is.
LEMMA WroteBoth ==
  ASSUME NEW w, Good(w), NEW y, NEW x, NEW a \in Seq(Bit), NEW b \in Seq(Bit),
         Wrote(w, y, a), IF y.ok THEN Wrote(y, x, b) ELSE x = y
  PROVE  Wrote(w, x, a \o b)
<1>1. /\ a \o b \in Seq(Bit) /\ Len(a \o b) = Len(a) + Len(b)
      /\ \A i \in 1 .. Len(a) + Len(b) : (a \o b)[i] = IF i <= Len(a) THEN a[i] ELSE b[i - Len(a)]
  BY ConcatProperties
<1>2. PICK k \in 0 .. Len(a) : Contents(y) = Contents(w) \o SubSeq(a, 1, k) /\ (y.ok => k = Len(a))
  BY DEF Wrote
<1>3. Len(a) \in Nat /\ Len(b) \in Nat /\ Contents(w) \in Seq(Bit)
  BY GoodIs
<1>4. CASE ~y.ok
  <2>1. k \in 0 .. Len(a \o b)
    BY <1>1, <1>3
  <2>2. SubSeq(a \o b, 1, k) = SubSeq(a, 1, k)
    <3>1. \A i \in 1 .. k : (a \o b)[i] = a[i]
      <4> TAKE i \in 1 .. k
      <4>1. i \in 1 .. Len(a) + Len(b) /\ i <= Len(a)
        BY <1>3
      <4> QED BY <1>1, <4>1
    <3> QED BY <3>1
  <2> QED BY <1>2, <1>4, <2>1, <2>2 DEF Wrote
<1>5. CASE y.ok
  <2>1. PICK m \in 0 .. Len(b) : Contents(x) = Contents(y) \o SubSeq(b, 1, m) /\ (x.ok => m = Len(b))
    BY <1>5 DEF Wrote
  <2> DEFINE c == SubSeq(b, 1, m)
             d == SubSeq(a \o b, 1, Len(a) + m)
  <2>2. c \in Seq(Bit) /\ Len(c) = m /\ m \in Nat /\ Len(a) + m \in 0 .. Len(a \o b)
    BY <1>1, <1>3, Parts
  <2>3. d \in Seq(Bit) /\ Len(d) = Len(a) + m
    BY <1>1, <2>2, Parts
  <2>4. d = a \o c
    <3>1. /\ a \o c \in Seq(Bit) /\ Len(a \o c) = Len(a) + Len(c)
          /\ \A i \in 1 .. Len(a) + Len(c) : (a \o c)[i] = IF i <= Len(a) THEN a[i] ELSE c[i - Len(a)]
      <4> HIDE DEF c
      <4> QED BY <2>2, ConcatProperties
    <3>2. ASSUME NEW i \in 1 .. Len(a) + m PROVE d[i] = (a \o c)[i]
      <4>1. d[i] = (a \o b)[i] /\ i \in 1 .. Len(a) + Len(b)
        BY <1>1, <1>3, <2>2
      <4>2. CASE i <= Len(a)
        <5> HIDE DEF c, d
        <5> QED BY <1>1, <2>2, <3>1, <4>1, <4>2
      <4>3. CASE ~ (i <= Len(a))
        <5>1. i - Len(a) \in 1 .. m
          BY <1>3, <2>2, <4>3
        <5>2. c[i - Len(a)] = b[i - Len(a)]
          BY <5>1
        <5> HIDE DEF c, d
        <5> QED BY <1>1, <2>2, <3>1, <4>1, <4>3, <5>2
      <4> QED BY <4>2, <4>3
    <3> HIDE DEF c, d
    <3>3. Len(d) = Len(a \o c) /\ \A i \in 1 .. Len(d) : d[i] = (a \o c)[i]
      BY <2>2, <2>3, <3>1, <3>2
    <3> QED BY <2>3, <3>1, <3>3, SeqEqual
  <2>5. SubSeq(a, 1, k) = a
    BY <1>2, <1>5, SubSeqFull
  <2> HIDE DEF c
  <2>6. (Contents(w) \o a) \o c = Contents(w) \o (a \o c)
    BY <1>3, <2>2, Assoc
  <2>7. Contents(x) = Contents(w) \o d
    BY <1>2, <2>1, <2>4, <2>5, <2>6 DEF c
  <2>8. Good(x) /\ (x.ok => Len(a) + m = Len(a \o b))
    BY <1>1, <1>5, <2>1 DEF Wrote
  <2> QED BY <2>2, <2>7, <2>8 DEF Wrote
<1> QED BY <1>4, <1>5

-----------------------------------------------------------------------------
(* The calls.                                                              *)

\* FLAC__bitwriter_write_zeroes
LEMMA WriteZerosIs ==
  ASSUME NEW w, Good(w), w.ok, NEW n \in Nat, NEW memory
  PROVE  Wrote(w, WriteZeros(w, n, memory), NoBits(n))
<1>1. NoBits(n) \in Seq(Bit)
  BY ZerosAre
<1>2. CASE n = 0
  <2>1. WriteZeros(w, n, memory) = w
    BY <1>2 DEF WriteZeros
  <2>2. Contents(w) \o NoBits(n) = Contents(w)
    BY <1>2, NoZeros, GoodIs, ConcatEmptySeq
  <2> QED BY <1>1, <2>1, <2>2, WroteAll
<1>3. CASE n # 0
  <2> DEFINE r == Room(w, n, memory)
  <2>1. Good(r) /\ Contents(r) = Contents(w) /\ (r.ok => HasRoom(r, n))
    BY RoomIs
  <2>2. WriteZeros(w, n, memory) = IF r.ok THEN PutZeros(r, n) ELSE r
    BY <1>3 DEF WriteZeros
  <2> HIDE DEF r
  <2>3. CASE r.ok
    <3>1. Followed(r, PutZeros(r, n), NoBits(n))
      BY <2>1, <2>3, PutZerosIs
    <3> QED BY <1>1, <2>1, <2>2, <2>3, <3>1, WroteAll DEF Followed
  <2>4. CASE ~r.ok
    BY <1>1, <2>1, <2>2, <2>4, WroteNone
  <2> QED BY <2>3, <2>4
<1> QED BY <1>2, <1>3

\* FLAC__bitwriter_write_raw_uint32
LEMMA WriteRawIs ==
  ASSUME NEW w, Good(w), w.ok, NEW v \in Seq(Bit), Len(v) <= WordBits, NEW memory
  PROVE  Wrote(w, WriteRaw(w, v, memory), v)
<1>1. CASE v = <<>>
  <2>1. WriteRaw(w, v, memory) = w
    BY <1>1 DEF WriteRaw
  <2>2. Contents(w) \o v = Contents(w)
    BY <1>1, GoodIs, ConcatEmptySeq
  <2> QED BY <2>1, <2>2, WroteAll
<1>2. CASE v # <<>>
  <2> DEFINE r == Room(w, Len(v), memory)
  <2>1. Good(r) /\ Contents(r) = Contents(w) /\ (r.ok => HasRoom(r, Len(v)))
    <3>1. PICK n \in Nat : n = Len(v)
      OBVIOUS
    <3> QED BY <3>1, RoomIs
  <2>2. WriteRaw(w, v, memory) = IF r.ok THEN Put(r, v) ELSE r
    BY <1>2 DEF WriteRaw
  <2> HIDE DEF r
  <2>3. CASE r.ok
    <3>1. Followed(r, Put(r, v), v)
      BY <2>1, <2>3, PutIs
    <3> QED BY <2>1, <2>2, <2>3, <3>1, WroteAll DEF Followed
  <2>4. CASE ~r.ok
    BY <2>1, <2>2, <2>4, WroteNone
  <2> QED BY <2>3, <2>4
<1> QED BY <1>1, <1>2

\* ... after another call.
LEMMA ThenRaw ==
  ASSUME NEW w, Good(w), NEW y, NEW a \in Seq(Bit), Wrote(w, y, a),
         NEW v \in Seq(Bit), Len(v) <= WordBits, NEW memory
  PROVE  Wrote(w, WriteRaw(y, v, memory), a \o v)
<1> DEFINE x == WriteRaw(y, v, memory)
<1>1. Good(y)
  BY DEF Wrote
<1>2. y.ok => Wrote(y, x, v)
  BY <1>1, WriteRawIs
<1>3. ~y.ok => x = y
  BY DEF WriteRaw
<1> HIDE DEF x
<1>4. Wrote(w, x, a \o v)
  BY <1>2, <1>3, WroteBoth
<1> QED BY <1>4 DEF x

\* FLAC__bitwriter_write_raw_uint64
LEMMA WriteLongIs ==
  ASSUME NEW w, Good(w), w.ok, NEW v \in Seq(Bit), Len(v) <= 2 * WordBits, NEW memory
  PROVE  Wrote(w, WriteLong(w, v, memory), v)
<1> DEFINE high == IF Len(v) > WordBits THEN Len(v) - WordBits ELSE 0
           a == SubSeq(v, 1, high)
           b == SubSeq(v, high + 1, Len(v))
<1>1. high \in 0 .. Len(v) /\ high <= WordBits /\ Len(v) - high <= WordBits
  BY BitSizes
<1>2. WriteLong(w, v, memory) = WriteRaw(WriteRaw(w, a, memory), b, memory)
  BY DEF WriteLong
<1> HIDE DEF high
<1>3. /\ a \in Seq(Bit) /\ Len(a) = high /\ b \in Seq(Bit) /\ Len(b) = Len(v) - high
      /\ a \o b = v
  BY <1>1, Parts
<1> HIDE DEF a, b
<1>4. Wrote(w, WriteRaw(w, a, memory), a)
  BY <1>1, <1>3, WriteRawIs
<1>5. Wrote(w, WriteRaw(WriteRaw(w, a, memory), b, memory), a \o b)
  BY <1>1, <1>3, <1>4, ThenRaw
<1> QED BY <1>2, <1>3, <1>5

\* The codes.
LEMMA CodesAre ==
  /\ <<1>> \in Seq(Bit) /\ Len(<<1>>) = 1
  /\ \A n \in Nat : UnaryCode(n) \in Seq(Bit) /\ Len(UnaryCode(n)) = n + 1
  /\ \A v \in Seq(Bit) : <<1>> \o v \in Seq(Bit) /\ Len(<<1>> \o v) = 1 + Len(v)
  /\ \A n \in Nat, v \in Seq(Bit) :
       RiceCode(n, v) \in Seq(Bit) /\ Len(RiceCode(n, v)) = n + 1 + Len(v)
<1>1. 1 \in Bit
  BY DEF Bit
<1>2. <<1>> \in Seq(Bit) /\ Len(<<1>>) = 1
  BY <1>1
<1> DEFINE s == <<1>>
<1> HIDE DEF s
<1>3. s \in Seq(Bit) /\ Len(s) = 1
  BY <1>2 DEF s
<1>4. ASSUME NEW n \in Nat PROVE UnaryCode(n) \in Seq(Bit) /\ Len(UnaryCode(n)) = n + 1
  <2>1. NoBits(n) \in Seq(Bit) /\ Len(NoBits(n)) = n
    BY ZerosAre
  <2>2. NoBits(n) \o s \in Seq(Bit) /\ Len(NoBits(n) \o s) = Len(NoBits(n)) + Len(s)
    BY <1>3, <2>1, ConcatProperties
  <2>3. UnaryCode(n) = NoBits(n) \o s
    BY DEF UnaryCode, s
  <2> QED BY <1>3, <2>1, <2>2, <2>3
<1>5. ASSUME NEW v \in Seq(Bit) PROVE s \o v \in Seq(Bit) /\ Len(s \o v) = 1 + Len(v)
  <2>1. s \o v \in Seq(Bit) /\ Len(s \o v) = Len(s) + Len(v)
    BY <1>3, ConcatProperties
  <2> QED BY <1>3, <2>1
<1>6. ASSUME NEW n \in Nat, NEW v \in Seq(Bit)
      PROVE  RiceCode(n, v) \in Seq(Bit) /\ Len(RiceCode(n, v)) = n + 1 + Len(v)
  <2> DEFINE t == s \o v
             z == NoBits(n)
  <2>1. z \in Seq(Bit) /\ Len(z) = n /\ t \in Seq(Bit) /\ Len(t) = 1 + Len(v)
    BY <1>5, ZerosAre
  <2>2. RiceCode(n, v) = z \o t
    BY DEF RiceCode, s
  <2> HIDE DEF t, z
  <2>3. z \o t \in Seq(Bit) /\ Len(z \o t) = Len(z) + Len(t)
    BY <2>1, ConcatProperties
  <2>4. Len(v) \in Nat
    OBVIOUS
  <2> QED BY <2>1, <2>2, <2>3, <2>4
<1> QED BY <1>2, <1>4, <1>5, <1>6 DEF s

\* FLAC__bitwriter_write_unary_unsigned
LEMMA WriteUnaryIs ==
  ASSUME NEW w, Good(w), w.ok, NEW n \in Nat, NEW memory
  PROVE  Wrote(w, WriteUnary(w, n, memory), UnaryCode(n))
<1>1. UnaryCode(n) \in Seq(Bit) /\ Len(UnaryCode(n)) = n + 1 /\ NoBits(n) \in Seq(Bit)
  BY CodesAre, ZerosAre
<1>2. CASE n < WordBits
  <2>1. Len(UnaryCode(n)) <= WordBits
    BY <1>1, <1>2, BitSizes
  <2>2. WriteUnary(w, n, memory) = WriteRaw(w, UnaryCode(n), memory)
    BY <1>2 DEF WriteUnary
  <2> QED BY <1>1, <2>1, <2>2, WriteRawIs
<1>3. CASE ~ (n < WordBits)
  <2> DEFINE y == WriteZeros(w, n, memory)
             s == <<1>>
  <2>1. Wrote(w, y, NoBits(n))
    BY WriteZerosIs
  <2>2. s \in Seq(Bit) /\ Len(s) <= WordBits
    BY CodesAre, BitSizes
  <2>3. WriteUnary(w, n, memory) = WriteRaw(y, s, memory) /\ UnaryCode(n) = NoBits(n) \o s
    BY <1>3 DEF WriteUnary, UnaryCode
  <2> HIDE DEF y, s
  <2>4. Wrote(w, WriteRaw(y, s, memory), NoBits(n) \o s)
    BY <1>1, <2>1, <2>2, ThenRaw
  <2> QED BY <2>3, <2>4
<1> QED BY <1>2, <1>3

\* FLAC__bitwriter_write_rice_signed
LEMMA WriteRiceIs ==
  ASSUME NEW w, Good(w), w.ok, NEW msbs \in Nat, NEW lsbs \in Seq(Bit),
         Len(lsbs) < WordBits, NEW memory
  PROVE  Wrote(w, WriteRice(w, msbs, lsbs, memory), RiceCode(msbs, lsbs))
<1> DEFINE t == <<1>> \o lsbs
           c == RiceCode(msbs, lsbs)
           z == NoBits(msbs)
<1>1. /\ c \in Seq(Bit) /\ Len(c) = msbs + 1 + Len(lsbs) /\ t \in Seq(Bit)
      /\ Len(t) = 1 + Len(lsbs) /\ z \in Seq(Bit) /\ Len(lsbs) \in Nat
  <2>1. c \in Seq(Bit) /\ Len(c) = msbs + 1 + Len(lsbs)
    BY CodesAre
  <2>2. t \in Seq(Bit) /\ Len(t) = 1 + Len(lsbs)
    BY CodesAre
  <2>3. z \in Seq(Bit)
    BY ZerosAre
  <2> QED BY <2>1, <2>2, <2>3
<1>2. c = z \o t
  BY DEF RiceCode
<1>3. CASE 1 + Len(lsbs) + msbs <= WordBits
  <2>1. WriteRice(w, msbs, lsbs, memory) = WriteRaw(w, c, memory)
    BY <1>3 DEF WriteRice
  <2> HIDE DEF c
  <2>2. Len(c) <= WordBits
    BY <1>1, <1>3, BitSizes
  <2> QED BY <1>1, <2>1, <2>2, WriteRawIs DEF c
<1>4. CASE ~ (1 + Len(lsbs) + msbs <= WordBits)
  <2> DEFINE y == WriteZeros(w, msbs, memory)
  <2>1. WriteRice(w, msbs, lsbs, memory) = WriteRaw(y, t, memory)
    BY <1>4 DEF WriteRice
  <2>2. Wrote(w, y, z)
    BY WriteZerosIs
  <2> HIDE DEF y, t, c, z
  <2>3. Len(t) <= WordBits
    BY <1>1, BitSizes
  <2>4. Wrote(w, WriteRaw(y, t, memory), z \o t)
    BY <1>1, <2>2, <2>3, ThenRaw
  <2>5. Wrote(w, WriteRice(w, msbs, lsbs, memory), c)
    BY <1>2, <2>1, <2>4
  <2> QED BY <2>5 DEF c
<1> QED BY <1>3, <1>4

\* FLAC__bitwriter_write_rice_signed_block
LEMMA WriteRiceOfBlockIs ==
  ASSUME NEW w, Good(w), w.ok, NEW msbs \in Nat, NEW lsbs \in Seq(Bit),
         Len(lsbs) + 1 < WordBits, NEW memory
  PROVE  Wrote(w, WriteRiceOfBlock(w, msbs, lsbs, memory), RiceCode(msbs, lsbs))
<1> DEFINE t == <<1>> \o lsbs
           c == RiceCode(msbs, lsbs)
           z == NoBits(msbs)
           x == WriteRiceOfBlock(w, msbs, lsbs, memory)
<1>1. /\ c \in Seq(Bit) /\ Len(c) = msbs + 1 + Len(lsbs) /\ t \in Seq(Bit)
      /\ Len(t) = 1 + Len(lsbs) /\ z \in Seq(Bit) /\ Len(z) = msbs /\ Len(lsbs) \in Nat
  <2>1. c \in Seq(Bit) /\ Len(c) = msbs + 1 + Len(lsbs)
    BY CodesAre
  <2>2. t \in Seq(Bit) /\ Len(t) = 1 + Len(lsbs)
    BY CodesAre
  <2>3. z \in Seq(Bit) /\ Len(z) = msbs
    BY ZerosAre
  <2> QED BY <2>1, <2>2, <2>3
<1>2. c = z \o t
  BY DEF RiceCode
<1>3. w.bits \in Nat
  BY GoodIs
<1>4. CASE w.bits > 0 /\ w.bits + msbs + 1 + Len(lsbs) < WordBits
  <2>1. x = [w EXCEPT !.accum = ShiftIn(w.accum, c), !.bits = w.bits + msbs + 1 + Len(lsbs)]
    BY <1>4 DEF WriteRiceOfBlock
  <2> HIDE DEF c, x
  <2>2. w.bits + msbs + 1 + Len(lsbs) = w.bits + Len(c) /\ w.bits + Len(c) < WordBits
    BY <1>1, <1>3, <1>4
  <2>3. x = [w EXCEPT !.accum = ShiftIn(w.accum, c), !.bits = w.bits + Len(c)]
    BY <2>1, <2>2
  <2>4. Followed(w, x, c)
    BY <1>1, <2>2, <2>3, Shifted
  <2>5. Wrote(w, x, c)
    BY <1>1, <2>4, WroteAll DEF Followed
  <2> QED BY <2>5 DEF c, x
<1>5. CASE ~ (w.bits > 0 /\ w.bits + msbs + 1 + Len(lsbs) < WordBits)
  <2> DEFINE r == RiceRoom(w, msbs, lsbs, memory)
             y == PutZeros(r, msbs)
             p == Put(y, t)
  <2>1. /\ Good(r) /\ Contents(r) = Contents(w)
        /\ r.ok => HasRoom(r, msbs + 1 + Len(lsbs))
    BY RiceRoomIs
  <2>2. x = IF r.ok THEN p ELSE r
    BY <1>5 DEF WriteRiceOfBlock
  <2> HIDE DEF c, z, t, r, x
  <2>3. CASE ~r.ok
    <3>1. Wrote(w, x, c)
      BY <1>1, <2>1, <2>2, <2>3, WroteNone
    <3> QED BY <3>1 DEF c, x
  <2>4. CASE r.ok
    <3>1. Place(r) \in Nat /\ r.capacity \in Nat
      BY <2>1, GoodIs
    <3>2. Place(r) + (msbs + 1 + Len(lsbs)) <= r.capacity * WordBits
          /\ r.capacity * WordBits \in Nat
      BY <2>1, <2>4, <3>1, BitSizes DEF HasRoom
    <3>3. HasRoom(r, msbs)
      BY <1>1, <3>1, <3>2 DEF HasRoom
    <3>4. Followed(r, y, z)
      BY <2>1, <3>3, PutZerosIs DEF z
    <3> HIDE DEF y
    <3>5. Place(y) = Place(r) + msbs /\ y.capacity = r.capacity /\ Good(y)
      BY <1>1, <3>4 DEF Followed
    <3>6. Place(y) + Len(t) <= y.capacity * WordBits
      <4>1. Place(y) + Len(t) = Place(r) + (msbs + 1 + Len(lsbs))
        BY <1>1, <3>1, <3>5
      <4> QED BY <3>2, <3>5, <4>1
    <3>7. HasRoom(y, Len(t)) /\ Len(t) <= WordBits
      BY <1>1, <3>6, BitSizes DEF HasRoom
    <3>8. Followed(y, p, t)
      BY <1>1, <3>5, <3>7, PutIs
    <3> HIDE DEF p
    <3>9. Followed(r, p, z \o t)
      BY <1>1, <2>1, <3>4, <3>8, FollowedBoth
    <3>10. Good(p) /\ Contents(p) = Contents(w) \o c
      BY <1>2, <2>1, <3>9 DEF Followed
    <3>11. Wrote(w, x, c)
      BY <1>1, <2>2, <2>4, <3>10, WroteAll
    <3> QED BY <3>11 DEF c, x
  <2> QED BY <2>3, <2>4
<1> QED BY <1>4, <1>5

\* FLAC__bitwriter_get_buffer leaves the contents.
LEMMA GetBufferIs ==
  ASSUME NEW w, Good(w), w.ok, NEW memory
  PROVE  LET x == GetBuffer(w, memory) IN Good(x) /\ Contents(x) = Contents(w)
<1> DEFINE r == IF w.bits > 0 /\ w.words = w.capacity THEN Grow(w, WordBits, memory) ELSE w
           x == GetBuffer(w, memory)
<1>1. /\ w.words \in Nat /\ w.capacity \in Nat /\ w.words <= w.capacity /\ w.bits \in Nat
      /\ WordBits \in Nat \ {0}
  BY GoodIs, BitSizes
<1>2. /\ Good(r) /\ Contents(r) = Contents(w)
      /\ r.bits # 0 /\ r.ok => r.words + 1 <= r.capacity
  <2>1. CASE w.bits > 0 /\ w.words = w.capacity
    <3> DEFINE g == Grow(w, WordBits, memory)
    <3>1. r = g
      BY <2>1
    <3>2. /\ Good(g) /\ Contents(g) = Contents(w) /\ g.bits = w.bits
          /\ g.ok => HasRoom(g, WordBits)
      BY <1>1, GrowIs
    <3> HIDE DEF g, r
    <3>3. ASSUME g.ok PROVE g.words + 1 <= g.capacity
      <4>1. g.bits + WordBits >= WordBits /\ HasRoom(g, WordBits)
        BY <1>1, <3>2, <3>3
      <4> QED BY <1>1, <3>2, <4>1, RoomForWord
    <3> QED BY <3>1, <3>2, <3>3
  <2>2. CASE ~ (w.bits > 0 /\ w.words = w.capacity)
    <3>1. r = w
      BY <2>2
    <3> HIDE DEF r
    <3> QED BY <1>1, <2>2, <3>1
  <2> QED BY <2>1, <2>2
<1>3. x = IF r.bits = 0 \/ ~r.ok THEN r ELSE [r EXCEPT !.top = r.words + 1]
  BY DEF GetBuffer
<1> HIDE DEF r, x
<1>4. CASE r.bits = 0 \/ ~r.ok
  BY <1>2, <1>3, <1>4 DEF x
<1>5. CASE ~ (r.bits = 0 \/ ~r.ok)
  <2>1. r \in Writers /\ r.words \in Nat /\ r.words <= r.capacity
    BY <1>2, GoodIs
  <2>2. x = [r EXCEPT !.top = r.words + 1]
    BY <1>3, <1>5
  <2>3. /\ x \in Writers /\ x.buffer = r.buffer /\ x.words = r.words /\ x.top = r.words + 1
        /\ x.capacity = r.capacity /\ x.bits = r.bits /\ x.accum = r.accum
    BY <2>1, <2>2 DEF Writers
  <2> QED BY <1>2, <1>5, <2>1, <2>3 DEF x, Good, Contents
<1> QED BY <1>4, <1>5

\* The bytes it returns are what there is.
LEMMA BytesAre == ASSUME NEW w, Good(w) PROVE Bytes(w) = Contents(w)
<1>1. /\ w.bits \in 0 .. WordBits /\ w.bits \in Nat /\ w.accum \in Word
      /\ WordBits \in Nat \ {0} /\ w.bits <= WordBits
  BY GoodIs, BitSizes
<1>2. PICK k \in Nat : k = WordBits - w.bits
  BY <1>1
<1> DEFINE z == NoBits(k)
           s == ShiftIn(w.accum, z)
           low == Low(w.accum, w.bits)
<1>3. z \in Seq(Bit) /\ Len(z) = k
  BY ZerosAre
<1>4. w.bits + Len(z) = WordBits /\ Len(z) <= WordBits
  BY <1>1, <1>2, <1>3
<1> HIDE DEF z
<1>5. s \in Word /\ Low(s, w.bits + Len(z)) = low \o z
  <2>1. /\ s \in Word
        /\ \A n \in 0 .. WordBits :
             n + Len(z) <= WordBits => Low(s, n + Len(z)) = Low(w.accum, n) \o z
    BY <1>1, <1>3, <1>4, ShiftInIs
  <2>2. w.bits + Len(z) <= WordBits
    BY <1>1, <1>4
  <2> HIDE DEF s
  <2> QED BY <1>1, <2>1, <2>2
<1>6. low \in Seq(Bit) /\ Len(low) = w.bits
  BY <1>1, LowIs
<1> HIDE DEF s, low
<1>7. s = low \o z
  BY <1>4, <1>5, LowAll
<1>8. SubSeq(s, 1, w.bits) = low
  <2>1. /\ Len(low \o z) = Len(low) + Len(z)
        /\ \A i \in 1 .. Len(low) + Len(z) : (low \o z)[i] = IF i <= Len(low) THEN low[i] ELSE z[i - Len(low)]
    BY <1>3, <1>6, ConcatProperties
  <2>2. \A i \in 1 .. w.bits : s[i] = low[i]
    <3> TAKE i \in 1 .. w.bits
    <3>1. i \in 1 .. Len(low) + Len(z) /\ i <= Len(low)
      BY <1>1, <1>3, <1>4, <1>6
    <3> QED BY <1>7, <2>1, <3>1
  <2>3. s \in Seq(Bit) /\ w.bits \in 0 .. Len(s)
    BY <1>1, <1>5, WordIs
  <2> DEFINE x == SubSeq(s, 1, w.bits)
  <2>4. x \in Seq(Bit) /\ Len(x) = w.bits
    BY <2>3, Parts
  <2>5. \A i \in 1 .. w.bits : x[i] = s[i]
    BY <1>1
  <2> HIDE DEF x
  <2>6. Len(x) = Len(low) /\ \A i \in 1 .. Len(x) : x[i] = low[i]
    BY <1>6, <2>2, <2>4, <2>5
  <2>7. x = low
    BY <1>6, <2>4, <2>6, SeqEqual
  <2> QED BY <2>7 DEF x
<1> QED BY <1>2, <1>8 DEF Bytes, Contents, s, z, low

-----------------------------------------------------------------------------
(* The client.                                                             *)

\* The writer's part of the inductive invariant: what was to be written is what it holds.
WriterInv == Good(bw) /\ written = Contents(bw)

\* A writer that is asked again.
LEMMA BegunIs ==
  ASSUME NEW w, Good(w)
  PROVE  /\ Good(Begun(w)) /\ Begun(w).ok /\ Contents(Begun(w)) = Contents(w)
         /\ Begun(w).bits = w.bits
<1>1. w \in Writers /\ w.words <= w.capacity /\ w.top <= w.capacity
  BY DEF Good
<1> DEFINE x == Begun(w)
<1>2. /\ x \in Writers /\ x.buffer = w.buffer /\ x.words = w.words /\ x.top = w.top
      /\ x.capacity = w.capacity /\ x.ok /\ x.bits = w.bits /\ x.accum = w.accum
  BY <1>1 DEF Writers, Begun
<1> HIDE DEF x
<1>3. Good(x) /\ Contents(x) = Contents(w)
  BY <1>1, <1>2 DEF Good, Contents
<1> QED BY <1>2, <1>3 DEF x

\* What is taken of a code is what is added to the contents.
LEMMA WriteKeeps ==
  ASSUME WriterInv, NEW x, NEW code \in Seq(Bit), Wrote(Begun(bw), x, code), Write(x, code)
  PROVE  WriterInv'
<1>1. Good(x) /\ Contents(Begun(bw)) = Contents(bw)
  BY BegunIs DEF WriterInv, Wrote
<1>2. PICK k \in 0 .. Len(code) :
        Contents(x) = Contents(bw) \o SubSeq(code, 1, k) /\ (x.ok => k = Len(code))
  BY <1>1 DEF Wrote
<1>3. SubSeq(code, 1, k) \in Seq(Bit) /\ Len(SubSeq(code, 1, k)) = k
  BY Parts
<1>4. Contents(bw) \in Seq(Bit) /\ Len(Contents(bw)) \in Nat
  BY GoodIs DEF WriterInv
<1> DEFINE c == SubSeq(code, 1, k)
<1> HIDE DEF c
<1>5. Len(Contents(bw) \o c) = Len(Contents(bw)) + Len(c)
  BY <1>3, <1>4, ConcatProperties DEF c
<1>6. Taken(x) = k
  <2>1. Len(Contents(x)) = Len(Contents(bw)) + k
    BY <1>2, <1>3, <1>5 DEF c
  <2> QED BY <1>4, <2>1 DEF Taken
<1>7. (IF x.ok THEN code ELSE SubSeq(code, 1, Taken(x))) = SubSeq(code, 1, k)
  BY <1>2, <1>6, SubSeqFull
<1>8. bw' = x /\ written' = Contents(bw) \o SubSeq(code, 1, k)
  BY <1>7 DEF Write, WriterInv
<1> QED BY <1>1, <1>2, <1>8 DEF WriterInv

\* The values of the client are bits.
LEMMA ValuesAre ==
  ASSUME NEW n \in Nat, NEW v \in Values(n)
  PROVE  v \in Seq(Bit) /\ Len(v) \in Nat /\ Len(v) <= n
<1>1. PICK k \in 0 .. n : v \in [1 .. k -> Bit]
  BY DEF Values
<1> QED BY <1>1

\* Each call.
LEMMA CallKeeps ==
  ASSUME WriterInv, NEW memory \in Memory,
         \/ ZerosCall(memory) \/ RawCall(memory) \/ LongCall(memory)
         \/ UnaryCall(memory) \/ RiceCall(memory) \/ RiceBlockCall(memory)
         \/ PadCall(memory) \/ BufferCall(memory)
  PROVE  WriterInv'
<1> DEFINE w == Begun(bw)
<1>1. Good(bw) /\ Good(w) /\ w.ok /\ Contents(w) = Contents(bw) /\ w.bits = bw.bits
  BY BegunIs DEF WriterInv
<1>2. WordBits \in Nat /\ 2 * WordBits \in Nat /\ WordBits - 1 \in Nat /\ WordBits - 2 \in Nat
  BY BitSizes
<1>3. ASSUME ZerosCall(memory) PROVE WriterInv'
  <2>1. PICK n \in Nat : Write(WriteZeros(w, n, memory), NoBits(n))
    BY <1>3 DEF ZerosCall
  <2> HIDE DEF w
  <2>2. Wrote(w, WriteZeros(w, n, memory), NoBits(n)) /\ NoBits(n) \in Seq(Bit)
    BY <1>1, WriteZerosIs, ZerosAre
  <2> QED BY <2>1, <2>2, WriteKeeps DEF w
<1>4. ASSUME RawCall(memory) PROVE WriterInv'
  <2>1. PICK v \in Values(WordBits) : Write(WriteRaw(w, v, memory), v)
    BY <1>4 DEF RawCall
  <2> HIDE DEF w
  <2>2. v \in Seq(Bit) /\ Len(v) <= WordBits
    BY <1>2, ValuesAre
  <2>3. Wrote(w, WriteRaw(w, v, memory), v)
    BY <1>1, <2>2, WriteRawIs
  <2> QED BY <2>1, <2>2, <2>3, WriteKeeps DEF w
<1>5. ASSUME LongCall(memory) PROVE WriterInv'
  <2>1. PICK v \in Values(2 * WordBits) : Write(WriteLong(w, v, memory), v)
    BY <1>5 DEF LongCall
  <2> HIDE DEF w
  <2>2. v \in Seq(Bit) /\ Len(v) <= 2 * WordBits
    BY <1>2, ValuesAre
  <2>3. Wrote(w, WriteLong(w, v, memory), v)
    BY <1>1, <2>2, WriteLongIs
  <2> QED BY <2>1, <2>2, <2>3, WriteKeeps DEF w
<1>6. ASSUME UnaryCall(memory) PROVE WriterInv'
  <2>1. PICK n \in Nat : Write(WriteUnary(w, n, memory), UnaryCode(n))
    BY <1>6 DEF UnaryCall
  <2> HIDE DEF w
  <2>2. Wrote(w, WriteUnary(w, n, memory), UnaryCode(n)) /\ UnaryCode(n) \in Seq(Bit)
    BY <1>1, WriteUnaryIs, CodesAre
  <2> QED BY <2>1, <2>2, WriteKeeps DEF w
<1>7. ASSUME RiceCall(memory) PROVE WriterInv'
  <2>1. PICK lsbs \in Values(WordBits - 1), msbs \in Nat :
          Write(WriteRice(w, msbs, lsbs, memory), RiceCode(msbs, lsbs))
    BY <1>7 DEF RiceCall
  <2> HIDE DEF w
  <2>2. lsbs \in Seq(Bit) /\ Len(lsbs) <= WordBits - 1 /\ Len(lsbs) \in Nat
    BY <1>2, ValuesAre
  <2>3. Len(lsbs) < WordBits
    BY <1>2, <2>2
  <2>4. Wrote(w, WriteRice(w, msbs, lsbs, memory), RiceCode(msbs, lsbs))
    BY <1>1, <2>2, <2>3, WriteRiceIs
  <2>5. RiceCode(msbs, lsbs) \in Seq(Bit)
    BY <2>2, CodesAre
  <2> QED BY <2>1, <2>4, <2>5, WriteKeeps DEF w
<1>8. ASSUME RiceBlockCall(memory) PROVE WriterInv'
  <2>1. PICK lsbs \in Values(WordBits - 2), msbs \in Nat :
          Write(WriteRiceOfBlock(w, msbs, lsbs, memory), RiceCode(msbs, lsbs))
    BY <1>8 DEF RiceBlockCall
  <2> HIDE DEF w
  <2>2. lsbs \in Seq(Bit) /\ Len(lsbs) <= WordBits - 2 /\ Len(lsbs) \in Nat
    BY <1>2, ValuesAre
  <2>3. Len(lsbs) + 1 < WordBits
    BY <1>2, <2>2
  <2>4. Wrote(w, WriteRiceOfBlock(w, msbs, lsbs, memory), RiceCode(msbs, lsbs))
    BY <1>1, <2>2, <2>3, WriteRiceOfBlockIs
  <2>5. RiceCode(msbs, lsbs) \in Seq(Bit)
    BY <2>2, CodesAre
  <2> QED BY <2>1, <2>4, <2>5, WriteKeeps DEF w
<1>9. ASSUME PadCall(memory) PROVE WriterInv'
  <2>1. Write(WriteZeros(w, Pad(w), memory), NoBits(Pad(bw)))
    BY <1>9 DEF PadCall, ZeroPad
  <2>2. Pad(w) = Pad(bw)
    BY <1>1 DEF Pad, IsByteAligned
  <2>3. Pad(bw) \in Nat
    <3>1. bw.bits \in Nat
      BY <1>1, GoodIs
    <3>2. bw.bits % ByteBits \in 0 .. ByteBits - 1
      BY <3>1, BitSizes
    <3> QED BY <3>2, BitSizes DEF Pad
  <2> HIDE DEF w
  <2>4. PICK n \in Nat : n = Pad(bw)
    BY <2>3
  <2>5. Wrote(w, WriteZeros(w, n, memory), NoBits(n)) /\ NoBits(n) \in Seq(Bit)
    BY <1>1, WriteZerosIs, ZerosAre
  <2>6. Write(WriteZeros(w, n, memory), NoBits(n))
    BY <2>1, <2>2, <2>4
  <2> QED BY <2>5, <2>6, WriteKeeps DEF w
<1>10. ASSUME BufferCall(memory) PROVE WriterInv'
  <2> DEFINE x == GetBuffer(w, memory)
  <2>1. Write(x, <<>>)
    BY <1>10 DEF BufferCall
  <2> HIDE DEF w
  <2>2. Good(x) /\ Contents(x) = Contents(w)
    BY <1>1, GetBufferIs
  <2> HIDE DEF x
  <2>3. <<>> \in Seq(Bit) /\ Contents(w) \o <<>> = Contents(w)
    BY <1>1, GoodIs, ConcatEmptySeq
  <2>4. Wrote(w, x, <<>>)
    BY <2>2, <2>3, WroteAll
  <2> QED BY <2>1, <2>3, <2>4, WriteKeeps DEF w
<1> QED BY <1>3, <1>4, <1>5, <1>6, <1>7, <1>8, <1>9, <1>10

\* What is empty holds nothing.
LEMMA EmptyIs ==
  ASSUME NEW x, x \in Writers, x.buffer = <<>>, x.bits = 0, x.words = 0, x.top = 0
  PROVE  Good(x) /\ Contents(x) = <<>>
<1>1. x.capacity \in Nat /\ x.accum \in Word
  BY DEF Writers
<1>2. Good(x)
  <2>1. Len(x.buffer) = 0 /\ x.words * WordBits = 0
    BY BitSizes
  <2> QED BY <1>1, <2>1 DEF Good
<1>3. Low(x.accum, x.bits) = <<>>
  BY <1>1, LowNone
<1> QED BY <1>2, <1>3, ConcatEmptySeq DEF Contents

\* Every step of the client.
LEMMA WriterStepKeeps == ASSUME WriterInv, WriterNext PROVE WriterInv'
<1>1. CASE \E memory \in Memory :
             \/ ZerosCall(memory) \/ RawCall(memory) \/ LongCall(memory)
             \/ UnaryCall(memory) \/ RiceCall(memory) \/ RiceBlockCall(memory)
             \/ PadCall(memory) \/ BufferCall(memory)
  BY <1>1, CallKeeps
<1>2. CASE ClearCall
  <2>1. bw' = Clear(bw) /\ written' = <<>> /\ bw \in Writers
    BY <1>2, GoodIs DEF ClearCall, WriterInv
  <2> DEFINE x == Clear(bw)
  <2>2. /\ x \in Writers /\ x.buffer = <<>> /\ x.bits = 0 /\ x.words = 0 /\ x.top = 0
    <3>1. 0 \in 0 .. WordBits - 1 /\ <<>> \in Seq(Bit)
      BY BitSizes
    <3> QED BY <2>1, <3>1 DEF Writers, Clear
  <2> HIDE DEF x
  <2>3. Good(x) /\ Contents(x) = <<>>
    BY <2>2, EmptyIs
  <2> QED BY <2>1, <2>3 DEF WriterInv, x
<1> QED BY <1>1, <1>2 DEF WriterNext

\* A new writer is empty.
LEMMA WriterBegins == ASSUME WriterInit PROVE WriterInv
<1> DEFINE z == NoBits(WordBits)
<1>1. /\ bw = [buffer |-> <<>>, words |-> 0, accum |-> z, bits |-> 0,
               capacity |-> WriterCapacity, top |-> 0, ok |-> TRUE]
      /\ written = <<>>
  BY DEF WriterInit
<1>2. z \in Word /\ 0 \in 0 .. WordBits - 1 /\ WriterCapacity \in Nat /\ <<>> \in Seq(Bit)
  BY BitSizes, LowZeros
<1> HIDE DEF z
<1>3. /\ bw \in Writers /\ bw.buffer = <<>> /\ bw.bits = 0 /\ bw.words = 0 /\ bw.top = 0
  BY <1>1, <1>2 DEF Writers
<1> QED BY <1>1, <1>3, EmptyIs DEF WriterInv

\* When the file is written the writer is freed.
LEMMA WriteFileKeeps == ASSUME WriterInv, WriteFile PROVE WriterInv'
<1> DEFINE z == NoBits(WordBits)
           y == Clear(bw)
           x == [y EXCEPT !.capacity = 0, !.ok = TRUE, !.accum = z]
<1>1. bw' = x /\ written' = <<>> /\ bw \in Writers
  BY GoodIs DEF WriteFile, WriterInv
<1>2. z \in Word /\ 0 \in 0 .. WordBits - 1 /\ <<>> \in Seq(Bit)
  BY BitSizes, LowZeros
<1>3. y \in Writers /\ y.buffer = <<>> /\ y.bits = 0 /\ y.words = 0 /\ y.top = 0
  BY <1>1, <1>2 DEF Writers, Clear
<1> HIDE DEF z, y
<1>4. x \in Writers /\ x.buffer = <<>> /\ x.bits = 0 /\ x.words = 0 /\ x.top = 0
  BY <1>2, <1>3 DEF Writers
<1> HIDE DEF x
<1>5. Good(x) /\ Contents(x) = <<>>
  BY <1>4, EmptyIs
<1> QED BY <1>1, <1>5 DEF WriterInv

\* Always.
LEMMA WriterInvHolds == Spec => []WriterInv
<1>1. Init => WriterInv
  BY WriterBegins DEF Init
<1>2. WriterInv /\ [Next]_vars => WriterInv'
  <2> SUFFICES ASSUME WriterInv, [Next]_vars PROVE WriterInv'
    OBVIOUS
  <2>1. CASE WriteStep
    BY <2>1, WriterStepKeeps DEF WriteStep
  <2>2. CASE WriteFile
    BY <2>2, WriteFileKeeps
  <2>3. CASE UNCHANGED <<bw, written>>
    BY <2>3 DEF WriterInv
  <2>4. ReadCall \/ UNCHANGED vars => UNCHANGED <<bw, written>>
    BY DEF ReadCall, writerVars, vars
  <2> QED BY <2>1, <2>2, <2>3, <2>4 DEF Next
<1> QED BY <1>1, <1>2, PTL DEF Spec

\* Raw values, zeros, unary and Rice codes, alone and in blocks, and padding come out of
\* the buffer bit by bit as they went in, at whatever alignment, after whatever refusal of
\* memory, and the bytes of get_buffer are the same.
THEOREM BitsAreIntact == Spec => []WrittenIntact
<1>1. WriterInv => WrittenIntact
  BY BytesAre DEF WriterInv, WrittenIntact
<1> QED BY <1>1, WriterInvHolds, PTL

\* No call stores a word behind the end of the buffer: the size checks, which compare
\* words with bits, are never short.
THEOREM StoresAreInside == Spec => []InBuffer
<1>1. WriterInv => InBuffer
  BY DEF WriterInv, Good, InBuffer
<1> QED BY <1>1, WriterInvHolds, PTL

\* So it is for the writer without a reader.
THEOREM WriterIsRight == WriterSpec => []WrittenIntact /\ []InBuffer
<1>1. WriterInit => WriterInv
  BY WriterBegins
<1>2. WriterInv /\ [WriterNext]_writerVars => WriterInv'
  BY WriterStepKeeps DEF writerVars, WriterInv
<1>3. WriterInv => WrittenIntact /\ InBuffer
  BY BytesAre DEF WriterInv, WrittenIntact, Good, InBuffer
<1> QED BY <1>1, <1>2, <1>3, PTL DEF WriterSpec

-----------------------------------------------------------------------------
(* The reader: numbers and slices.                                         *)

\* The bits of a sequence from a up to b.
Slice(f, a, b) == SubSeq(f, a + 1, b)

\* Zeros only.
Zeros(f, a, b) == \A i \in a + 1 .. b : f[i] = 0

\* Words, bytes and bits.
LEMMA WordIsBytes ==
  /\ Reader!WordBytes \in Nat \ {0} /\ WordBits = Reader!WordBytes * ByteBits
  /\ \A k \in Int : k * ByteBits \in Int /\ k * WordBits \in Int
  /\ \A k \in Nat : k * ByteBits \in Nat /\ k * WordBits \in Nat
  /\ \A k \in 0 .. Reader!WordBytes - 1 : k * ByteBits \in Nat /\ k * ByteBits + ByteBits <= WordBits
<1>1. WordBits \in Nat \ {0, 1} /\ ByteBits \in Nat \ {0, 1} /\ WordBits % ByteBits = 0
  BY WriterAssumption
<1> DEFINE q == WordBits \div ByteBits
<1>2. q \in Int /\ WordBits = q * ByteBits + 0
  BY <1>1, DivIs
<1>3. Reader!WordBytes = q
  BY DEF Reader!WordBytes
<1> HIDE DEF q
<1>4. \A k \in Int : k * ByteBits \in Int /\ k * WordBits \in Int
  BY <1>1
<1>5. \A k \in Nat : k * ByteBits \in Nat /\ k * WordBits \in Nat
  BY <1>1
<1>6. q \in Nat \ {0}
  <2> SUFFICES ASSUME q <= 0 PROVE FALSE
    BY <1>2
  <2>1. (0 - q) * ByteBits >= 0 /\ (0 - q) * ByteBits = 0 - q * ByteBits
    BY <1>1, <1>2
  <2> QED BY <1>1, <1>2, <1>4, <2>1
<1>7. ASSUME NEW k \in 0 .. q - 1 PROVE k * ByteBits \in Nat /\ k * ByteBits + ByteBits <= WordBits
  <2>1. k \in Nat /\ q - 1 - k \in Nat
    BY <1>6
  <2>2. (q - 1 - k) * ByteBits >= 0
    BY <1>1, <2>1
  <2>3. (q - 1 - k) * ByteBits = q * ByteBits - ByteBits - k * ByteBits
    BY <1>1, <1>6, <2>1
  <2>4. k * ByteBits \in Nat /\ q * ByteBits \in Int
    BY <1>2, <1>4, <1>5, <2>1
  <2> QED BY <1>1, <1>2, <2>2, <2>3, <2>4
<1> QED BY <1>2, <1>3, <1>4, <1>5, <1>6, <1>7

\* What a slice is, ...
LEMMA SliceIs ==
  ASSUME NEW f \in Seq(Bit), NEW a \in Nat, NEW b \in Nat, a <= b, b <= Len(f)
  PROVE  /\ Slice(f, a, b) \in Seq(Bit) /\ Len(Slice(f, a, b)) = b - a
         /\ \A i \in 1 .. b - a : Slice(f, a, b)[i] = f[a + i]
<1>1. a + 1 \in Int /\ b \in Int
  OBVIOUS
<1>2. \A i \in a + 1 .. b : f[i] \in Bit
  <2> TAKE i \in a + 1 .. b
  <2>1. i \in 1 .. Len(f)
    OBVIOUS
  <2> QED BY <2>1, ElementOfSeq
<1> DEFINE m == a + 1
<1>3. m \in Int /\ b - m + 1 = b - a
  OBVIOUS
<1>4. \A i \in 1 .. b - a : m + i - 1 = a + i
  OBVIOUS
<1>5. IF m <= b THEN b - m + 1 = b - a ELSE b - a = 0
  OBVIOUS
<1>6. \A i \in m .. b : f[i] \in Bit
  BY <1>2
<1>7. Slice(f, a, b) = SubSeq(f, m, b)
  BY DEF Slice
<1> HIDE DEF m
<1>8. /\ SubSeq(f, m, b) \in Seq(Bit)
      /\ Len(SubSeq(f, m, b)) = IF m <= b THEN b - m + 1 ELSE 0
      /\ \A i \in 1 .. b - m + 1 : SubSeq(f, m, b)[i] = f[m + i - 1]
  BY <1>3, <1>6, SubSeqProperties
<1> QED BY <1>3, <1>4, <1>5, <1>7, <1>8

\* ... a slice of it, ...
LEMMA SliceOfSlice ==
  ASSUME NEW f \in Seq(Bit), NEW a \in Nat, NEW b \in Nat, a <= b, b <= Len(f),
         NEW i \in Nat, NEW j \in Nat, i <= j, j <= b - a
  PROVE  Slice(Slice(f, a, b), i, j) = Slice(f, a + i, a + j)
<1> DEFINE s == Slice(f, a, b)
           x == Slice(s, i, j)
           y == Slice(f, a + i, a + j)
<1>1. s \in Seq(Bit) /\ Len(s) = b - a /\ \A k \in 1 .. b - a : s[k] = f[a + k]
  BY SliceIs
<1>2. a + i \in Nat /\ a + j \in Nat /\ a + i <= a + j /\ a + j <= Len(f) /\ a + j - (a + i) = j - i
  OBVIOUS
<1>3. y \in Seq(Bit) /\ Len(y) = j - i /\ \A k \in 1 .. j - i : y[k] = f[a + i + k]
  <2> DEFINE p == a + i
             q == a + j
  <2>1. p \in Nat /\ q \in Nat /\ p <= q /\ q <= Len(f) /\ q - p = j - i
    BY <1>2
  <2>2. y = Slice(f, p, q)
    OBVIOUS
  <2>3. \A k \in 1 .. j - i : p + k = a + i + k
    OBVIOUS
  <2> HIDE DEF p, q, y
  <2>4. /\ Slice(f, p, q) \in Seq(Bit) /\ Len(Slice(f, p, q)) = q - p
        /\ \A k \in 1 .. q - p : Slice(f, p, q)[k] = f[p + k]
    BY <2>1, SliceIs
  <2> QED BY <2>1, <2>2, <2>3, <2>4
<1> HIDE DEF s
<1>4. x \in Seq(Bit) /\ Len(x) = j - i /\ \A k \in 1 .. j - i : x[k] = s[i + k]
  BY <1>1, SliceIs
<1>5. \A k \in 1 .. j - i : x[k] = y[k]
  <2> TAKE k \in 1 .. j - i
  <2>1. i + k \in 1 .. b - a /\ a + (i + k) = a + i + k
    OBVIOUS
  <2> HIDE DEF x, y
  <2> QED BY <1>1, <1>3, <1>4, <2>1
<1> HIDE DEF x, y
<1>6. x = y
  BY <1>3, <1>4, <1>5, SeqEqual
<1> QED BY <1>6 DEF x, y, s

\* ... and two that meet.
LEMMA SlicesJoin ==
  ASSUME NEW f \in Seq(Bit), NEW a \in Nat, NEW b \in Nat, NEW c \in Nat,
         a <= b, b <= c, c <= Len(f)
  PROVE  Slice(f, a, b) \o Slice(f, b, c) = Slice(f, a, c)
<1>1. a + 1 \in 1 .. Len(f) + 1 /\ b \in a + 1 - 1 .. Len(f) /\ c \in b .. Len(f)
  OBVIOUS
<1> QED BY <1>1, ConcatAdjacentSubSeq DEF Slice

\* Nothing.
LEMMA SliceNone == ASSUME NEW f, NEW a \in Int PROVE Slice(f, a, a) = <<>>
BY SubSeqEmpty DEF Slice

\* Where a stop bit is, there is a first.
LEMMA FirstStop ==
  ASSUME NEW bits \in Seq(Bit), Reader!HasStop(bits)
  PROVE  LET z == Reader!ZeroMSBs(bits)
         IN  /\ z \in Nat /\ z < Len(bits)
             /\ bits[z + 1] = 1 /\ \A j \in 1 .. z : bits[j] = 0
<1> DEFINE T == {i \in Nat : i < Len(bits) /\ bits[i + 1] = 1}
           R == OpToRel(<, Nat)
<1>1. PICK k \in 1 .. Len(bits) : bits[k] = 1
  BY DEF Reader!HasStop
<1>2. k - 1 \in T
  <2>1. k - 1 \in Nat /\ k - 1 < Len(bits) /\ k - 1 + 1 = k
    OBVIOUS
  <2> QED BY <1>1, <2>1
<1>3. T \subseteq Nat /\ T # {}
  BY <1>2
<1>4. IsWellFoundedOn(R, Nat)
  BY NatLessThanWellFounded
<1> HIDE DEF T, R
<1>5. PICK m \in T : \A y \in T : ~ (<<y, m>> \in R)
  BY <1>3, <1>4, WFMin
<1>6. \A y \in T : ~ (y < m)
  BY <1>3, <1>5 DEF R, OpToRel
<1>7. m \in 0 .. Len(bits) - 1 /\ bits[m + 1] = 1
  BY DEF T
<1>8. ASSUME NEW j \in 1 .. m PROVE bits[j] = 0
  <2>1. j - 1 \in Nat /\ j - 1 < Len(bits) /\ j - 1 + 1 = j /\ j - 1 < m /\ j \in 1 .. Len(bits)
    BY <1>7
  <2>2. bits[j] # 1
    BY <1>6, <2>1 DEF T
  <2> QED BY <2>1, <2>2, ElementOfSeq DEF Bit
<1> DEFINE P(i) == bits[i + 1] = 1 /\ \A j \in 1 .. i : bits[j] = 0
           z == CHOOSE i \in 0 .. Len(bits) - 1 : P(i)
<1>9. P(m)
  BY <1>7, <1>8
<1>10. Reader!ZeroMSBs(bits) = z
  BY DEF Reader!ZeroMSBs
<1> HIDE DEF P
<1>11. z \in 0 .. Len(bits) - 1 /\ P(z)
  BY <1>7, <1>9
<1> HIDE DEF z
<1> QED BY <1>10, <1>11 DEF P

\* There is only one.
LEMMA OneFirstStop ==
  ASSUME NEW bits \in Seq(Bit), NEW n \in Nat, n < Len(bits), bits[n + 1] = 1,
         \A j \in 1 .. n : bits[j] = 0
  PROVE  Reader!HasStop(bits) /\ Reader!ZeroMSBs(bits) = n
<1>1. n + 1 \in 1 .. Len(bits)
  OBVIOUS
<1>2. Reader!HasStop(bits)
  BY <1>1 DEF Reader!HasStop
<1> DEFINE z == Reader!ZeroMSBs(bits)
<1>3. z \in Nat /\ z < Len(bits) /\ bits[z + 1] = 1 /\ \A j \in 1 .. z : bits[j] = 0
  BY <1>2, FirstStop
<1> HIDE DEF z
<1>4. ~ (z < n)
  <2> SUFFICES ASSUME z < n PROVE FALSE
    OBVIOUS
  <2>1. z + 1 \in 1 .. n
    BY <1>3
  <2> QED BY <1>3, <2>1
<1>5. ~ (n < z)
  <2> SUFFICES ASSUME n < z PROVE FALSE
    OBVIOUS
  <2>1. n + 1 \in 1 .. z
    BY <1>3
  <2> QED BY <1>3, <2>1
<1> QED BY <1>2, <1>3, <1>4, <1>5 DEF z

-----------------------------------------------------------------------------
(* The reader: its buffer.                                                 *)

Readers ==
  [buffer : Seq(Bit), words : Nat, bytes : 0 .. Reader!WordBytes - 1, words_read : Nat,
   bits_read : Nat, crc : Seq(Bit), align : 0 .. WordBits - 1]

\* How many bits of the word at which the reader is are there, ...
Width(b) == IF Reader!AtWholeWord(b) THEN WordBits ELSE b.bytes * ByteBits

\* ... where in the file that word begins, of which e bits were fetched, ...
WordStart(b, e) == e - Len(b.buffer) + b.words_read * WordBits

\* ... and the bit at which the reader is.
BitAt(b, e) == WordStart(b, e) + b.bits_read

\* The buffer is as full as the counts say and holds the last of the e bits of f.
Buffered(b, e, f) ==
  /\ b \in Readers
  /\ b.words_read <= b.words
  /\ Len(b.buffer) = b.words * WordBits + b.bytes * ByteBits
  /\ Len(b.buffer) <= e /\ e <= Len(f)
  /\ b.buffer = Slice(f, e - Len(b.buffer), e)
  /\ b.bits_read < WordBits /\ b.bits_read <= Width(b)

\* The CRC is of the bits from c to crc16_align.
Summed(b, e, c, f) ==
  c # Reader!None =>
    /\ b.align <= b.bits_read
    /\ c <= WordStart(b, e) + b.align
    /\ b.crc = Slice(f, c, WordStart(b, e) + b.align)

Sound(b, e, c, f) == Buffered(b, e, f) /\ Summed(b, e, c, f)

\* The fields.
LEMMA ReaderIs ==
  ASSUME NEW b \in Readers
  PROVE  /\ b.buffer \in Seq(Bit) /\ Len(b.buffer) \in Nat /\ b.words \in Nat
         /\ b.bytes \in Nat /\ b.bytes <= Reader!WordBytes - 1
         /\ b.words_read \in Nat /\ b.bits_read \in Nat /\ b.crc \in Seq(Bit)
         /\ b.align \in Nat /\ b.align < WordBits
         /\ b.words * WordBits \in Nat /\ b.bytes * ByteBits \in Nat
         /\ b.bytes * ByteBits + ByteBits <= WordBits
         /\ b.words_read * WordBits \in Nat
<1>1. /\ b.buffer \in Seq(Bit) /\ b.words \in Nat /\ b.bytes \in 0 .. Reader!WordBytes - 1
      /\ b.words_read \in Nat /\ b.bits_read \in Nat /\ b.crc \in Seq(Bit)
      /\ b.align \in 0 .. WordBits - 1
  BY DEF Readers
<1>2. /\ Len(b.buffer) \in Nat /\ b.bytes \in Nat /\ b.bytes <= Reader!WordBytes - 1
      /\ b.align \in Nat /\ b.align < WordBits
  BY <1>1, WordIsBytes, BitSizes
<1>3. /\ b.words * WordBits \in Nat /\ b.bytes * ByteBits \in Nat
      /\ b.words_read * WordBits \in Nat /\ b.bytes * ByteBits + ByteBits <= WordBits
  BY <1>1, <1>2, WordIsBytes
<1> QED BY <1>1, <1>2, <1>3

\* Where the reader is, and what is at it.
LEMMA BufferedIs ==
  ASSUME NEW f \in Seq(Bit), NEW e \in Nat, NEW b, Buffered(b, e, f)
  PROVE  /\ b \in Readers /\ e <= Len(f)
         /\ Width(b) \in Nat /\ Width(b) <= WordBits
         /\ Reader!AtWholeWord(b) => Width(b) = WordBits /\ b.words_read + 1 <= b.words
         /\ ~Reader!AtWholeWord(b) =>
              /\ Width(b) = b.bytes * ByteBits /\ Width(b) < WordBits
              /\ b.words_read = b.words /\ WordStart(b, e) + Width(b) = e
         /\ b.bits_read \in Nat /\ b.bits_read <= Width(b) /\ b.bits_read < WordBits
         /\ WordStart(b, e) \in Nat /\ WordStart(b, e) + Width(b) <= e
         /\ BitAt(b, e) \in Nat /\ BitAt(b, e) = WordStart(b, e) + b.bits_read
         /\ Reader!Held(b) = e - BitAt(b, e) /\ Reader!Held(b) \in Nat
         /\ Reader!HeadWord(b) = Slice(f, WordStart(b, e), WordStart(b, e) + Width(b))
<1> DEFINE L == Len(b.buffer)
           w == b.words * WordBits
           r == b.words_read * WordBits
           t == b.bytes * ByteBits
           S == WordStart(b, e)
<1>1. /\ b \in Readers /\ b.words_read <= b.words /\ L = w + t /\ L <= e /\ e <= Len(f)
      /\ b.buffer = Slice(f, e - L, e)
      /\ b.bits_read < WordBits /\ b.bits_read <= Width(b)
  BY DEF Buffered
<1>2. /\ L \in Nat /\ w \in Nat /\ t \in Nat /\ r \in Nat /\ t + ByteBits <= WordBits
      /\ b.words \in Nat /\ b.words_read \in Nat /\ b.bits_read \in Nat
      /\ b.bytes \in Nat
  BY <1>1, ReaderIs
<1>3. S = e - L + r
  BY DEF WordStart
<1>4. Width(b) = IF Reader!AtWholeWord(b) THEN WordBits ELSE t
  BY DEF Width
<1>5. Reader!AtWholeWord(b) <=> b.words_read < b.words
  BY DEF Reader!AtWholeWord
<1>6. Reader!Held(b) = w - r + t - b.bits_read
  <2>1. (b.words - b.words_read) * WordBits = w - r
    <3>1. PICK m \in Nat, k \in Nat : m = b.words_read /\ k = b.words
      BY <1>2
    <3>2. (k - m) * WordBits = k * WordBits - m * WordBits
      BY BitSizes
    <3> QED BY <3>1, <3>2
  <2>2. Reader!Held(b) = (b.words - b.words_read) * WordBits + t - b.bits_read
    BY DEF Reader!Held
  <2> HIDE DEF w, r, t
  <2> QED BY <2>1, <2>2
<1>7. IF Reader!AtWholeWord(b) THEN r + WordBits <= w ELSE r = w
  <2>1. CASE b.words_read < b.words
    <3>1. PICK m \in Nat, k \in Nat : m = b.words_read /\ k = b.words
      BY <1>2
    <3>2. PICK d \in Nat : k = m + d + 1
      <4>1. k - m - 1 \in Nat /\ k = m + (k - m - 1) + 1
        BY <2>1, <3>1
      <4> QED BY <4>1
    <3>3. k * WordBits = m * WordBits + d * WordBits + WordBits /\ d * WordBits \in Nat
      BY <3>2, BitSizes
    <3>4. w = r + d * WordBits + WordBits
      BY <3>1, <3>3
    <3> HIDE DEF w, r
    <3> QED BY <1>2, <1>5, <2>1, <3>3, <3>4, BitSizes
  <2>2. CASE ~ (b.words_read < b.words)
    <3>1. b.words_read = b.words
      BY <1>1, <1>2, <2>2
    <3> QED BY <1>5, <2>2, <3>1
  <2> QED BY <2>1, <2>2
<1>8. Reader!HeadWord(b) = SubSeq(b.buffer, r + 1, IF r + WordBits > L THEN L ELSE r + WordBits)
  BY DEF Reader!HeadWord
<1> HIDE DEF L, w, r, t, S
<1>9. /\ Width(b) \in Nat /\ Width(b) <= WordBits
      /\ Reader!AtWholeWord(b) => Width(b) = WordBits /\ b.words_read + 1 <= b.words
      /\ ~Reader!AtWholeWord(b) => Width(b) = t /\ Width(b) < WordBits /\ b.words_read = b.words
  BY <1>1, <1>2, <1>4, <1>5, BitSizes
<1>10. /\ S \in Nat /\ S + Width(b) <= e /\ r + Width(b) <= L
       /\ ~Reader!AtWholeWord(b) => S + Width(b) = e
       /\ (IF r + WordBits > L THEN L ELSE r + WordBits) = r + Width(b)
  BY <1>1, <1>2, <1>3, <1>4, <1>7, BitSizes
<1>11. BitAt(b, e) = S + b.bits_read
  BY DEF BitAt, S
<1>12. /\ BitAt(b, e) \in Nat /\ Reader!Held(b) = e - BitAt(b, e) /\ Reader!Held(b) \in Nat
  <2> DEFINE k == Width(b)
  <2>1. k \in Nat /\ S + k <= e /\ b.bits_read <= k /\ S \in Nat /\ b.bits_read \in Nat
    BY <1>1, <1>2, <1>9, <1>10
  <2>2. L = w + t
    BY <1>1
  <2> HIDE DEF k
  <2> QED BY <1>2, <1>3, <1>6, <1>11, <2>1, <2>2
<1>13. Reader!HeadWord(b) = Slice(f, S, S + Width(b))
  <2>1. PICK a \in Nat : a = e - L
    BY <1>1, <1>2
  <2>2. PICK j \in Nat : j = r + Width(b)
    BY <1>2, <1>9
  <2>3. a <= e /\ r <= j /\ j <= e - a /\ a + r = S /\ a + j = S + Width(b)
    BY <1>1, <1>2, <1>3, <1>9, <1>10, <2>1, <2>2
  <2>4. e <= Len(f) /\ a <= e /\ r \in Nat
    BY <1>1, <1>2, <2>3
  <2>5. Slice(Slice(f, a, e), r, j) = Slice(f, a + r, a + j)
    BY <2>3, <2>4, SliceOfSlice
  <2> QED BY <1>1, <1>8, <1>10, <2>1, <2>2, <2>3, <2>5 DEF Slice
<1> QED BY <1>1, <1>2, <1>9, <1>10, <1>11, <1>12, <1>13 DEF S, t

\* On in the word.
LEMMA MoveIs ==
  ASSUME NEW f \in Seq(Bit), NEW e \in Nat, NEW c, NEW b, Sound(b, e, c, f),
         NEW n \in Nat, b.bits_read <= n, n < WordBits, n <= Width(b)
  PROVE  LET x == [b EXCEPT !.bits_read = n]
         IN  Sound(x, e, c, f) /\ BitAt(x, e) = WordStart(b, e) + n
<1> DEFINE x == [b EXCEPT !.bits_read = n]
<1>1. b \in Readers /\ b.bits_read \in Nat /\ b.align \in Nat
  BY ReaderIs DEF Sound, Buffered
<1>2. /\ x \in Readers /\ x.buffer = b.buffer /\ x.words = b.words /\ x.bytes = b.bytes
      /\ x.words_read = b.words_read /\ x.bits_read = n /\ x.crc = b.crc /\ x.align = b.align
  BY <1>1 DEF Readers
<1> HIDE DEF x
<1>3. Width(x) = Width(b)
  BY <1>2 DEF Width, Reader!AtWholeWord
<1>4. WordStart(x, e) = WordStart(b, e)
  BY <1>2 DEF WordStart
<1>5. Buffered(x, e, f)
  BY <1>2, <1>3 DEF Sound, Buffered
<1>6. Summed(x, e, c, f)
  BY <1>1, <1>2, <1>4 DEF Sound, Summed
<1> QED BY <1>2, <1>4, <1>5, <1>6 DEF x, Sound, BitAt

\* On to the next word, and the rest of this one into the CRC.
LEMMA NextIs ==
  ASSUME NEW f \in Seq(Bit), NEW e \in Nat, NEW b, Sound(b, e, crcFrom, f),
         crcFrom \in Nat \cup {Reader!None}, Reader!AtWholeWord(b)
  PROVE  LET x == Reader!NextWord(Reader!WithCrc(b))
         IN  /\ Sound(x, e, crcFrom, f) /\ x.bits_read = 0
             /\ WordStart(x, e) = WordStart(b, e) + WordBits
             /\ BitAt(x, e) = WordStart(b, e) + WordBits
<1> DEFINE S == WordStart(b, e)
           y == Reader!WithCrc(b)
           x == Reader!NextWord(y)
           d == Reader!Crcd(b, WordBits)
<1>1. Buffered(b, e, f) /\ Summed(b, e, crcFrom, f)
  BY DEF Sound
<1>2. /\ b \in Readers /\ e <= Len(f) /\ S \in Nat /\ S + WordBits <= e /\ Width(b) = WordBits
      /\ Reader!HeadWord(b) = Slice(f, S, S + WordBits) /\ b.words_read + 1 <= b.words
  BY <1>1, BufferedIs
<1>3. b.align \in Nat /\ b.align < WordBits /\ b.crc \in Seq(Bit) /\ b.words_read \in Nat /\ b.words \in Nat
      /\ Len(b.buffer) \in Nat
  BY <1>2, ReaderIs
<1>4. S = e - Len(b.buffer) + b.words_read * WordBits
  BY DEF WordStart
<1> HIDE DEF S
<1>5. d = IF crcFrom = Reader!None THEN <<>> ELSE Slice(f, S + b.align, S + WordBits)
  <2>1. SubSeq(Slice(f, S, S + WordBits), b.align + 1, WordBits) = Slice(f, S + b.align, S + WordBits)
    <3>1. PICK k \in Nat : k = S + WordBits
      BY <1>2, BitSizes
    <3>2. /\ S \in Nat /\ S <= k /\ k <= Len(f) /\ b.align \in Nat /\ b.align <= WordBits
          /\ WordBits <= k - S /\ WordBits \in Nat
      BY <1>2, <1>3, <3>1, BitSizes
    <3>3. Slice(Slice(f, S, k), b.align, WordBits) = Slice(f, S + b.align, S + WordBits)
      BY <3>2, SliceOfSlice
    <3> QED BY <3>1, <3>3 DEF Slice
  <2> QED BY <1>2, <2>1 DEF Reader!Crcd
<1> HIDE DEF d
<1>6. /\ d \in Seq(Bit)
      /\ crcFrom # Reader!None =>
           crcFrom <= S + WordBits /\ b.crc \o d = Slice(f, crcFrom, S + WordBits)
  <2>1. CASE crcFrom = Reader!None
    BY <1>5, <2>1
  <2>2. CASE crcFrom # Reader!None
    <3>1. PICK a \in Nat : a = S + b.align
      BY <1>2, <1>3
    <3>2. PICK k \in Nat : k = S + WordBits
      BY <1>2, BitSizes
    <3>3. crcFrom \in Nat /\ crcFrom <= a /\ b.crc = Slice(f, crcFrom, a) /\ a <= k /\ k <= Len(f)
      BY <1>1, <1>2, <1>3, <2>2, <3>1, <3>2, BitSizes DEF Summed, S
    <3>4. d = Slice(f, a, k)
      BY <1>5, <2>2, <3>1, <3>2
    <3>5. d \in Seq(Bit)
      BY <3>3, <3>4, SliceIs
    <3>6. Slice(f, crcFrom, a) \o Slice(f, a, k) = Slice(f, crcFrom, k)
      BY <3>3, SlicesJoin
    <3>7. crcFrom <= k
      BY <3>3
    <3> QED BY <3>2, <3>3, <3>4, <3>5, <3>6, <3>7
  <2> QED BY <2>1, <2>2
<1>7. /\ y \in Readers /\ y.buffer = b.buffer /\ y.words = b.words /\ y.bytes = b.bytes
      /\ y.words_read = b.words_read /\ y.crc = b.crc \o d /\ y.align = 0
  <2>1. b.crc \o d \in Seq(Bit) /\ 0 \in 0 .. WordBits - 1
    BY <1>3, <1>6, ConcatProperties, BitSizes
  <2> DEFINE q == b.crc \o d
  <2>2. y = [b EXCEPT !.crc = q, !.align = 0]
    BY DEF Reader!WithCrc, d
  <2> HIDE DEF q, y
  <2>3. q \in Seq(Bit)
    BY <2>1 DEF q
  <2> QED BY <1>2, <2>1, <2>2, <2>3 DEF Readers, q
<1> HIDE DEF y
<1>8. /\ x \in Readers /\ x.buffer = b.buffer /\ x.words = b.words /\ x.bytes = b.bytes
      /\ x.words_read = b.words_read + 1 /\ x.bits_read = 0 /\ x.crc = b.crc \o d /\ x.align = 0
  <2>1. x = [y EXCEPT !.words_read = b.words_read + 1, !.bits_read = 0]
    BY <1>7 DEF Reader!NextWord
  <2>2. b.words_read + 1 \in Nat
    BY <1>3
  <2> DEFINE m == b.words_read + 1
  <2> HIDE DEF m, x
  <2>3. m \in Nat /\ x = [y EXCEPT !.words_read = m, !.bits_read = 0]
    BY <2>1, <2>2 DEF m
  <2> QED BY <1>7, <2>3 DEF Readers, m
<1> HIDE DEF x
<1>9. WordStart(x, e) = S + WordBits
  <2>1. (b.words_read + 1) * WordBits = b.words_read * WordBits + WordBits
    <3>1. PICK m \in Nat : m = b.words_read
      BY <1>3
    <3>2. (m + 1) * WordBits = m * WordBits + WordBits
      BY BitSizes
    <3> QED BY <3>1, <3>2
  <2>2. b.words_read * WordBits \in Nat
    BY <1>2, ReaderIs
  <2>3. WordStart(x, e) = e - Len(b.buffer) + (b.words_read + 1) * WordBits
    BY <1>8 DEF WordStart
  <2> DEFINE m == b.words_read * WordBits
  <2> HIDE DEF m
  <2>4. m \in Nat /\ WordStart(x, e) = e - Len(b.buffer) + (m + WordBits) /\ S = e - Len(b.buffer) + m
    BY <1>4, <2>1, <2>2, <2>3 DEF m
  <2> QED BY <1>3, <2>4, BitSizes
<1>10. BitAt(x, e) = S + WordBits
  BY <1>2, <1>8, <1>9, BitSizes DEF BitAt
<1>11. Buffered(x, e, f)
  <2>1. Width(x) \in Nat
    BY <1>8, ReaderIs, BitSizes DEF Width
  <2>2. 0 < WordBits /\ 0 <= Width(x)
    BY <2>1, BitSizes
  <2> QED BY <1>1, <1>2, <1>8, <2>2 DEF Buffered
<1>12. Summed(x, e, crcFrom, f)
  <2>1. S + WordBits + 0 = S + WordBits
    BY <1>2, BitSizes
  <2> QED BY <1>6, <1>8, <1>9, <2>1 DEF Summed
<1> QED BY <1>8, <1>9, <1>10, <1>11, <1>12 DEF S, x, y, Sound

\* Names for where the reader is, ...
Named(b, e, S, P, k, v) ==
  /\ S = WordStart(b, e) /\ P = BitAt(b, e) /\ k = b.bits_read /\ v = Width(b)
  /\ Reader!Held(b) = e - P

\* ... and how they go together.
Placed(b, e, f, S, P, k, v) ==
  /\ P = S + k /\ k <= v /\ k < WordBits /\ v <= WordBits /\ S + v <= e /\ e <= Len(f)
  /\ IF Reader!AtWholeWord(b) THEN v = WordBits ELSE v < WordBits /\ S + v = e

LEMMA Numbers ==
  ASSUME NEW f \in Seq(Bit), NEW e \in Nat, NEW b, Buffered(b, e, f)
  PROVE  \E S \in Nat, P \in Nat, k \in Nat, v \in Nat :
           /\ Named(b, e, S, P, k, v) /\ Placed(b, e, f, S, P, k, v)
           /\ Reader!HeadWord(b) = Slice(f, S, S + v)
<1> DEFINE S == WordStart(b, e)
           P == BitAt(b, e)
           k == b.bits_read
           v == Width(b)
<1>1. S \in Nat /\ P \in Nat /\ k \in Nat /\ v \in Nat
  BY BufferedIs
<1>2. Named(b, e, S, P, k, v) /\ Reader!HeadWord(b) = Slice(f, S, S + v)
  BY BufferedIs DEF Named
<1>3. Placed(b, e, f, S, P, k, v)
  BY BufferedIs DEF Placed
<1> HIDE DEF S, P, k, v
<1> QED BY <1>1, <1>2, <1>3

\* Bits of the word at which the reader is.
LEMMA HeadBits ==
  ASSUME NEW f \in Seq(Bit), NEW e \in Nat, NEW b, Buffered(b, e, f),
         NEW i \in Nat, NEW j \in Nat, i <= j, j <= Width(b)
  PROVE  /\ SubSeq(Reader!HeadWord(b), i + 1, j) = Slice(f, WordStart(b, e) + i, WordStart(b, e) + j)
         /\ Len(Reader!HeadWord(b)) = Width(b)
<1>1. PICK S \in Nat, P \in Nat, m \in Nat, v \in Nat :
        /\ Named(b, e, S, P, m, v) /\ Placed(b, e, f, S, P, m, v)
        /\ Reader!HeadWord(b) = Slice(f, S, S + v)
  BY Numbers
<1>2. PICK k \in Nat : k = S + v
  OBVIOUS
<1>3. S <= k /\ k <= Len(f) /\ j <= k - S /\ k - S = v
  <2>1. j <= v
    BY <1>1 DEF Named
  <2> QED BY <1>1, <1>2, <2>1 DEF Placed
<1>4. Slice(Slice(f, S, k), i, j) = Slice(f, S + i, S + j)
  BY <1>3, SliceOfSlice
<1>5. Len(Slice(f, S, k)) = k - S
  BY <1>3, SliceIs
<1> QED BY <1>1, <1>2, <1>3, <1>4, <1>5 DEF Slice, Named

\* FLAC__bitreader_read_raw_uint32 returns the bits behind where the reader is, and moves
\* it by as many.
LEMMA TakeIs ==
  ASSUME NEW f \in Seq(Bit), NEW e \in Nat, NEW b, Sound(b, e, crcFrom, f),
         crcFrom \in Nat \cup {Reader!None},
         NEW n \in Nat, n <= WordBits, n <= Reader!Held(b)
  PROVE  LET t == Reader!Take(b, n)
         IN  /\ Sound(t.rest, e, crcFrom, f) /\ BitAt(t.rest, e) = BitAt(b, e) + n
             /\ t.bits = Slice(f, BitAt(b, e), BitAt(b, e) + n)
             /\ t.bits \in Seq(Bit) /\ Len(t.bits) = n
<1> DEFINE t == Reader!Take(b, n)
<1>1. Buffered(b, e, f)
  BY DEF Sound
<1>2. PICK S \in Nat, P \in Nat, k \in Nat, v \in Nat :
        Named(b, e, S, P, k, v) /\ Placed(b, e, f, S, P, k, v)
  BY <1>1, Numbers
<1>3. PICK q \in Nat : q = P + n
  OBVIOUS
<1>4. P <= q /\ q <= e /\ q <= Len(f) /\ q - P = n
  <2>1. n <= e - P
    BY <1>2 DEF Named
  <2> QED BY <1>2, <1>3, <2>1 DEF Placed
<1>5. Slice(f, P, q) \in Seq(Bit) /\ Len(Slice(f, P, q)) = n
  BY <1>4, SliceIs
<1> SUFFICES Sound(t.rest, e, crcFrom, f) /\ BitAt(t.rest, e) = q /\ t.bits = Slice(f, P, q)
  BY <1>2, <1>3, <1>5 DEF Named
<1>6. CASE n = 0
  <2>1. t.rest = b /\ t.bits = <<>>
    BY <1>6 DEF Reader!Take
  <2>2. q = P /\ Slice(f, P, P) = <<>>
    BY <1>3, <1>6, SliceNone
  <2> HIDE DEF t
  <2> QED BY <1>2, <2>1, <2>2 DEF Named
<1>7. CASE n # 0 /\ ~ (Reader!AtWholeWord(b) /\ ~Reader!Within(b, n))
  <2>1. PICK m \in Nat : m = k + n
    OBVIOUS
  <2>2. t = Reader!TakeWithin(b, n)
    BY <1>7 DEF Reader!Take
  <2>3. /\ t.rest = [b EXCEPT !.bits_read = m]
        /\ t.bits = SubSeq(Reader!HeadWord(b), k + 1, m)
    <3> DEFINE y == [b EXCEPT !.bits_read = b.bits_read + n]
               c == SubSeq(Reader!HeadWord(b), b.bits_read + 1, b.bits_read + n)
    <3> HIDE DEF t
    <3>1. t = [rest |-> y, bits |-> c]
      BY <2>2 DEF Reader!TakeWithin
    <3>2. b.bits_read = k
      BY <1>2 DEF Named
    <3>3. y = [b EXCEPT !.bits_read = m] /\ c = SubSeq(Reader!HeadWord(b), k + 1, m)
      BY <2>1, <3>2
    <3> HIDE DEF y, c
    <3> QED BY <3>1, <3>3
  <2>4. k <= m /\ m < WordBits /\ m <= v /\ S + m = q
    <3>1. Reader!Within(b, n) <=> n < WordBits - k
      BY <1>2 DEF Reader!Within, Named
    <3>2. CASE Reader!AtWholeWord(b)
      <4>1. n < WordBits - k /\ v = WordBits
        BY <1>2, <1>7, <3>1, <3>2 DEF Placed
      <4> QED BY <1>2, <1>3, <2>1, <4>1, BitSizes DEF Placed
    <3>3. CASE ~Reader!AtWholeWord(b)
      <4>1. v < WordBits /\ S + v = e
        BY <1>2, <3>3 DEF Placed
      <4> QED BY <1>2, <1>3, <1>4, <2>1, <4>1, BitSizes DEF Placed
    <3> QED BY <3>2, <3>3
  <2> HIDE DEF t
  <2> DEFINE x == [b EXCEPT !.bits_read = m]
  <2>5. b.bits_read <= m /\ m <= Width(b)
    BY <1>2, <2>4 DEF Named
  <2>6. Sound(x, e, crcFrom, f) /\ BitAt(x, e) = WordStart(b, e) + m
    BY <2>4, <2>5, MoveIs
  <2>7. SubSeq(Reader!HeadWord(b), k + 1, m) = Slice(f, WordStart(b, e) + k, WordStart(b, e) + m)
    BY <1>1, <2>4, <2>5, HeadBits
  <2> HIDE DEF x
  <2> QED BY <1>2, <2>3, <2>4, <2>6, <2>7 DEF x, Named, Placed
<1>8. CASE n # 0 /\ Reader!AtWholeWord(b) /\ ~Reader!Within(b, n)
  <2> DEFINE next == Reader!NextWord(Reader!WithCrc(b))
             d == SubSeq(Reader!HeadWord(b), k + 1, WordBits)
  <2>1. t = Reader!TakeAcross(b, n)
    BY <1>8 DEF Reader!Take
  <2>2. v = WordBits /\ ~ (n < WordBits - k)
    BY <1>2, <1>8 DEF Reader!Within, Named, Placed
  <2>3. PICK over \in Nat : over = n - (WordBits - k)
    <3>1. n - (WordBits - k) \in Nat
      BY <1>2, <2>2, BitSizes DEF Placed
    <3> QED BY <3>1
  <2>4. PICK S2 \in Nat : S2 = S + WordBits
    BY BitSizes
  <2>5. over < WordBits /\ S2 + over = q /\ P <= S2 /\ S2 <= q
    BY <1>2, <1>3, <1>4, <2>2, <2>3, <2>4, BitSizes DEF Placed
  <2> DEFINE x == [next EXCEPT !.bits_read = over]
             g == SubSeq(Reader!HeadWord(next), 1, over)
  <2>6. t.rest = x /\ t.bits = d \o g
    <3> DEFINE o == n - (WordBits - b.bits_read)
    <3> DEFINE y == [next EXCEPT !.bits_read = o]
               c == SubSeq(Reader!HeadWord(b), b.bits_read + 1, WordBits)
                      \o SubSeq(Reader!HeadWord(next), 1, o)
    <3> HIDE DEF t
    <3>1. t = [rest |-> y, bits |-> c]
      BY <2>1 DEF Reader!TakeAcross
    <3>2. b.bits_read = k
      BY <1>2 DEF Named
    <3>3. o = over
      BY <2>3, <3>2
    <3> HIDE DEF next, o
    <3>4. y = x /\ c = d \o g
      BY <3>2, <3>3
    <3> HIDE DEF x, y, c, d, g
    <3> QED BY <3>1, <3>4
  <2> HIDE DEF t
  <2>7. Sound(next, e, crcFrom, f) /\ next.bits_read = 0 /\ WordStart(next, e) = S2
    BY <1>2, <1>8, <2>4, NextIs DEF Named
  <2> HIDE DEF next
  <2>8. Buffered(next, e, f)
    BY <2>7 DEF Sound
  <2>9. over <= Width(next)
    <3>1. PICK S3 \in Nat, P3 \in Nat, k3 \in Nat, v3 \in Nat :
            Named(next, e, S3, P3, k3, v3) /\ Placed(next, e, f, S3, P3, k3, v3)
      BY <2>8, Numbers
    <3>2. S3 = S2 /\ v3 = Width(next)
      BY <2>7, <3>1 DEF Named
    <3>3. v3 = WordBits \/ S2 + v3 = e
      BY <3>1, <3>2 DEF Placed
    <3>4. over <= v3
      BY <1>4, <2>5, <3>3, BitSizes
    <3> QED BY <3>2, <3>4
  <2>10. Sound(x, e, crcFrom, f) /\ BitAt(x, e) = q
    <3>1. next.bits_read <= over
      BY <2>7
    <3>2. Sound(x, e, crcFrom, f) /\ BitAt(x, e) = WordStart(next, e) + over
      BY <2>5, <2>7, <2>9, <3>1, MoveIs
    <3> HIDE DEF x
    <3> QED BY <2>5, <2>7, <3>2
  <2>11. d = Slice(f, P, S2)
    <3>1. WordBits \in Nat /\ k <= WordBits /\ WordBits <= Width(b)
      BY <1>2, <2>2, BitSizes DEF Named, Placed
    <3>2. d = Slice(f, WordStart(b, e) + k, WordStart(b, e) + WordBits)
      BY <1>1, <3>1, HeadBits
    <3> HIDE DEF d
    <3> QED BY <1>2, <2>4, <3>2 DEF Named, Placed
  <2>12. g = Slice(f, S2, q)
    <3>1. 0 \in Nat /\ 0 <= over /\ 0 + 1 = 1
      OBVIOUS
    <3>2. SubSeq(Reader!HeadWord(next), 0 + 1, over) =
            Slice(f, WordStart(next, e) + 0, WordStart(next, e) + over)
      BY <2>8, <2>9, <3>1, HeadBits
    <3>3. S2 + 0 = S2
      OBVIOUS
    <3> QED BY <2>5, <2>7, <3>1, <3>2, <3>3
  <2> HIDE DEF d, g, x
  <2>13. Slice(f, P, S2) \o Slice(f, S2, q) = Slice(f, P, q)
    BY <1>4, <2>5, SlicesJoin
  <2> QED BY <2>6, <2>10, <2>11, <2>12, <2>13
<1> QED BY <1>6, <1>7, <1>8

\* What is left of the word.
LEMMA UnreadIs ==
  ASSUME NEW f \in Seq(Bit), NEW e \in Nat, NEW b, Buffered(b, e, f)
  PROVE  LET u == Reader!Unread(b)
         IN  /\ u \in Seq(Bit) /\ Len(u) \in Nat /\ Len(u) = Width(b) - b.bits_read
             /\ Reader!ZerosRead(b) = Len(u)
             /\ \A i \in 1 .. Len(u) : u[i] = f[BitAt(b, e) + i]
<1> DEFINE u == Reader!Unread(b)
<1>1. PICK S \in Nat, P \in Nat, k \in Nat, v \in Nat :
        Named(b, e, S, P, k, v) /\ Placed(b, e, f, S, P, k, v)
  BY Numbers
<1>2. PICK q \in Nat : q = S + v
  OBVIOUS
<1>3. P <= q /\ q <= Len(f) /\ q - P = v - k
  BY <1>1, <1>2 DEF Placed
<1>4. /\ SubSeq(Reader!HeadWord(b), k + 1, v) = Slice(f, WordStart(b, e) + k, WordStart(b, e) + v)
      /\ Len(Reader!HeadWord(b)) = v
  <2>1. k <= v /\ v <= Width(b)
    BY <1>1 DEF Named, Placed
  <2>2. /\ SubSeq(Reader!HeadWord(b), k + 1, v) = Slice(f, WordStart(b, e) + k, WordStart(b, e) + v)
        /\ Len(Reader!HeadWord(b)) = Width(b)
    BY <2>1, HeadBits
  <2> QED BY <1>1, <2>2 DEF Named
<1>5. u = Slice(f, P, q)
  BY <1>1, <1>2, <1>4 DEF Reader!Unread, Named, Placed
<1>6. Reader!ZerosRead(b) = v - k
  BY <1>1, <1>4 DEF Reader!ZerosRead, Named
<1> HIDE DEF u
<1>7. /\ Slice(f, P, q) \in Seq(Bit) /\ Len(Slice(f, P, q)) = q - P
      /\ \A i \in 1 .. q - P : Slice(f, P, q)[i] = f[P + i]
  BY <1>3, SliceIs
<1>8. u \in Seq(Bit) /\ Len(u) = v - k /\ v - k \in Nat /\ \A i \in 1 .. Len(u) : u[i] = f[P + i]
  <2>1. q - P = v - k /\ v - k \in Nat
    BY <1>3
  <2> QED BY <1>5, <1>7, <2>1
<1> QED BY <1>1, <1>6, <1>8 DEF u, Named

\* A stop bit in the word: zeros up to it, and the reader goes behind it.
LEMMA StopIs ==
  ASSUME NEW f \in Seq(Bit), NEW e \in Nat, NEW b, Sound(b, e, crcFrom, f),
         crcFrom \in Nat \cup {Reader!None}, Reader!HasStop(Reader!Unread(b))
  PROVE  LET z == Reader!ZeroMSBs(Reader!Unread(b))
         IN  /\ z \in Nat /\ BitAt(b, e) + z + 1 <= e /\ f[BitAt(b, e) + z + 1] = 1
             /\ Zeros(f, BitAt(b, e), BitAt(b, e) + z)
             /\ Sound(Reader!Stopped(b), e, crcFrom, f)
             /\ BitAt(Reader!Stopped(b), e) = BitAt(b, e) + z + 1
<1> DEFINE u == Reader!Unread(b)
           x == Reader!Stopped(b)
<1>1. Buffered(b, e, f)
  BY DEF Sound
<1>2. PICK S \in Nat, P \in Nat, k \in Nat, v \in Nat :
        Named(b, e, S, P, k, v) /\ Placed(b, e, f, S, P, k, v)
  BY <1>1, Numbers
<1>3. u \in Seq(Bit) /\ Len(u) = v - k /\ \A i \in 1 .. Len(u) : u[i] = f[P + i]
  BY <1>1, <1>2, UnreadIs DEF Named
<1>4. PICK z \in Nat :
        /\ z = Reader!ZeroMSBs(u) /\ z < Len(u) /\ u[z + 1] = 1 /\ \A j \in 1 .. z : u[j] = 0
  BY <1>3, FirstStop
<1>5. PICK end \in Nat : end = k + z + 1
  OBVIOUS
<1>6. x = IF Reader!AtWholeWord(b) /\ end >= WordBits THEN Reader!NextWord(Reader!WithCrc(b))
          ELSE [b EXCEPT !.bits_read = end]
  BY <1>2, <1>4, <1>5 DEF Reader!Stopped, Named
<1> HIDE DEF u, x
<1>7. z < v - k
  BY <1>3, <1>4
<1>8. P + z + 1 <= e /\ f[P + z + 1] = 1
  <2>1. z + 1 \in 1 .. Len(u) /\ P + (z + 1) = P + z + 1 /\ P + z + 1 <= e
    <3>1. v - k \in Nat /\ z + 1 <= v - k /\ P + z + 1 <= e
      BY <1>2, <1>7 DEF Placed
    <3> QED BY <1>3, <3>1
  <2> QED BY <1>3, <1>4, <2>1
<1>9. Zeros(f, P, P + z)
  <2> SUFFICES ASSUME NEW i \in P + 1 .. P + z PROVE f[i] = 0
    BY DEF Zeros
  <2>1. PICK j \in 1 .. z : i = P + j
    <3>1. i - P \in 1 .. z /\ i = P + (i - P)
      OBVIOUS
    <3> QED BY <3>1
  <2>2. j \in 1 .. Len(u)
    <3>1. v - k \in Nat /\ j <= v - k
      BY <1>2, <1>7 DEF Placed
    <3> QED BY <1>3, <3>1
  <2> QED BY <1>3, <1>4, <2>1, <2>2
<1>10. k <= end /\ end <= v /\ S + end = P + z + 1
  BY <1>2, <1>5, <1>7 DEF Placed
<1>11. Sound(x, e, crcFrom, f) /\ BitAt(x, e) = P + z + 1
  <2>1. CASE Reader!AtWholeWord(b) /\ end >= WordBits
    <3> DEFINE y == Reader!NextWord(Reader!WithCrc(b))
    <3>1. Sound(y, e, crcFrom, f) /\ BitAt(y, e) = S + WordBits
      BY <1>2, <2>1, NextIs DEF Named
    <3> HIDE DEF y
    <3>2. x = y
      BY <1>6, <2>1 DEF y
    <3>3. end = WordBits
      BY <1>2, <1>10, <2>1, BitSizes DEF Placed
    <3> QED BY <1>10, <3>1, <3>2, <3>3
  <2>2. CASE ~ (Reader!AtWholeWord(b) /\ end >= WordBits)
    <3>1. x = [b EXCEPT !.bits_read = end]
      BY <1>6, <2>2
    <3>2. end < WordBits
      <4>1. CASE Reader!AtWholeWord(b)
        BY <2>2, <4>1, BitSizes
      <4>2. CASE ~Reader!AtWholeWord(b)
        <5>1. v < WordBits
          BY <1>2, <4>2 DEF Placed
        <5> QED BY <1>10, <5>1, BitSizes
      <4> QED BY <4>1, <4>2
    <3>3. b.bits_read <= end /\ end <= Width(b)
      BY <1>2, <1>10 DEF Named
    <3>4. Sound([b EXCEPT !.bits_read = end], e, crcFrom, f)
          /\ BitAt([b EXCEPT !.bits_read = end], e) = WordStart(b, e) + end
      BY <3>2, <3>3, MoveIs
    <3> QED BY <1>2, <1>10, <3>1, <3>4 DEF Named
  <2> QED BY <2>1, <2>2
<1> QED BY <1>2, <1>4, <1>8, <1>9, <1>11 DEF u, x, Named

\* None: zeros up to the end of the word, and the reader goes behind it, if it is at its
\* beginning or the word is complete.
LEMMA PassIs ==
  ASSUME NEW f \in Seq(Bit), NEW e \in Nat, NEW b, Sound(b, e, crcFrom, f),
         crcFrom \in Nat \cup {Reader!None}, ~Reader!HasStop(Reader!Unread(b))
  PROVE  LET z == Reader!ZerosRead(b)
             p == BitAt(b, e) + z
             x == Reader!Passed(b)
         IN  /\ z \in Nat /\ p <= e /\ Zeros(f, BitAt(b, e), p) /\ x \in Readers
             /\ Reader!AtWholeWord(b) \/ b.bits_read = 0 =>
                  Sound(x, e, crcFrom, f) /\ BitAt(x, e) = p
             /\ ~Reader!AtWholeWord(b) => p = e
<1> DEFINE u == Reader!Unread(b)
           x == Reader!Passed(b)
<1>1. Buffered(b, e, f) /\ b \in Readers
  BY DEF Sound, Buffered
<1>2. PICK S \in Nat, P \in Nat, k \in Nat, v \in Nat :
        Named(b, e, S, P, k, v) /\ Placed(b, e, f, S, P, k, v)
  BY <1>1, Numbers
<1>3. /\ u \in Seq(Bit) /\ Len(u) = v - k /\ \A i \in 1 .. Len(u) : u[i] = f[P + i]
      /\ Reader!ZerosRead(b) = v - k
  BY <1>1, <1>2, UnreadIs DEF Named
<1>4. \A i \in 1 .. Len(u) : u[i] = 0
  <2> TAKE i \in 1 .. Len(u)
  <2>1. u[i] \in Bit
    BY <1>3, ElementOfSeq
  <2>2. u[i] # 1
    BY DEF Reader!HasStop
  <2> QED BY <2>1, <2>2 DEF Bit
<1>5. PICK z \in Nat : z = v - k
  <2>1. v - k \in Nat
    BY <1>2 DEF Placed
  <2> QED BY <2>1
<1>6. P + z = S + v /\ P + z <= e
  BY <1>2, <1>5 DEF Placed
<1>7. Zeros(f, P, P + z)
  <2> HIDE DEF u
  <2> SUFFICES ASSUME NEW i \in P + 1 .. P + z PROVE f[i] = 0
    BY DEF Zeros
  <2>1. PICK j \in 1 .. z : i = P + j
    <3>1. i - P \in 1 .. z /\ i = P + (i - P)
      OBVIOUS
    <3> QED BY <3>1
  <2>2. j \in 1 .. Len(u)
    BY <1>3, <1>5
  <2> QED BY <1>3, <1>4, <2>1, <2>2
<1>8. CASE Reader!AtWholeWord(b)
  <2> DEFINE y == Reader!NextWord(Reader!WithCrc(b))
  <2>1. Sound(y, e, crcFrom, f) /\ BitAt(y, e) = S + WordBits
    BY <1>2, <1>8, NextIs DEF Named
  <2>2. x = y
    BY <1>8 DEF Reader!Passed
  <2> HIDE DEF y, x
  <2>3. x \in Readers
    BY <2>1, <2>2 DEF Sound, Buffered
  <2>4. BitAt(x, e) = P + z
    BY <1>2, <1>6, <1>8, <2>1, <2>2 DEF Placed
  <2> QED BY <1>2, <1>3, <1>5, <1>6, <1>7, <1>8, <2>1, <2>2, <2>3, <2>4 DEF x, Named
<1>9. CASE ~Reader!AtWholeWord(b)
  <2>1. v < WordBits /\ S + v = e /\ v = b.bytes * ByteBits
    BY <1>2, <1>9 DEF Named, Placed, Width
  <2>2. PICK m \in Nat : m = k + v
    OBVIOUS
  <2>3. x = [b EXCEPT !.bits_read = m]
    BY <1>2, <1>9, <2>1, <2>2 DEF Reader!Passed, Named
  <2> HIDE DEF x
  <2>4. x \in Readers
    BY <1>1, <2>3 DEF Readers
  <2>5. ASSUME k = 0 PROVE Sound(x, e, crcFrom, f) /\ BitAt(x, e) = P + z
    <3>1. b.bits_read <= m /\ m < WordBits /\ m <= Width(b) /\ S + m = P + z
      <4>1. k <= m /\ m < WordBits /\ m <= v /\ S + m = P + z
        BY <1>6, <2>1, <2>2, <2>5
      <4> QED BY <1>2, <4>1 DEF Named
    <3>2. Sound([b EXCEPT !.bits_read = m], e, crcFrom, f)
          /\ BitAt([b EXCEPT !.bits_read = m], e) = WordStart(b, e) + m
      BY <3>1, MoveIs
    <3> QED BY <1>2, <2>3, <3>1, <3>2 DEF Named
  <2>6. P + z = e
    BY <1>6, <2>1
  <2> QED BY <1>2, <1>3, <1>5, <1>7, <1>9, <2>4, <2>5, <2>6 DEF x, Named
<1> QED BY <1>8, <1>9

\* A whole word is skipped.
LEMMA SkipIs ==
  ASSUME NEW f \in Seq(Bit), NEW e \in Nat, NEW b, Sound(b, e, Reader!None, f),
         Reader!AtWholeWord(b), b.bits_read = 0
  PROVE  LET x == [b EXCEPT !.words_read = @ + 1]
         IN  /\ Sound(x, e, Reader!None, f) /\ BitAt(x, e) = BitAt(b, e) + WordBits
             /\ Reader!HeadWord(b) = Slice(f, BitAt(b, e), BitAt(b, e) + WordBits)
             /\ Reader!HeadWord(b) \in Seq(Bit) /\ Len(Reader!HeadWord(b)) = WordBits
<1> DEFINE x == [b EXCEPT !.words_read = b.words_read + 1]
<1>1. Buffered(b, e, f)
  BY DEF Sound
<1>2. /\ b \in Readers /\ b.words_read + 1 <= b.words
      /\ Reader!HeadWord(b) = Slice(f, WordStart(b, e), WordStart(b, e) + Width(b))
      /\ Width(b) = WordBits
  BY <1>1, BufferedIs
<1>3. PICK S \in Nat, P \in Nat, k \in Nat, v \in Nat :
        Named(b, e, S, P, k, v) /\ Placed(b, e, f, S, P, k, v)
  BY <1>1, Numbers
<1>4. k = 0 /\ P = S /\ v = WordBits
  <2>1. k = 0
    BY <1>3 DEF Named
  <2> QED BY <1>3, <2>1 DEF Placed
<1>5. Reader!HeadWord(b) = Slice(f, P, P + WordBits)
  BY <1>2, <1>3, <1>4 DEF Named
<1>6. Slice(f, P, P + WordBits) \in Seq(Bit) /\ Len(Slice(f, P, P + WordBits)) = WordBits
  <2>1. PICK q \in Nat : q = P + WordBits
    BY BitSizes
  <2>2. P <= q /\ q <= Len(f) /\ q - P = WordBits
    BY <1>3, <1>4, <2>1, BitSizes DEF Placed
  <2> QED BY <2>1, <2>2, SliceIs
<1>7. b.words_read \in Nat /\ b.words \in Nat /\ Len(b.buffer) \in Nat /\ b.words_read * WordBits \in Nat
  BY <1>2, ReaderIs
<1>8. /\ x \in Readers /\ x.buffer = b.buffer /\ x.words = b.words /\ x.bytes = b.bytes
      /\ x.words_read = b.words_read + 1 /\ x.bits_read = 0
  <2>1. PICK m \in Nat : m = b.words_read + 1
    BY <1>7
  <2>2. x = [b EXCEPT !.words_read = m]
    BY <2>1
  <2> HIDE DEF x
  <2> QED BY <1>2, <2>1, <2>2 DEF Readers
<1> HIDE DEF x
<1>9. WordStart(x, e) = S + WordBits
  <2>1. PICK m \in Nat : m = b.words_read
    BY <1>7
  <2>2. (m + 1) * WordBits = m * WordBits + WordBits /\ m * WordBits \in Nat
    BY BitSizes
  <2>3. PICK L \in Nat : L = Len(b.buffer)
    BY <1>7
  <2>4. WordStart(x, e) = e - L + (m * WordBits + WordBits) /\ S = e - L + m * WordBits
    BY <1>3, <1>8, <2>1, <2>2, <2>3 DEF WordStart, Named
  <2> DEFINE y == m * WordBits
  <2> HIDE DEF y
  <2>5. y \in Nat /\ WordStart(x, e) = e - L + (y + WordBits) /\ S = e - L + y
    BY <2>2, <2>4 DEF y
  <2> QED BY <2>5, BitSizes
<1>10. BitAt(x, e) = P + WordBits
  <2>1. BitAt(x, e) = S + WordBits + 0
    BY <1>8, <1>9 DEF BitAt
  <2> QED BY <1>4, <2>1, BitSizes
<1>11. Buffered(x, e, f)
  <2>1. Width(x) \in Nat
    BY <1>8, ReaderIs, BitSizes DEF Width
  <2>2. 0 < WordBits /\ 0 <= Width(x)
    BY <2>1, BitSizes
  <2> QED BY <1>1, <1>2, <1>8, <2>2 DEF Buffered
<1>12. Sound(x, e, Reader!None, f)
  BY <1>11 DEF Sound, Summed
<1> QED BY <1>3, <1>5, <1>6, <1>10, <1>12 DEF x, Named

\* What was read is shifted out, and the reader is where it was.
LEMMA ShiftIs ==
  ASSUME NEW f \in Seq(Bit), NEW e \in Nat, NEW c, NEW b, Sound(b, e, c, f)
  PROVE  LET x == Reader!Shifted(b)
         IN  /\ Sound(x, e, c, f) /\ BitAt(x, e) = BitAt(b, e)
             /\ x.words_read = 0 /\ x.words = b.words - b.words_read /\ x.bytes = b.bytes
<1> DEFINE x == Reader!Shifted(b)
           y == SubSeq(b.buffer, b.words_read * WordBits + 1, Len(b.buffer))
<1>1. /\ b \in Readers /\ b.words_read <= b.words
      /\ Len(b.buffer) = b.words * WordBits + b.bytes * ByteBits
      /\ Len(b.buffer) <= e /\ e <= Len(f) /\ b.buffer = Slice(f, e - Len(b.buffer), e)
      /\ b.bits_read < WordBits /\ b.bits_read <= Width(b)
  BY DEF Sound, Buffered
<1>2. PICK L \in Nat, m \in Nat, n \in Nat, t \in Nat :
        L = Len(b.buffer) /\ m = b.words_read /\ n = b.words /\ t = b.bytes * ByteBits
  BY <1>1, ReaderIs
<1>3. PICK d \in Nat : d = n - m
  <2>1. m <= n
    BY <1>1, <1>2
  <2>2. n - m \in Nat
    BY <2>1
  <2> QED BY <2>2
<1>4. PICK r \in Nat, g \in Nat, w \in Nat :
        r = m * WordBits /\ g = d * WordBits /\ w = n * WordBits /\ w = r + g
  <2>1. n = m + d
    BY <1>3
  <2>2. n * WordBits = m * WordBits + d * WordBits
    BY <2>1, BitSizes
  <2>3. n * WordBits \in Nat /\ m * WordBits \in Nat /\ d * WordBits \in Nat
    BY BitSizes
  <2> QED BY <2>2, <2>3
<1>5. L = w + t /\ L <= e /\ r <= L /\ e - L \in Nat
  <2>1. L = w + t /\ L <= e
    BY <1>1, <1>2, <1>4
  <2>2. w = r + g
    BY <1>4
  <2> QED BY <2>1, <2>2
<1>6. PICK a \in Nat, o \in Nat : a = e - L /\ o = e - L + r
  BY <1>5
<1>7. y = Slice(f, o, e) /\ y \in Seq(Bit) /\ Len(y) = L - r /\ e - (L - r) = o
  <2>1. a <= e /\ e <= Len(f) /\ r <= L /\ L <= e - a /\ a + r = o /\ a + L = e /\ o <= e /\ e - o = L - r
    BY <1>1, <1>5, <1>6
  <2>2. b.buffer = Slice(f, a, e) /\ y = Slice(b.buffer, r, L)
    BY <1>1, <1>2, <1>4, <1>6 DEF Slice
  <2> HIDE DEF y
  <2>3. Slice(Slice(f, a, e), r, L) = Slice(f, a + r, a + L)
    BY <2>1, SliceOfSlice
  <2>4. Slice(f, o, e) \in Seq(Bit) /\ Len(Slice(f, o, e)) = e - o
    BY <2>1, SliceIs
  <2>5. e - (L - r) = o
    BY <1>6
  <2> QED BY <2>1, <2>2, <2>3, <2>4, <2>5
<1>8. /\ x \in Readers /\ x.buffer = y /\ x.words = d /\ x.bytes = b.bytes /\ x.words_read = 0
      /\ x.bits_read = b.bits_read /\ x.crc = b.crc /\ x.align = b.align
  <2>1. b.words - b.words_read = d
    BY <1>2, <1>3
  <2>2. x = [b EXCEPT !.buffer = y, !.words = d, !.words_read = 0]
    BY <2>1 DEF Reader!Shifted
  <2> HIDE DEF x, y
  <2> QED BY <1>1, <1>7, <2>2 DEF Readers
<1> HIDE DEF x, y
<1>9. WordStart(x, e) = WordStart(b, e)
  <2>1. WordStart(x, e) = e - (L - r) + 0 * WordBits /\ WordStart(b, e) = e - L + r
    BY <1>2, <1>4, <1>7, <1>8 DEF WordStart
  <2>2. 0 * WordBits = 0
    BY BitSizes
  <2> QED BY <2>1, <2>2
<1>10. Reader!AtWholeWord(x) <=> Reader!AtWholeWord(b)
  <2>1. 0 < d <=> m < n
    BY <1>3
  <2> QED BY <1>2, <1>8, <2>1 DEF Reader!AtWholeWord
<1>11. Width(x) = Width(b)
  BY <1>8, <1>10 DEF Width
<1>12. Buffered(x, e, f)
  <2>1. 0 <= d /\ L - r = g + t /\ L - r <= e
    <3>1. w = r + g
      BY <1>4
    <3> QED BY <1>5, <3>1
  <2>2. e - (L - r) = o
    BY <1>6
  <2> QED BY <1>1, <1>2, <1>4, <1>7, <1>8, <1>11, <2>1, <2>2 DEF Buffered
<1>13. Summed(x, e, c, f)
  BY <1>8, <1>9 DEF Sound, Summed
<1> QED BY <1>2, <1>3, <1>8, <1>9, <1>12, <1>13 DEF Sound, BitAt, x

\* Bytes are put behind what is left, and the reader is where it was.
LEMMA FillIs ==
  ASSUME file \in Seq(Bit), fetched \in Nat, NEW c, NEW b, Sound(b, fetched * ByteBits, c, file),
         b.words_read = 0, NEW n \in Nat, (fetched + n) * ByteBits <= Len(file)
  PROVE  LET x == Reader!Filled(b, n)
         IN  /\ Sound(x, (fetched + n) * ByteBits, c, file)
             /\ BitAt(x, (fetched + n) * ByteBits) = BitAt(b, fetched * ByteBits)
<1> DEFINE x == Reader!Filled(b, n)
<1>1. PICK F \in Nat, e \in Nat, i \in Nat, e2 \in Nat, N \in Nat :
        /\ F = fetched /\ e = F * ByteBits /\ i = n * ByteBits /\ N = F + n
        /\ e2 = N * ByteBits /\ e2 = e + i
  <2>1. PICK F \in Nat : F = fetched
    OBVIOUS
  <2>2. PICK N \in Nat : N = F + n
    OBVIOUS
  <2>3. N * ByteBits = F * ByteBits + n * ByteBits
    BY <2>2, BitSizes
  <2>4. N * ByteBits \in Nat /\ F * ByteBits \in Nat /\ n * ByteBits \in Nat
    BY BitSizes
  <2> QED BY <2>1, <2>2, <2>3, <2>4
<1>2. /\ b \in Readers /\ Len(b.buffer) = b.words * WordBits + b.bytes * ByteBits
      /\ Len(b.buffer) <= e /\ e <= Len(file) /\ b.buffer = Slice(file, e - Len(b.buffer), e)
      /\ b.bits_read < WordBits /\ b.bits_read <= Width(b)
      /\ Summed(b, e, c, file)
  BY <1>1 DEF Sound, Buffered
<1>3. PICK L \in Nat, m \in Nat, t \in Nat, w \in Nat, u \in Nat :
        /\ L = Len(b.buffer) /\ m = b.words /\ t = b.bytes
        /\ w = m * WordBits /\ u = t * ByteBits /\ L = w + u /\ L <= e
  <2>1. PICK m \in Nat, t \in Nat : m = b.words /\ t = b.bytes
    BY <1>2, ReaderIs
  <2>2. m * WordBits \in Nat /\ t * ByteBits \in Nat
    BY BitSizes
  <2>3. Len(b.buffer) \in Nat
    BY <1>2, ReaderIs
  <2>4. Len(b.buffer) = m * WordBits + t * ByteBits
    BY <1>2, <2>1
  <2> QED BY <1>2, <2>1, <2>2, <2>3, <2>4
<1>4. PICK V \in Nat \ {0} : V = Reader!WordBytes /\ WordBits = V * ByteBits
  BY WordIsBytes
<1>5. PICK end \in Nat : end = m * V + t + n
  <2>1. m * V \in Nat
    OBVIOUS
  <2> QED BY <2>1
<1>6. PICK q \in Nat, r \in 0 .. V - 1 : q = end \div V /\ r = end % V /\ end = q * V + r
  <2> DEFINE q == end \div V
             r == end % V
  <2>1. q \in Int /\ r \in 0 .. V - 1 /\ end = q * V + r
    BY DivIs
  <2> HIDE DEF q, r
  <2>2. ~ (q <= -1)
    <3> SUFFICES ASSUME q <= -1 PROVE FALSE
      OBVIOUS
    <3>1. (-1 - q) * V >= 0 /\ (-1 - q) * V = -V - q * V
      BY <2>1
    <3>2. q * V \in Int
      BY <2>1
    <3> QED BY <2>1, <3>1, <3>2
  <2>3. q \in Nat
    BY <2>1, <2>2
  <2> QED BY <2>1, <2>3 DEF q, r
<1>7. L + i = q * WordBits + r * ByteBits
  <2>1. end * ByteBits = m * V * ByteBits + t * ByteBits + n * ByteBits
    BY <1>5, BitSizes
  <2>2. end * ByteBits = q * V * ByteBits + r * ByteBits
    BY <1>6, BitSizes
  <2>3. m * V * ByteBits = m * (V * ByteBits) /\ q * V * ByteBits = q * (V * ByteBits)
    BY BitSizes
  <2>4. w + u + i = q * WordBits + r * ByteBits
    BY <1>1, <1>3, <1>4, <2>1, <2>2, <2>3
  <2> QED BY <1>3, <2>4
<1>8. PICK a \in Nat : a = e - L
  BY <1>3
<1> DEFINE g == Slice(file, e, e2)
           buffer == b.buffer \o g
<1>9. /\ buffer = Slice(file, a, e2) /\ buffer \in Seq(Bit) /\ Len(buffer) = L + i
      /\ e2 - (L + i) = a /\ L + i <= e2 /\ e2 <= Len(file)
  <2>1. /\ a <= e /\ e <= e2 /\ e2 <= Len(file) /\ a <= e2 /\ e2 - a = L + i
        /\ e2 - (L + i) = a /\ L + i <= e2
    <3>1. e2 = e + i
      BY <1>1
    <3>2. L <= e
      BY <1>3
    <3>3. e2 <= Len(file)
      BY <1>1
    <3> QED BY <1>8, <3>1, <3>2, <3>3
  <2>2. Slice(file, a, e) \o Slice(file, e, e2) = Slice(file, a, e2)
    <3>1. a <= e /\ e <= e2 /\ e2 <= Len(file)
      BY <2>1
    <3> HIDE DEF buffer, g
    <3> QED BY ONLY <3>1, file \in Seq(Bit), a \in Nat, e \in Nat, e2 \in Nat, SlicesJoin
  <2>3. Slice(file, a, e2) \in Seq(Bit) /\ Len(Slice(file, a, e2)) = e2 - a
    BY <2>1, SliceIs
  <2>4. b.buffer = Slice(file, a, e)
    BY <1>2, <1>3, <1>8
  <2> QED BY <2>1, <2>2, <2>3, <2>4
<1>10. x = [b EXCEPT !.buffer = buffer, !.words = q, !.bytes = r]
  <2>1. g = SubSeq(file, fetched * ByteBits + 1, (fetched + n) * ByteBits)
    BY <1>1 DEF Slice
  <2>2. b.words * Reader!WordBytes + b.bytes + n = end
    BY <1>3, <1>4, <1>5
  <2> DEFINE d == b.words * Reader!WordBytes + b.bytes + n
             s == SubSeq(file, fetched * ByteBits + 1, (fetched + n) * ByteBits)
  <2>3. x = [b EXCEPT !.buffer = b.buffer \o s, !.words = d \div Reader!WordBytes,
                      !.bytes = d % Reader!WordBytes]
    BY DEF Reader!Filled
  <2>4. d = end /\ s = g
    BY <2>1, <2>2
  <2> HIDE DEF x, d, s, g
  <2> QED BY <1>4, <1>6, <2>3, <2>4
<1> HIDE DEF x, g, buffer
<1>11. /\ x \in Readers /\ x.buffer = buffer /\ x.words = q /\ x.bytes = r /\ x.words_read = 0
       /\ x.bits_read = b.bits_read /\ x.crc = b.crc /\ x.align = b.align
  <2>1. r \in 0 .. Reader!WordBytes - 1
    BY <1>4
  <2> QED BY <1>2, <1>9, <1>10, <2>1 DEF Readers
<1>12. WordStart(x, e2) = a /\ WordStart(b, e) = a
  <2>1. WordStart(x, e2) = e2 - (L + i) + 0 * WordBits /\ WordStart(b, e) = e - L + 0 * WordBits
    BY <1>3, <1>9, <1>11 DEF WordStart
  <2>2. 0 * WordBits = 0
    BY BitSizes
  <2> QED BY <1>8, <1>9, <2>1, <2>2
<1>13. b.bits_read <= Width(x)
  <2>1. CASE 0 < q
    <3>1. Width(x) = WordBits
      BY <1>11, <2>1 DEF Width, Reader!AtWholeWord
    <3>2. b.bits_read \in Nat
      BY <1>2, ReaderIs
    <3> QED BY <1>2, <3>1, <3>2, BitSizes
  <2>2. CASE ~ (0 < q)
    <3>1. end = r /\ end < V
      <4>1. q = 0
        BY <2>2
      <4> QED BY <1>6, <4>1
    <3>2. m = 0
      <4> SUFFICES ASSUME m # 0 PROVE FALSE
        OBVIOUS
      <4>1. (m - 1) * V >= 0 /\ (m - 1) * V = m * V - V
        OBVIOUS
      <4>2. m * V \in Nat
        OBVIOUS
      <4> QED BY <1>5, <3>1, <4>1, <4>2
    <3>3. r = t + n
      BY <1>5, <3>1, <3>2
    <3>4. Width(b) = u /\ Width(x) = r * ByteBits
      BY <1>3, <1>11, <2>2, <3>2 DEF Width, Reader!AtWholeWord
    <3>5. r * ByteBits = u + i
      <4>1. r * ByteBits = t * ByteBits + n * ByteBits
        BY <3>3, BitSizes
      <4> QED BY <1>1, <1>3, <4>1
    <3>6. b.bits_read \in Nat /\ b.bits_read <= u
      BY <1>2, <3>4, ReaderIs
    <3> QED BY <3>4, <3>5, <3>6
  <2> QED BY <2>1, <2>2
<1>14. Buffered(x, e2, file)
  <2>1. 0 <= q
    OBVIOUS
  <2> QED BY <1>2, <1>7, <1>9, <1>11, <1>13, <2>1 DEF Buffered
<1>15. Summed(x, e2, c, file)
  BY <1>2, <1>11, <1>12 DEF Summed
<1> QED BY <1>1, <1>11, <1>12, <1>14, <1>15 DEF Sound, BitAt, x

-----------------------------------------------------------------------------
(* The codes of what was read, in the file.                                *)

Calls ==
  [op : {"none", "raw", "unary", "rice", "skip"}, n : Nat, left : Nat, count : Nat,
   ucbits : Nat, step : {"scan", "refill", "binary"}]

Answers ==
  [op : {"none", "raw", "unary", "rice", "skip"}, n : Nat, ok : BOOLEAN, from : Nat,
   count : Nat, bits : Seq(Bit)]

\* Zeros that go on.
LEMMA ZerosJoin ==
  ASSUME NEW f, NEW a \in Nat, NEW b \in Nat, NEW c \in Nat, a <= b, b <= c,
         Zeros(f, a, b), Zeros(f, b, c)
  PROVE  Zeros(f, a, c)
<1> SUFFICES ASSUME NEW i \in a + 1 .. c PROVE f[i] = 0
  BY DEF Zeros
<1>1. i \in a + 1 .. b \/ i \in b + 1 .. c
  OBVIOUS
<1> QED BY <1>1 DEF Zeros

LEMMA ZerosNone == ASSUME NEW f, NEW a \in Nat PROVE Zeros(f, a, a)
BY DEF Zeros

\* z zeros from a to m, and a one up to q: ...
Coded(f, a, z, m, q) == m = a + z /\ q = m + 1 /\ Zeros(f, a, m) /\ f[q] = 1

\* ... a unary code.
LEMMA UnaryIs ==
  ASSUME NEW f \in Seq(Bit), NEW a \in Nat, NEW z \in Nat, NEW m \in Nat, NEW q \in Nat,
         Coded(f, a, z, m, q), q <= Len(f)
  PROVE  /\ NoBits(z) = Slice(f, a, m) /\ <<1>> = Slice(f, m, q)
         /\ UnaryCode(z) = Slice(f, a, q) /\ Len(UnaryCode(z)) = z + 1
<1>1. NoBits(z) \in Seq(Bit) /\ Len(NoBits(z)) = z /\ \A i \in 1 .. z : NoBits(z)[i] = 0
  BY ZerosAre
<1>2. /\ f \in Seq(Bit) /\ a \in Nat /\ m \in Nat /\ q \in Nat
      /\ a <= m /\ m <= Len(f) /\ m <= q /\ q <= Len(f)
      /\ m - a = z /\ q - m = 1 /\ m + 1 = q /\ f[q] = 1 /\ Zeros(f, a, m)
  BY DEF Coded
<1>3. /\ Slice(f, a, m) \in Seq(Bit) /\ Len(Slice(f, a, m)) = z
      /\ \A i \in 1 .. z : Slice(f, a, m)[i] = f[a + i]
  <2>1. /\ Slice(f, a, m) \in Seq(Bit) /\ Len(Slice(f, a, m)) = m - a
        /\ \A i \in 1 .. m - a : Slice(f, a, m)[i] = f[a + i]
    BY ONLY <1>2, SliceIs
  <2> QED BY <1>2, <2>1
<1>4. /\ Slice(f, m, q) \in Seq(Bit) /\ Len(Slice(f, m, q)) = 1
      /\ \A i \in 1 .. 1 : Slice(f, m, q)[i] = f[m + i]
  <2>1. /\ Slice(f, m, q) \in Seq(Bit) /\ Len(Slice(f, m, q)) = q - m
        /\ \A i \in 1 .. q - m : Slice(f, m, q)[i] = f[m + i]
    BY ONLY <1>2, SliceIs
  <2> QED BY <1>2, <2>1
<1>5. NoBits(z) = Slice(f, a, m)
  <2>1. \A i \in 1 .. z : NoBits(z)[i] = Slice(f, a, m)[i]
    <3> TAKE i \in 1 .. z
    <3>1. a + i \in a + 1 .. m
      BY <1>2
    <3>2. f[a + i] = 0
      BY <1>2, <3>1 DEF Zeros
    <3> QED BY <1>1, <1>3, <3>2
  <2> QED BY <1>1, <1>3, <2>1, SeqEqual
<1>6. <<1>> = Slice(f, m, q)
  <2>1. <<1>> \in Seq(Bit) /\ Len(<<1>>) = 1 /\ <<1>>[1] = 1
    BY CodesAre
  <2>2. Slice(f, m, q)[1] = 1
    <3>1. 1 \in 1 .. 1 /\ m + 1 = q
      BY <1>2
    <3> QED BY <1>2, <1>4, <3>1
  <2>3. \A i \in 1 .. 1 : <<1>>[i] = Slice(f, m, q)[i]
    BY <2>1, <2>2
  <2> QED BY <1>4, <2>1, <2>3, SeqEqual
<1>7. Slice(f, a, m) \o Slice(f, m, q) = Slice(f, a, q)
  <2>1. /\ f \in Seq(Bit) /\ a \in Nat /\ m \in Nat /\ q \in Nat
        /\ a <= m /\ m <= q /\ q <= Len(f)
    BY <1>2
  <2> QED BY ONLY <2>1, SlicesJoin
<1> QED BY <1>5, <1>6, <1>7, CodesAre DEF UnaryCode

\* With the binary part it is a Rice code.
LEMMA RiceIs ==
  ASSUME NEW f \in Seq(Bit), NEW a \in Nat, NEW z \in Nat, NEW m \in Nat, NEW q \in Nat,
         Coded(f, a, z, m, q),
         NEW r \in Nat, q <= r, r <= Len(f)
  PROVE  /\ RiceCode(z, Slice(f, q, r)) = Slice(f, a, r)
         /\ Len(RiceCode(z, Slice(f, q, r))) = r - a
<1>1. /\ f \in Seq(Bit) /\ a \in Nat /\ m \in Nat /\ q \in Nat /\ r \in Nat
      /\ q <= Len(f) /\ a <= m /\ m <= q /\ q <= r /\ m <= r /\ a <= r /\ r <= Len(f)
  BY DEF Coded
<1>2. NoBits(z) = Slice(f, a, m) /\ <<1>> = Slice(f, m, q)
  BY <1>1, UnaryIs
<1>3. Slice(f, m, q) \o Slice(f, q, r) = Slice(f, m, r)
  BY ONLY <1>1, SlicesJoin
<1>4. Slice(f, a, m) \o Slice(f, m, r) = Slice(f, a, r)
  BY ONLY <1>1, SlicesJoin
<1>5. Len(Slice(f, a, r)) = r - a
  BY ONLY <1>1, SliceIs
<1> QED BY <1>2, <1>3, <1>4, <1>5 DEF RiceCode

-----------------------------------------------------------------------------
(* The reader's inductive invariant.                                       *)

\* The bits of the call's own that the reader has behind it.
BehindOf(c) == IF c.step = "binary" THEN c.count + 1 ELSE c.count

\* What the bits are that a call has behind it, from a, and what it keeps of the buffer.
Counted(c, b, a, d, f) ==
  /\ c.op = "none" => c = Reader!NoCall
  /\ c.op \in {"raw", "skip"} => c.count = 0 /\ c.step = "scan"
  /\ c.op = "raw" => c.n <= WordBits
  /\ c.op = "skip" => c.n > 0 /\ d = Reader!None
  /\ c.op = "unary" => c.step # "binary"
  /\ c.op = "rice" =>
       /\ c.n < WordBits /\ c.left > 0
       /\ c.step = "binary" => c.ucbits = Reader!Held(b)
       /\ c.step # "binary" => c.ucbits = Reader!Held(b) + c.count
  /\ Zeros(f, a, a + c.count)
  /\ c.step = "refill" => Reader!Held(b) = 0
  /\ c.step = "binary" => f[a + c.count + 1] = 1

\* The reader is where the answers, and what the call has behind it, say.
InPlace(b, c, a, d, e, f) ==
  /\ Sound(b, e, d, f) /\ BitAt(b, e) = a + BehindOf(c)
  /\ Counted(c, b, a, d, f)

\* The answer of a call that failed, when e bits were fetched, ...
Failed(x, e, f) ==
  ~x.ok =>
    /\ e = Len(f)
    /\ x.op \in {"raw", "skip"} => x.from + x.n > Len(f)
    /\ x.op \in {"unary", "rice"} =>
         LET rest == Slice(f, x.from, Len(f))
         IN  Reader!HasStop(rest) =>
               x.op = "rice" /\ Reader!ZeroMSBs(rest) + 1 + x.n > Len(rest)

\* ... and of one that did not.
Returned(x, c, a, lost, f) ==
  x.op # "none" /\ x.ok /\ ~lost =>
    /\ x.from + Len(CodeOf(x)) <= Len(f)
    /\ CodeOf(x) = Slice(f, x.from, x.from + Len(CodeOf(x)))
    /\ x.op # "unary" => Len(x.bits) = x.n
    /\ c.op # "none" \/ a = x.from + Len(CodeOf(x))

\* The reader with w in its buffer, as it was before a failed call lost the tail.
Intact(b, w) == [b EXCEPT !.buffer = w]

Typed(b, c, x, a, lost, d, g) ==
  /\ b \in Readers /\ c \in Calls /\ x \in Answers
  /\ a \in Nat /\ g \in Nat /\ lost \in BOOLEAN /\ d \in Nat \cup {Reader!None}

\* All of it: br, call, answer, at, astray, crcFrom, fetched and file.
Kept(b, c, x, a, lost, d, g, f) ==
  /\ Typed(b, c, x, a, lost, d, g)
  /\ g * ByteBits <= Len(f)
  /\ lost => c.op \in {"unary", "rice"} /\ c.step = "refill"
  /\ x.ok /\ ~lost => InPlace(b, c, a, d, g * ByteBits, f)
  /\ ~x.ok => /\ ~lost /\ c = Reader!NoCall
              /\ \E w \in Seq(Bit) : InPlace(Intact(b, w), c, a, d, g * ByteBits, f)
  /\ Failed(x, g * ByteBits, f) /\ Returned(x, c, a, lost, f)

ReaderNow == Kept(br, call, answer, at, astray, crcFrom, fetched, file)

FileOfBytes == file \in Seq(Bit) /\ \E k \in Nat : Len(file) = k * ByteBits

ReaderInv ==
  /\ FileOfBytes /\ ReaderNow
  /\ phase \in {"write", "read"}
  /\ phase = "write" => file = <<>> /\ Reader!Init

-----------------------------------------------------------------------------
(* The reader: its steps.                                                  *)

\* Where the reader is: e bits were fetched, P of them are behind it.
At(e, P) ==
  /\ e = fetched * ByteBits /\ P = BitAt(br, e) /\ P = at + BehindOf(call)
  /\ Sound(br, e, crcFrom, file)

LEMMA PlaceIs ==
  ASSUME ReaderInv, ~astray, answer.ok
  PROVE  \E e \in Nat, P \in Nat :
           /\ At(e, P) /\ P <= e /\ e <= Len(file) /\ Reader!Held(br) = e - P
           /\ Counted(call, br, at, crcFrom, file)
           /\ Failed(answer, e, file) /\ Returned(answer, call, at, FALSE, file)
<1> DEFINE e == fetched * ByteBits
           P == BitAt(br, e)
<1>1. /\ file \in Seq(Bit) /\ fetched \in Nat /\ e <= Len(file)
      /\ InPlace(br, call, at, crcFrom, e, file)
      /\ Failed(answer, e, file) /\ Returned(answer, call, at, FALSE, file)
  BY DEF ReaderInv, FileOfBytes, ReaderNow, Kept, Typed
<1>2. e \in Nat
  BY <1>1, WordIsBytes
<1> HIDE DEF e
<1>3. Sound(br, e, crcFrom, file) /\ P = at + BehindOf(call)
      /\ Counted(call, br, at, crcFrom, file)
  BY <1>1 DEF InPlace
<1>4. Buffered(br, e, file)
  BY <1>3 DEF Sound
<1>5. PICK S \in Nat, Q \in Nat, k \in Nat, v \in Nat :
        Named(br, e, S, Q, k, v) /\ Placed(br, e, file, S, Q, k, v)
  BY <1>1, <1>2, <1>4, Numbers
<1>6. Q <= e
  BY <1>2, <1>5 DEF Placed
<1>7. P \in Nat /\ P <= e /\ Reader!Held(br) = e - P
  BY <1>5, <1>6 DEF Named
<1>8. At(e, P)
  BY <1>3 DEF At, e
<1> HIDE DEF P
<1> QED BY <1>1, <1>2, <1>3, <1>7, <1>8

\* n bits on.
Past(P, n, q) == q = P + n

\* The types.
LEMMA TypesAre ==
  ASSUME ReaderInv
  PROVE  /\ file \in Seq(Bit) /\ br \in Readers /\ call \in Calls /\ answer \in Answers
         /\ at \in Nat /\ fetched \in Nat /\ astray \in BOOLEAN
         /\ crcFrom \in Nat \cup {Reader!None}
         /\ call.n \in Nat /\ call.left \in Nat /\ call.count \in Nat /\ call.ucbits \in Nat
         /\ call.step \in {"scan", "refill", "binary"}
         /\ call.op \in {"none", "raw", "unary", "rice", "skip"}
         /\ BehindOf(call) \in Nat
<1>1. /\ file \in Seq(Bit) /\ br \in Readers /\ call \in Calls /\ answer \in Answers
      /\ at \in Nat /\ fetched \in Nat /\ astray \in BOOLEAN
      /\ crcFrom \in Nat \cup {Reader!None}
  BY DEF ReaderInv, FileOfBytes, ReaderNow, Kept, Typed
<1>2. /\ call.n \in Nat /\ call.left \in Nat /\ call.count \in Nat /\ call.ucbits \in Nat
      /\ call.step \in {"scan", "refill", "binary"}
      /\ call.op \in {"none", "raw", "unary", "rice", "skip"}
  BY <1>1 DEF Calls
<1>3. BehindOf(call) \in Nat
  BY <1>2 DEF BehindOf
<1> QED BY <1>1, <1>2, <1>3

\* How much is in the buffer, by where the reader is.
LEMMA HeldIs ==
  ASSUME NEW f \in Seq(Bit), NEW e \in Nat, NEW c, NEW b, Sound(b, e, c, f),
         NEW P \in Nat, BitAt(b, e) = P
  PROVE  Reader!Held(b) = e - P /\ P <= e /\ b \in Readers
<1>1. Buffered(b, e, f)
  BY DEF Sound
<1>2. PICK S \in Nat, Q \in Nat, k \in Nat, v \in Nat :
        Named(b, e, S, Q, k, v) /\ Placed(b, e, f, S, Q, k, v)
  BY <1>1, Numbers
<1>3. Q = P /\ Q <= e /\ Reader!Held(b) = e - Q
  <2>1. Q = P /\ Reader!Held(b) = e - Q
    BY <1>2 DEF Named
  <2>2. Q = S + k /\ k <= v /\ S + v <= e
    BY <1>2 DEF Placed
  <2>3. Q <= e
    BY ONLY <2>2, S \in Nat, Q \in Nat, k \in Nat, v \in Nat, e \in Nat
  <2> QED BY <2>1, <2>3
<1> QED BY <1>1, <1>3 DEF Buffered

\* No call.
LEMMA NoCallIs ==
  /\ Reader!NoCall \in Calls /\ Reader!NoCall.op = "none" /\ BehindOf(Reader!NoCall) = 0
  /\ \A b, d, f : \A a \in Nat : Counted(Reader!NoCall, b, a, d, f)
  /\ Reader!NoAnswer \in Answers /\ Reader!NoAnswer.ok
  /\ \A e, f, c, a, l : Failed(Reader!NoAnswer, e, f) /\ Returned(Reader!NoAnswer, c, a, l, f)
<1>1. /\ Reader!NoCall \in Calls /\ Reader!NoCall.op = "none" /\ Reader!NoCall.step = "scan"
      /\ Reader!NoCall.count = 0
  BY DEF Reader!NoCall, Calls
<1>2. ASSUME NEW b, NEW d, NEW f, NEW a \in Nat PROVE Counted(Reader!NoCall, b, a, d, f)
  <2>1. Zeros(f, a, a + 0)
    BY DEF Zeros
  <2> QED BY <1>1, <2>1 DEF Counted
<1>3. /\ Reader!NoAnswer \in Answers /\ Reader!NoAnswer.op = "none" /\ Reader!NoAnswer.ok
  BY DEF Reader!NoAnswer, Answers
<1>4. BehindOf(Reader!NoCall) = 0
  BY <1>1 DEF BehindOf
<1> QED BY <1>1, <1>2, <1>3, <1>4 DEF Failed, Returned

\* The last answer stays while a call is running.
LEMMA ReturnedStill ==
  ASSUME NEW x, NEW f, NEW a, NEW c, NEW b, Returned(x, c, a, FALSE, f), b.op # "none"
  PROVE  Returned(x, b, a, FALSE, f)
BY DEF Returned

\* Part of a call returns the n bits behind where the reader is.
LEMMA ReturnIs ==
  ASSUME ReaderInv, ~astray, answer.ok, NEW e \in Nat, NEW P \in Nat, At(e, P),
         Counted(call, br, at, crcFrom, file),
         call.op \in {"raw", "skip", "rice"}, call.op = "rice" => call.step = "binary",
         NEW n \in Nat, NEW q \in Nat, Past(P, n, q), q <= Len(file),
         NEW bits, bits = Slice(file, P, q), NEW next, Reader!Return(n, bits, next),
         next.op # "none" \/ next = Reader!NoCall
  PROVE  /\ answer' \in Answers /\ answer'.ok /\ at' = q /\ call' = next
         /\ Failed(answer', e, file) /\ Returned(answer', next, at', FALSE, file)
<1>1. /\ file \in Seq(Bit) /\ call \in Calls /\ at \in Nat /\ call.count \in Nat
      /\ BehindOf(call) \in Nat
  BY TypesAre
<1>2. bits \in Seq(Bit) /\ Len(bits) = n
  <2>1. P <= q /\ q - P = n
    BY DEF Past
  <2>2. Slice(file, P, q) \in Seq(Bit) /\ Len(Slice(file, P, q)) = q - P
    BY ONLY <1>1, <2>1, SliceIs, q \in Nat, P \in Nat, q <= Len(file)
  <2> QED BY <2>1, <2>2
<1> DEFINE x == [op |-> call.op, n |-> n, ok |-> TRUE, from |-> at, count |-> call.count,
                 bits |-> bits]
<1>3. answer' = x /\ call' = next /\ at' = at + Reader!Behind + Len(bits)
  BY DEF Reader!Return
<1>4. Reader!Behind = BehindOf(call)
  BY DEF Reader!Behind, BehindOf
<1>5. P = at + BehindOf(call)
  BY DEF At
<1>6. at' = q
  BY <1>1, <1>2, <1>3, <1>4, <1>5 DEF Past
<1>7. x \in Answers
  BY <1>1, <1>2 DEF Answers
<1>8. /\ x.ok = TRUE /\ x.op = call.op /\ x.from = at /\ x.n = n /\ x.bits = bits
      /\ x.count = call.count
  OBVIOUS
<1> HIDE DEF x
<1>9. CodeOf(x) = Slice(file, at, q) /\ Len(CodeOf(x)) = q - at /\ at <= q
  <2>1. CASE call.op \in {"raw", "skip"}
    <3>1. P = at
      BY <1>1, <1>5, <2>1 DEF Counted, BehindOf
    <3>2. CodeOf(x) = bits
      BY <1>8, <2>1 DEF CodeOf
    <3>3. q - at = n /\ at <= q
      BY <3>1 DEF Past
    <3> QED BY <1>2, <3>1, <3>2, <3>3
  <2>2. CASE call.op = "rice"
    <3>1. PICK z \in Nat, m \in Nat : z = call.count /\ m = at + z
      BY <1>1
    <3>2. P = m + 1
      BY <1>1, <1>5, <2>2, <3>1 DEF BehindOf
    <3>3. Zeros(file, at, m) /\ file[P] = 1
      BY <2>2, <3>1, <3>2 DEF Counted
    <3>4. Coded(file, at, z, m, P)
      BY <3>1, <3>2, <3>3 DEF Coded
    <3>5. P <= q /\ at <= q
      <4>1. PICK a \in Nat : a = at
        BY <1>1
      <4>2. m = a + z
        BY <3>1, <4>1
      <4>3. a <= q /\ P <= q
        BY <3>2, <4>2 DEF Past
      <4> QED BY <4>1, <4>3
    <3>6. /\ RiceCode(z, Slice(file, P, q)) = Slice(file, at, q)
          /\ Len(RiceCode(z, Slice(file, P, q))) = q - at
      BY ONLY <1>1, <3>4, <3>5, RiceIs, z \in Nat, m \in Nat, P \in Nat, q \in Nat, q <= Len(file)
    <3>7. CodeOf(x) = RiceCode(z, bits)
      BY <1>8, <2>2, <3>1 DEF CodeOf
    <3> QED BY <3>5, <3>6, <3>7
  <2> QED BY <2>1, <2>2
<1>10. Returned(x, next, q, FALSE, file)
  <2>1. at + Len(CodeOf(x)) = q
    BY <1>1, <1>9
  <2> QED BY <1>2, <1>8, <1>9, <2>1 DEF Returned
<1>11. Failed(x, e, file)
  BY <1>8 DEF Failed
<1> QED BY <1>3, <1>6, <1>7, <1>8, <1>10, <1>11

\* What a step must show that fetches nothing.
LEMMA StillKept ==
  ASSUME ReaderInv, ~astray, answer.ok, NEW e \in Nat, NEW P \in Nat, At(e, P), e <= Len(file),
         UNCHANGED <<astray, crcFrom, fetched>>,
         at' \in Nat, call' \in Calls, answer' \in Answers, answer'.ok,
         Sound(br', e, crcFrom, file), BitAt(br', e) = at' + BehindOf(call'),
         Counted(call', br', at', crcFrom, file),
         Failed(answer', e, file), Returned(answer', call', at', FALSE, file)
  PROVE  Kept(br', call', answer', at', astray', crcFrom', fetched', file)
<1>1. /\ fetched \in Nat /\ crcFrom \in Nat \cup {Reader!None}
      /\ astray' = FALSE /\ crcFrom' = crcFrom /\ fetched' = fetched
  <2>1. fetched \in Nat /\ crcFrom \in Nat \cup {Reader!None} /\ astray \in BOOLEAN
    BY TypesAre
  <2>2. astray' = astray /\ crcFrom' = crcFrom /\ fetched' = fetched
    OBVIOUS
  <2> QED BY <2>1, <2>2
<1>2. fetched * ByteBits = e
  BY DEF At
<1>3. br' \in Readers
  BY DEF Sound, Buffered
<1>4. Typed(br', call', answer', at', FALSE, crcFrom, fetched)
  BY <1>1, <1>3 DEF Typed
<1>5. InPlace(br', call', at', crcFrom, e, file)
  BY DEF InPlace
<1>6. Kept(br', call', answer', at', FALSE, crcFrom, fetched, file)
  BY <1>2, <1>4, <1>5 DEF Kept
<1> QED BY <1>1, <1>6

\* Part of a call takes n bits, and next is what is left of the call.
LEMMA TookKeeps ==
  ASSUME ReaderInv, ~astray, answer.ok, UNCHANGED <<astray, crcFrom, fetched>>,
         call.op \in {"raw", "skip", "rice"}, call.op = "rice" => call.step = "binary",
         NEW n \in Nat, n <= WordBits, n <= Reader!Held(br),
         br' = Reader!Take(br, n).rest,
         NEW next \in Calls, Reader!Return(n, Reader!Take(br, n).bits, next),
         next.op # "none" \/ next = Reader!NoCall, BehindOf(next) = 0,
         \A b : \A a \in Nat : Reader!Held(b) = Reader!Held(br) - n =>
                                 Counted(next, b, a, crcFrom, file)
  PROVE  Kept(br', call', answer', at', astray', crcFrom', fetched', file)
<1>1. PICK e \in Nat, P \in Nat :
        /\ At(e, P) /\ P <= e /\ e <= Len(file) /\ Reader!Held(br) = e - P
        /\ Counted(call, br, at, crcFrom, file)
  BY PlaceIs
<1>2. file \in Seq(Bit) /\ crcFrom \in Nat \cup {Reader!None}
  BY TypesAre
<1> DEFINE t == Reader!Take(br, n)
<1>3. br' = t.rest /\ Reader!Return(n, t.bits, next)
  OBVIOUS
<1>4. PICK q \in Nat : q = P + n
  OBVIOUS
<1>5. q <= e /\ q <= Len(file) /\ Reader!Held(br) - n = e - q
  <2>1. n <= e - P
    BY <1>1
  <2>2. q <= e /\ e - P - n = e - q
    BY <1>4, <2>1
  <2> QED BY <1>1, <2>2
<1>6. Sound(br, e, crcFrom, file) /\ P = BitAt(br, e)
  BY <1>1 DEF At
<1>7. /\ Sound(t.rest, e, crcFrom, file) /\ BitAt(t.rest, e) = q
      /\ t.bits = Slice(file, P, q)
  <2>1. LET s == Reader!Take(br, n)
        IN  /\ Sound(s.rest, e, crcFrom, file) /\ BitAt(s.rest, e) = BitAt(br, e) + n
            /\ s.bits = Slice(file, BitAt(br, e), BitAt(br, e) + n)
    BY <1>2, <1>6, TakeIs
  <2> QED BY <1>4, <1>6, <2>1
<1> HIDE DEF t
<1>8. /\ answer' \in Answers /\ answer'.ok /\ at' = q /\ call' = next
      /\ Failed(answer', e, file) /\ Returned(answer', next, at', FALSE, file)
  <2>1. PICK bits : bits = t.bits
    OBVIOUS
  <2>2. bits = Slice(file, P, q) /\ Reader!Return(n, bits, next)
    BY <1>3, <1>7, <2>1
  <2>3. /\ ReaderInv /\ ~astray /\ answer.ok /\ call.op \in {"raw", "skip", "rice"}
        /\ call.op = "rice" => call.step = "binary"
        /\ next.op # "none" \/ next = Reader!NoCall
        /\ At(e, P) /\ Counted(call, br, at, crcFrom, file)
        /\ n \in Nat /\ q \in Nat /\ e \in Nat /\ P \in Nat
        /\ q <= Len(file) /\ Past(P, n, q)
    BY <1>1, <1>4, <1>5 DEF Past
  <2> QED BY ONLY <2>2, <2>3, ReturnIs
<1>9. Sound(br', e, crcFrom, file) /\ BitAt(br', e) = q
  BY <1>3, <1>7
<1>10. Counted(next, br', q, crcFrom, file)
  <2>1. Reader!Held(br') = e - q
    BY ONLY <1>2, <1>9, HeldIs, e \in Nat, q \in Nat
  <2>2. Reader!Held(br') = Reader!Held(br) - n
    BY <1>5, <2>1
  <2> QED BY <2>2
<1>11. /\ at' \in Nat /\ call' \in Calls /\ Counted(call', br', at', crcFrom, file)
       /\ Returned(answer', call', at', FALSE, file)
  BY <1>8, <1>10
<1>12. BitAt(br', e) = at' + BehindOf(call')
  <2>1. q = q + 0
    OBVIOUS
  <2> QED BY <1>8, <1>9, <2>1
<1> QED BY <1>1, <1>8, <1>9, <1>11, <1>12, StillKept

LEMMA ReadRawKeeps ==
  ASSUME ReaderInv, ~astray, answer.ok, Reader!ReadRaw
  PROVE  Kept(br', call', answer', at', astray', crcFrom', fetched', file)
<1>1. PICK n \in Nat : n = call.n
  BY TypesAre
<1>2. /\ call.op = "raw" /\ Reader!Held(br) >= n
      /\ br' = Reader!Take(br, n).rest
      /\ Reader!Return(n, Reader!Take(br, n).bits, Reader!NoCall)
      /\ UNCHANGED <<astray, crcFrom, fetched>>
  BY <1>1 DEF Reader!ReadRaw
<1>3. n <= WordBits /\ n <= Reader!Held(br)
  <2>1. PICK e \in Nat, P \in Nat : Reader!Held(br) = e - P /\ Counted(call, br, at, crcFrom, file)
    BY PlaceIs
  <2>2. n <= WordBits
    BY <1>1, <1>2, <2>1 DEF Counted
  <2>3. e - P >= n
    BY <1>2, <2>1
  <2>4. n <= e - P
    BY <2>3
  <2> QED BY <2>1, <2>2, <2>4
<1> QED BY <1>2, <1>3, NoCallIs, TookKeeps

LEMMA ReadBinaryKeeps ==
  ASSUME ReaderInv, ~astray, answer.ok, Reader!ReadBinary
  PROVE  Kept(br', call', answer', at', astray', crcFrom', fetched', file)
<1> DEFINE more == [call EXCEPT !.left = @ - 1, !.count = 0, !.step = "scan",
                                !.ucbits = @ - call.n]
           next == IF call.left = 1 THEN Reader!NoCall ELSE more
<1>1. PICK n \in Nat, u \in Nat, l \in Nat : n = call.n /\ u = call.ucbits /\ l = call.left
  BY TypesAre
<1>2. /\ call.op = "rice" /\ call.step = "binary" /\ u >= n
      /\ br' = Reader!Take(br, n).rest
      /\ Reader!Return(n, Reader!Take(br, n).bits, next)
      /\ UNCHANGED <<astray, crcFrom, fetched>>
  BY <1>1 DEF Reader!ReadBinary
<1>3. Counted(call, br, at, crcFrom, file)
  BY PlaceIs
<1>4. n < WordBits /\ l > 0 /\ Reader!Held(br) = u
  BY <1>1, <1>2, <1>3 DEF Counted
<1>5. n <= WordBits /\ n <= Reader!Held(br)
  BY <1>2, <1>4, BitSizes
<1>6. ASSUME l # 1
      PROVE  /\ next \in Calls /\ next.op = "rice" /\ next.count = 0 /\ next.step = "scan"
             /\ next.ucbits = u - n /\ next.n = n /\ next.left > 0
  <2>1. l - 1 \in Nat /\ l - 1 > 0 /\ u - n \in Nat
    BY <1>2, <1>4, <1>6
  <2>2. call \in Calls
    BY TypesAre
  <2>3. next = more
    BY <1>1, <1>6
  <2>4. more = [call EXCEPT !.left = l - 1, !.count = 0, !.step = "scan", !.ucbits = u - n]
    BY <1>1
  <2> HIDE DEF next, more
  <2> QED BY <1>1, <1>2, <2>1, <2>2, <2>3, <2>4 DEF Calls
<1>7. ASSUME l = 1 PROVE next = Reader!NoCall
  BY <1>1, <1>7
<1> HIDE DEF next
<1>8. next \in Calls /\ (next.op # "none" \/ next = Reader!NoCall) /\ BehindOf(next) = 0
  BY <1>6, <1>7, NoCallIs DEF BehindOf
<1>9. ASSUME NEW b, NEW a \in Nat, Reader!Held(b) = Reader!Held(br) - n
      PROVE  Counted(next, b, a, crcFrom, file)
  <2>1. CASE l = 1
    BY <1>7, <2>1, NoCallIs
  <2>2. CASE l # 1
    <3>1. /\ next.op = "rice" /\ next.count = 0 /\ next.step = "scan"
          /\ next.ucbits = u - n /\ next.n = n /\ next.left > 0
      BY <1>6, <2>2
    <3>2. Zeros(file, a, a + 0)
      BY DEF Zeros
    <3>3. Reader!Held(b) = u - n /\ u - n = u - n + 0
      BY <1>4, <1>9
    <3>4. next.ucbits = Reader!Held(b) + next.count
      BY <3>1, <3>3
    <3>5. Zeros(file, a, a + next.count) /\ next.n < WordBits
      BY <1>4, <3>1, <3>2
    <3> QED BY <3>1, <3>4, <3>5 DEF Counted
  <2> QED BY <2>1, <2>2
<1> QED BY <1>2, <1>5, <1>8, <1>9, TookKeeps

\* The pieces in which bits are skipped.
LEMMA PieceIs ==
  ASSUME ReaderInv, NEW n \in Nat, n = call.n, n > 0
  PROVE  \E p \in Nat :
           /\ p = Reader!Piece /\ p <= n /\ p <= ByteBits /\ p <= WordBits
           /\ p = 0 => br.bits_read = 0 /\ WordBits <= n
<1>1. PICK k \in Nat : k = br.bits_read
  BY TypesAre, ReaderIs
<1>2. ByteBits \in Nat \ {0, 1} /\ WordBits \in Nat /\ ByteBits <= WordBits
  <2>1. PICK t \in Nat : t + ByteBits <= WordBits
    BY TypesAre, ReaderIs
  <2> QED BY <2>1, BitSizes
<1>3. PICK odd \in Nat : odd = k % ByteBits /\ odd < ByteBits
  <2>1. k % ByteBits \in 0 .. ByteBits - 1
    BY <1>2, DivIs
  <2>2. k % ByteBits \in Nat /\ k % ByteBits < ByteBits
    BY <1>2, <2>1
  <2> QED BY <2>2
<1> DEFINE p == Reader!Piece
<1>4. p = IF odd > 0 THEN IF n < ByteBits - odd THEN n ELSE ByteBits - odd
          ELSE IF n < ByteBits THEN n
          ELSE IF k > 0 \/ n < WordBits THEN ByteBits ELSE 0
  BY <1>1, <1>3 DEF Reader!Piece
<1> HIDE DEF p
<1>5. /\ p \in Nat /\ p <= n /\ p <= ByteBits /\ p <= WordBits
      /\ p = 0 => k = 0 /\ WordBits <= n
  BY <1>2, <1>3, <1>4
<1> QED BY <1>1, <1>5 DEF p

\* What is left of a call that skips.
LEMMA AfterSkipIs ==
  ASSUME ReaderInv, ~astray, answer.ok, call.op = "skip", NEW n \in Nat, n = call.n,
         NEW p \in Nat, p <= n, NEW h
  PROVE  LET next == Reader!AfterSkip(p)
         IN  /\ next \in Calls /\ (next.op # "none" \/ next = Reader!NoCall)
             /\ BehindOf(next) = 0
             /\ \A b : \A a \in Nat : h => Counted(next, b, a, crcFrom, file)
<1> DEFINE more == [call EXCEPT !.n = @ - p]
           next == Reader!AfterSkip(p)
<1>1. next = IF n = p THEN Reader!NoCall ELSE more
  BY DEF Reader!AfterSkip
<1>2. Counted(call, br, at, crcFrom, file) /\ call \in Calls
  BY PlaceIs, TypesAre
<1>3. call.count = 0 /\ call.step = "scan" /\ crcFrom = Reader!None
  BY <1>2 DEF Counted
<1>4. CASE n = p
  <2>1. next = Reader!NoCall
    BY <1>1, <1>4
  <2> HIDE DEF next
  <2> QED BY <2>1, NoCallIs DEF next
<1>5. CASE n # p
  <2>1. PICK m \in Nat : m = n - p /\ m > 0
    <3>1. n - p \in Nat /\ n - p > 0
      BY <1>5
    <3> QED BY <3>1
  <2>2. more = [call EXCEPT !.n = m]
    BY <2>1
  <2>3. next = more
    BY <1>1, <1>5
  <2> HIDE DEF next, more
  <2>4. /\ next \in Calls /\ next.op = "skip" /\ next.count = 0 /\ next.step = "scan"
        /\ next.n = m
    BY <1>2, <1>3, <2>2, <2>3 DEF Calls
  <2>5. ASSUME NEW b, NEW a \in Nat PROVE Counted(next, b, a, crcFrom, file)
    <3>1. Zeros(file, a, a + 0)
      BY DEF Zeros
    <3> QED BY <1>3, <2>1, <2>4, <3>1 DEF Counted
  <2> QED BY <2>4, <2>5 DEF BehindOf, next
<1> QED BY <1>4, <1>5

LEMMA SkipPieceKeeps ==
  ASSUME ReaderInv, ~astray, answer.ok, Reader!SkipPiece
  PROVE  Kept(br', call', answer', at', astray', crcFrom', fetched', file)
<1>1. PICK n \in Nat : n = call.n
  BY TypesAre
<1>2. call.op = "skip" /\ Reader!Piece > 0 /\ Reader!Held(br) >= Reader!Piece
  BY DEF Reader!SkipPiece
<1>3. n > 0
  <2>1. Counted(call, br, at, crcFrom, file)
    BY PlaceIs
  <2> QED BY <1>1, <1>2, <2>1 DEF Counted
<1>4. PICK p \in Nat : p = Reader!Piece /\ p <= n /\ p <= WordBits
  BY <1>1, <1>3, PieceIs
<1> DEFINE next == Reader!AfterSkip(p)
<1>5. /\ br' = Reader!Take(br, p).rest
      /\ Reader!Return(p, Reader!Take(br, p).bits, next)
      /\ UNCHANGED <<astray, crcFrom, fetched>>
  BY <1>4 DEF Reader!SkipPiece
<1>6. p <= Reader!Held(br)
  <2>1. PICK e \in Nat, P \in Nat : Reader!Held(br) = e - P
    BY PlaceIs
  <2>2. e - P >= p
    BY <1>2, <1>4, <2>1
  <2>3. p <= e - P
    BY <2>2
  <2> QED BY <2>1, <2>3
<1>7. /\ next \in Calls /\ (next.op # "none" \/ next = Reader!NoCall)
      /\ BehindOf(next) = 0
      /\ \A b : \A a \in Nat : TRUE => Counted(next, b, a, crcFrom, file)
  BY <1>1, <1>2, <1>4, AfterSkipIs
<1> HIDE DEF next
<1> QED BY <1>2, <1>4, <1>5, <1>6, <1>7, TookKeeps

LEMMA SkipWordKeeps ==
  ASSUME ReaderInv, ~astray, answer.ok, Reader!SkipWord
  PROVE  Kept(br', call', answer', at', astray', crcFrom', fetched', file)
<1>1. PICK n \in Nat : n = call.n
  BY TypesAre
<1>2. call.op = "skip" /\ Reader!Piece = 0 /\ Reader!AtWholeWord(br)
  BY DEF Reader!SkipWord
<1>3. PICK e \in Nat, P \in Nat :
        /\ At(e, P) /\ P <= e /\ e <= Len(file) /\ Reader!Held(br) = e - P
        /\ Counted(call, br, at, crcFrom, file)
  BY PlaceIs
<1>4. n > 0 /\ crcFrom = Reader!None
  BY <1>1, <1>2, <1>3 DEF Counted
<1>5. br.bits_read = 0 /\ WordBits <= n
  BY <1>1, <1>2, <1>4, PieceIs
<1>6. file \in Seq(Bit) /\ WordBits \in Nat
  BY TypesAre, BitSizes
<1>7. PICK w \in Nat, q \in Nat : w = WordBits /\ Past(P, w, q)
  BY <1>6 DEF Past
<1> DEFINE next == Reader!AfterSkip(WordBits)
           x == [br EXCEPT !.words_read = @ + 1]
           bits == Reader!HeadWord(br)
<1>8. br' = x /\ Reader!Return(w, bits, next) /\ UNCHANGED <<astray, crcFrom, fetched>>
  BY <1>7 DEF Reader!SkipWord
<1>9. /\ next \in Calls /\ (next.op # "none" \/ next = Reader!NoCall)
      /\ BehindOf(next) = 0
      /\ \A b : \A a \in Nat : TRUE => Counted(next, b, a, crcFrom, file)
  BY <1>1, <1>2, <1>5, <1>6, AfterSkipIs
<1>10. Sound(br, e, Reader!None, file) /\ P = BitAt(br, e)
  BY <1>3, <1>4 DEF At
<1>11. Sound(x, e, Reader!None, file) /\ BitAt(x, e) = q /\ bits = Slice(file, P, q)
  <2>1. /\ Sound(x, e, Reader!None, file) /\ BitAt(x, e) = BitAt(br, e) + WordBits
        /\ bits = Slice(file, BitAt(br, e), BitAt(br, e) + WordBits)
    BY <1>2, <1>5, <1>6, <1>10, SkipIs
  <2>2. q = BitAt(br, e) + WordBits
    BY <1>7, <1>10 DEF Past
  <2> HIDE DEF x, bits
  <2> QED BY <1>10, <2>1, <2>2
<1> HIDE DEF next, x, bits
<1>12. q <= Len(file)
  <2>1. q <= e
    BY <1>6, <1>11, HeldIs
  <2> QED BY <1>3, <2>1
<1>13. /\ answer' \in Answers /\ answer'.ok /\ at' = q /\ call' = next
       /\ Failed(answer', e, file) /\ Returned(answer', next, at', FALSE, file)
  <2>1. /\ ReaderInv /\ ~astray /\ answer.ok /\ call.op \in {"raw", "skip", "rice"}
        /\ call.op = "rice" => call.step = "binary"
        /\ next.op # "none" \/ next = Reader!NoCall
        /\ At(e, P) /\ Counted(call, br, at, crcFrom, file)
        /\ w \in Nat /\ q \in Nat /\ e \in Nat /\ P \in Nat
        /\ q <= Len(file) /\ Past(P, w, q) /\ bits = Slice(file, P, q)
        /\ Reader!Return(w, bits, next)
    BY <1>2, <1>3, <1>7, <1>8, <1>9, <1>11, <1>12
  <2> QED BY ONLY <2>1, ReturnIs
<1>14. /\ at' \in Nat /\ call' \in Calls /\ Counted(call', br', at', crcFrom, file)
       /\ Returned(answer', call', at', FALSE, file)
       /\ Sound(br', e, crcFrom, file) /\ BitAt(br', e) = q
  BY <1>4, <1>8, <1>9, <1>11, <1>13
<1>15. BitAt(br', e) = at' + BehindOf(call')
  <2>1. q = q + 0
    OBVIOUS
  <2> QED BY <1>9, <1>13, <1>14, <2>1
<1> QED BY <1>3, <1>8, <1>13, <1>14, <1>15, StillKept

\* What the fields of a call are that is changed.
LEMMA CallIs ==
  ASSUME ReaderInv, NEW k \in Nat, NEW u \in Nat, NEW s \in {"scan", "refill", "binary"}
  PROVE  LET x == [call EXCEPT !.count = k, !.ucbits = u, !.step = s]
         IN  /\ x \in Calls /\ x.op = call.op /\ x.n = call.n /\ x.left = call.left
             /\ x.count = k /\ x.ucbits = u /\ x.step = s
<1>1. call \in Calls
  BY TypesAre
<1> QED BY <1>1 DEF Calls

\* A call that scans has zeros behind it, up to where the reader is.
LEMMA ScanningIs ==
  ASSUME ReaderInv, ~astray, answer.ok, Reader!Scanning
  PROVE  \E e \in Nat, P \in Nat, h \in Nat, k \in Nat, u \in Nat :
           /\ At(e, P) /\ P <= e /\ e <= Len(file) /\ Sound(br, e, crcFrom, file)
           /\ P = BitAt(br, e) /\ Past(at, k, P) /\ Past(P, h, e) /\ h = Reader!Held(br)
           /\ k = call.count /\ u = call.ucbits
           /\ call.op = "rice" => u = h + k /\ call.n < WordBits /\ call.left > 0
           /\ Zeros(file, at, P)
           /\ Failed(answer, e, file) /\ Returned(answer, call, at, FALSE, file)
<1>1. PICK e \in Nat, P \in Nat :
        /\ At(e, P) /\ P <= e /\ e <= Len(file) /\ Reader!Held(br) = e - P
        /\ Counted(call, br, at, crcFrom, file)
        /\ Failed(answer, e, file) /\ Returned(answer, call, at, FALSE, file)
  BY PlaceIs
<1>2. PICK k \in Nat, u \in Nat : k = call.count /\ u = call.ucbits
  BY TypesAre
<1>3. call.op \in {"unary", "rice"} /\ call.step = "scan"
  BY DEF Reader!Scanning
<1>4. at \in Nat
  BY TypesAre
<1>5. P = at + k /\ Sound(br, e, crcFrom, file) /\ P = BitAt(br, e)
  BY <1>1, <1>2, <1>3 DEF At, BehindOf
<1>6. PICK h \in Nat : h = Reader!Held(br) /\ e = P + h
  <2>1. e - P \in Nat /\ e = P + (e - P)
    BY <1>1
  <2> QED BY <1>1, <2>1
<1>7. call.op = "rice" => u = h + k /\ call.n < WordBits /\ call.left > 0
  BY <1>1, <1>2, <1>3, <1>6 DEF Counted
<1>8. Zeros(file, at, P)
  BY <1>1, <1>2, <1>5 DEF Counted
<1>9. Past(at, k, P) /\ Past(P, h, e)
  BY <1>5, <1>6 DEF Past
<1> QED BY <1>1, <1>2, <1>5, <1>6, <1>7, <1>8, <1>9

LEMMA ScanZerosKeeps ==
  ASSUME ReaderInv, ~astray, answer.ok, Reader!ScanZeros
  PROVE  Kept(br', call', answer', at', astray', crcFrom', fetched', file)
<1>1. /\ Reader!Scanning /\ ~Reader!HasStop(Reader!Unread(br))
      /\ br' = Reader!Passed(br)
      /\ astray' = (~Reader!AtWholeWord(br) /\ br.bits_read > 0)
      /\ answer' = answer /\ at' = at /\ crcFrom' = crcFrom /\ fetched' = fetched
      /\ UNCHANGED <<answer, at, crcFrom, fetched>>
  BY DEF Reader!ScanZeros
<1>2. PICK e \in Nat, P \in Nat, h \in Nat, k \in Nat, u \in Nat :
        /\ At(e, P) /\ P <= e /\ e <= Len(file) /\ Sound(br, e, crcFrom, file)
        /\ P = BitAt(br, e) /\ Past(at, k, P) /\ Past(P, h, e) /\ h = Reader!Held(br)
        /\ k = call.count /\ u = call.ucbits
        /\ call.op = "rice" => u = h + k /\ call.n < WordBits /\ call.left > 0
        /\ Zeros(file, at, P)
        /\ Failed(answer, e, file) /\ Returned(answer, call, at, FALSE, file)
  BY <1>1, ScanningIs
<1>3. /\ file \in Seq(Bit) /\ crcFrom \in Nat \cup {Reader!None} /\ at \in Nat
      /\ answer \in Answers /\ fetched \in Nat
  BY TypesAre
<1>4. PICK z \in Nat, p \in Nat :
        /\ z = Reader!ZerosRead(br) /\ Past(P, z, p) /\ p <= e /\ Zeros(file, P, p)
        /\ br' \in Readers
        /\ Reader!AtWholeWord(br) \/ br.bits_read = 0 =>
             Sound(br', e, crcFrom, file) /\ BitAt(br', e) = p
        /\ ~Reader!AtWholeWord(br) => p = e
  <2>1. LET z == Reader!ZerosRead(br)
            p == BitAt(br, e) + z
            x == Reader!Passed(br)
        IN  /\ z \in Nat /\ p <= e /\ Zeros(file, BitAt(br, e), p) /\ x \in Readers
            /\ Reader!AtWholeWord(br) \/ br.bits_read = 0 =>
                 Sound(x, e, crcFrom, file) /\ BitAt(x, e) = p
            /\ ~Reader!AtWholeWord(br) => p = e
    BY <1>1, <1>2, <1>3, PassIs
  <2>2. Reader!ZerosRead(br) \in Nat /\ P + Reader!ZerosRead(br) \in Nat
    BY <2>1
  <2> QED BY <1>1, <1>2, <2>1, <2>2 DEF Past
<1> DEFINE s == IF Reader!AtWholeWord(br) THEN "scan" ELSE "refill"
<1>5. PICK m \in Nat : Past(k, z, m)
  BY DEF Past
<1>6. call' = [call EXCEPT !.count = m, !.ucbits = u, !.step = s]
  <2>1. call' = [call EXCEPT !.count = m, !.step = s]
    BY <1>2, <1>4, <1>5 DEF Reader!ScanZeros, Past
  <2>2. call \in Calls /\ u = call.ucbits
    BY <1>2, TypesAre
  <2> HIDE DEF s
  <2> QED BY <2>1, <2>2 DEF Calls
<1>7. /\ call' \in Calls /\ call'.op = call.op /\ call'.n = call.n /\ call'.left = call.left
      /\ call'.count = m /\ call'.ucbits = u /\ call'.step = s
  <2>1. s \in {"scan", "refill", "binary"}
    OBVIOUS
  <2>2. call \in Calls
    BY TypesAre
  <2> HIDE DEF s
  <2> QED BY <1>6, <2>1, <2>2 DEF Calls
<1>8. call.op \in {"unary", "rice"}
  BY <1>1 DEF Reader!Scanning
<1>9. Past(at, m, p) /\ Zeros(file, at, p)
  <2>1. at <= P /\ P <= p /\ Past(at, m, p)
    <3>1. PICK a \in Nat : a = at
      BY <1>3
    <3>2. Past(a, k, P) /\ Past(P, z, p) /\ Past(k, z, m)
      BY <1>2, <1>4, <1>5, <3>1
    <3>3. a <= P /\ P <= p /\ Past(a, m, p)
      BY ONLY <3>2, a \in Nat, k \in Nat, P \in Nat, z \in Nat, p \in Nat, m \in Nat DEF Past
    <3> QED BY <3>1, <3>3
  <2> QED BY <1>2, <1>3, <1>4, <2>1, ZerosJoin
<1>10. Returned(answer, call', at, FALSE, file)
  BY <1>2, <1>7, <1>8, ReturnedStill
<1>11. CASE Reader!AtWholeWord(br) \/ br.bits_read = 0
  <2>1. Sound(br', e, crcFrom, file) /\ BitAt(br', e) = p
    BY <1>4, <1>11
  <2>2. Reader!Held(br') = e - p
    BY ONLY <1>3, <2>1, HeldIs, e \in Nat, p \in Nat
  <2>3. astray' = FALSE
    <3>1. ~ (~Reader!AtWholeWord(br) /\ br.bits_read > 0)
      BY <1>11
    <3> QED BY <1>1, <3>1
  <2>4. BehindOf(call') = m
    BY <1>7 DEF BehindOf
  <2>5. BitAt(br', e) = at' + BehindOf(call')
    BY <1>1, <1>9, <2>1, <2>4 DEF Past
  <2>6. Zeros(file, at, at + m)
    BY <1>9 DEF Past
  <2>7. call.op = "rice" => u = e - p + m
    <3>1. Past(P, h, e) /\ Past(P, z, p) /\ Past(k, z, m)
      BY <1>2, <1>4, <1>5
    <3>2. h + k = e - p + m
      BY ONLY <3>1, h \in Nat, e \in Nat, k \in Nat, P \in Nat, z \in Nat, p \in Nat, m \in Nat
        DEF Past
    <3> QED BY <1>2, <3>2
  <2>8. ~Reader!AtWholeWord(br) => e - p = 0
    BY <1>4
  <2>9. Counted(call', br', at', crcFrom, file)
    <3>1. s = "scan" \/ (s = "refill" /\ Reader!Held(br') = 0)
      BY <2>2, <2>8
    <3> HIDE DEF s
    <3> QED BY <1>1, <1>2, <1>7, <1>8, <2>2, <2>6, <2>7, <3>1 DEF Counted
  <2>10. astray' = astray
    <3>1. astray \in BOOLEAN
      BY TypesAre
    <3> QED BY <2>3, <3>1
  <2> QED BY <1>1, <1>2, <1>3, <1>7, <1>10, <2>1, <2>5, <2>9, <2>10, StillKept
<1>12. CASE ~ (Reader!AtWholeWord(br) \/ br.bits_read = 0)
  <2>1. call'.step = "refill" /\ call'.op \in {"unary", "rice"}
    BY <1>7, <1>8, <1>12
  <2>2. br.bits_read \in Nat
    BY TypesAre, ReaderIs
  <2>3. astray' = TRUE
    <3>1. ~Reader!AtWholeWord(br) /\ br.bits_read > 0
      BY <1>12, <2>2
    <3> QED BY <1>1, <3>1
  <2>4. Typed(br', call', answer, at, TRUE, crcFrom, fetched)
    BY <1>3, <1>4, <1>7 DEF Typed
  <2>5. fetched * ByteBits = e
    BY <1>2 DEF At
  <2>6. Returned(answer, call', at, TRUE, file)
    BY DEF Returned
  <2>7. Kept(br', call', answer, at, TRUE, crcFrom, fetched, file)
    BY <1>2, <2>1, <2>4, <2>5, <2>6 DEF Kept
  <2> QED BY <1>1, <2>3, <2>7
<1> QED BY <1>11, <1>12

LEMMA ScanEndsKeeps ==
  ASSUME ReaderInv, ~astray, answer.ok, Reader!ScanEnds
  PROVE  Kept(br', call', answer', at', astray', crcFrom', fetched', file)
<1>1. /\ Reader!Scanning /\ ~Reader!AtWholeWord(br) /\ br.bytes = 0
      /\ call' = [call EXCEPT !.step = "refill"]
      /\ br' = br /\ answer' = answer /\ at' = at
      /\ UNCHANGED <<astray, crcFrom, fetched>>
  BY DEF Reader!ScanEnds
<1>2. PICK e \in Nat, P \in Nat, h \in Nat, k \in Nat, u \in Nat :
        /\ At(e, P) /\ P <= e /\ e <= Len(file) /\ Sound(br, e, crcFrom, file)
        /\ P = BitAt(br, e) /\ Past(at, k, P) /\ Past(P, h, e) /\ h = Reader!Held(br)
        /\ k = call.count /\ u = call.ucbits
        /\ call.op = "rice" => u = h + k /\ call.n < WordBits /\ call.left > 0
        /\ Zeros(file, at, P)
        /\ Failed(answer, e, file) /\ Returned(answer, call, at, FALSE, file)
  BY <1>1, ScanningIs
<1>3. /\ file \in Seq(Bit) /\ at \in Nat /\ answer \in Answers /\ call \in Calls
  BY TypesAre
<1>4. /\ call' \in Calls /\ call'.op = call.op /\ call'.n = call.n /\ call'.left = call.left
      /\ call'.count = k /\ call'.ucbits = u /\ call'.step = "refill"
  BY <1>1, <1>2, <1>3 DEF Calls
<1>5. call.op \in {"unary", "rice"}
  BY <1>1 DEF Reader!Scanning
<1>6. h = 0
  <2>1. Buffered(br, e, file)
    BY <1>2 DEF Sound
  <2>2. PICK S \in Nat, Q \in Nat, j \in Nat, v \in Nat :
          Named(br, e, S, Q, j, v) /\ Placed(br, e, file, S, Q, j, v)
    BY <1>3, <2>1, Numbers
  <2>3. v = 0
    BY <1>1, <2>2, BitSizes DEF Named, Width
  <2>4. Q = S + j /\ j <= v /\ S + v = e
    BY <1>1, <2>2 DEF Placed
  <2>5. Q = e
    BY ONLY <2>3, <2>4, S \in Nat, Q \in Nat, j \in Nat, v \in Nat, e \in Nat
  <2>6. Past(Q, h, e)
    BY <1>2, <2>2 DEF Named
  <2> QED BY <2>5, <2>6 DEF Past
<1>7. Returned(answer, call', at, FALSE, file)
  BY <1>2, <1>4, <1>5, ReturnedStill
<1>8. Zeros(file, at, at + k)
  BY <1>2 DEF Past
<1>9. Counted(call', br', at', crcFrom, file)
  BY <1>1, <1>2, <1>4, <1>5, <1>6, <1>8 DEF Counted
<1>10. BehindOf(call') = k
  BY <1>4 DEF BehindOf
<1>11. BitAt(br', e) = at' + BehindOf(call')
  BY <1>1, <1>2, <1>10 DEF Past
<1> QED BY <1>1, <1>2, <1>3, <1>4, <1>7, <1>9, <1>11, StillKept

\* The stop bit is in the word: a unary code is complete.
LEMMA StoppedIs ==
  ASSUME ReaderInv, ~astray, answer.ok, Reader!Scanning, Reader!HasStop(Reader!Unread(br)),
         NEW e \in Nat, NEW P \in Nat, e <= Len(file), Sound(br, e, crcFrom, file),
         P = BitAt(br, e), NEW k \in Nat, Past(at, k, P), Zeros(file, at, P)
  PROVE  \E z \in Nat, p \in Nat, q \in Nat, m \in Nat :
           /\ z = Reader!ZeroMSBs(Reader!Unread(br)) /\ Past(k, z, m)
           /\ Coded(file, at, m, p, q) /\ q <= e /\ Past(P, z, p) /\ Past(at, m, p)
           /\ Past(p, 1, q)
           /\ Sound(Reader!Stopped(br), e, crcFrom, file) /\ BitAt(Reader!Stopped(br), e) = q
<1>1. file \in Seq(Bit) /\ at \in Nat /\ crcFrom \in Nat \cup {Reader!None}
  BY TypesAre
<1>2. LET z == Reader!ZeroMSBs(Reader!Unread(br))
      IN  /\ z \in Nat /\ BitAt(br, e) + z + 1 <= e /\ file[BitAt(br, e) + z + 1] = 1
          /\ Zeros(file, BitAt(br, e), BitAt(br, e) + z)
          /\ Sound(Reader!Stopped(br), e, crcFrom, file)
          /\ BitAt(Reader!Stopped(br), e) = BitAt(br, e) + z + 1
  BY <1>1, StopIs
<1>3. PICK z \in Nat : z = Reader!ZeroMSBs(Reader!Unread(br))
  BY <1>2
<1>4. PICK a \in Nat : a = at
  BY <1>1
<1>5. PICK p \in Nat, q \in Nat, m \in Nat : p = P + z /\ q = p + 1 /\ m = k + z
  OBVIOUS
<1>6. /\ q <= e /\ file[q] = 1 /\ Zeros(file, P, p)
      /\ Sound(Reader!Stopped(br), e, crcFrom, file) /\ BitAt(Reader!Stopped(br), e) = q
  <2>1. P + z + 1 = q /\ P + z = p
    BY <1>5
  <2> QED BY <1>2, <1>3, <2>1
<1>7. Past(k, z, m) /\ Past(P, z, p) /\ Past(p, 1, q)
  BY <1>5 DEF Past
<1>8. Past(a, k, P)
  BY <1>4
<1>9. p = a + m /\ a <= P /\ P <= p
  BY ONLY <1>7, <1>8, a \in Nat, k \in Nat, P \in Nat, z \in Nat, p \in Nat, m \in Nat, q \in Nat
    DEF Past
<1>10. Zeros(file, a, p)
  <2>1. Zeros(file, a, P)
    BY <1>4
  <2>2. a <= P /\ P <= p
    BY <1>9
  <2> QED BY ONLY <1>6, <2>1, <2>2, ZerosJoin, a \in Nat, P \in Nat, p \in Nat
<1>11. Coded(file, a, m, p, q) /\ Past(a, m, p)
  BY <1>5, <1>6, <1>9, <1>10 DEF Coded, Past
<1> QED BY <1>3, <1>4, <1>6, <1>7, <1>11

LEMMA StopUnaryKeeps ==
  ASSUME ReaderInv, ~astray, answer.ok, Reader!StopUnary
  PROVE  Kept(br', call', answer', at', astray', crcFrom', fetched', file)
<1> DEFINE u == Reader!Unread(br)
<1>1. /\ Reader!Scanning /\ call.op = "unary" /\ Reader!HasStop(u)
      /\ br' = Reader!Stopped(br)
      /\ answer' = [op |-> "unary", n |-> 0, ok |-> TRUE, from |-> at,
                    count |-> call.count + Reader!ZeroMSBs(u), bits |-> <<>>]
      /\ at' = at + call.count + Reader!ZeroMSBs(u) + 1
      /\ call' = Reader!NoCall
      /\ UNCHANGED <<astray, crcFrom, fetched>>
  BY DEF Reader!StopUnary
<1>2. PICK e \in Nat, P \in Nat, k \in Nat :
        /\ At(e, P) /\ P <= e /\ e <= Len(file) /\ Sound(br, e, crcFrom, file)
        /\ P = BitAt(br, e) /\ Past(at, k, P) /\ k = call.count /\ Zeros(file, at, P)
  BY <1>1, ScanningIs
<1>3. PICK z \in Nat, p \in Nat, q \in Nat, m \in Nat :
        /\ z = Reader!ZeroMSBs(u) /\ Past(k, z, m)
        /\ Coded(file, at, m, p, q) /\ q <= e /\ Past(P, z, p) /\ Past(at, m, p)
        /\ Past(p, 1, q)
        /\ Sound(Reader!Stopped(br), e, crcFrom, file) /\ BitAt(Reader!Stopped(br), e) = q
  BY <1>1, <1>2, StoppedIs
<1> HIDE DEF u
<1>4. file \in Seq(Bit) /\ at \in Nat
  BY TypesAre
<1>5. PICK a \in Nat : a = at
  BY <1>4
<1> DEFINE x == [op |-> "unary", n |-> 0, ok |-> TRUE, from |-> a, count |-> m, bits |-> <<>>]
<1>6. answer' = x /\ at' = q
  <2>1. call.count + Reader!ZeroMSBs(u) = m
    BY <1>2, <1>3 DEF Past
  <2>2. a + k + z + 1 = q
    <3>1. Past(a, m, p) /\ Past(k, z, m) /\ Past(p, 1, q)
      BY <1>3, <1>5
    <3> QED BY ONLY <3>1, a \in Nat, k \in Nat, z \in Nat, p \in Nat, m \in Nat, q \in Nat
      DEF Past
  <2> QED BY <1>1, <1>2, <1>3, <1>5, <2>1, <2>2
<1>7. /\ x \in Answers /\ x.op = "unary" /\ x.ok = TRUE /\ x.from = a /\ x.count = m
  BY DEF Answers
<1> HIDE DEF x
<1>8. q <= Len(file)
  BY <1>2, <1>3
<1>9. UnaryCode(m) = Slice(file, a, q) /\ Len(UnaryCode(m)) = m + 1
  <2>1. Coded(file, a, m, p, q)
    BY <1>3, <1>5
  <2> QED BY ONLY <1>4, <1>8, <2>1, UnaryIs, a \in Nat, m \in Nat, p \in Nat, q \in Nat
<1>10. a + (m + 1) = q
  <2>1. Past(a, m, p) /\ Past(p, 1, q)
    BY <1>3, <1>5
  <2> QED BY ONLY <2>1, a \in Nat, m \in Nat, p \in Nat, q \in Nat DEF Past
<1>11. Returned(x, Reader!NoCall, q, FALSE, file) /\ Failed(x, e, file)
  <2>1. CodeOf(x) = UnaryCode(m)
    BY <1>7 DEF CodeOf
  <2> QED BY <1>7, <1>8, <1>9, <1>10, <2>1 DEF Returned, Failed
<1>12. /\ at' \in Nat /\ call' \in Calls /\ answer' \in Answers
       /\ Counted(call', br', at', crcFrom, file) /\ Failed(answer', e, file)
       /\ Returned(answer', call', at', FALSE, file) /\ Sound(br', e, crcFrom, file)
  BY <1>1, <1>3, <1>6, <1>7, <1>11, NoCallIs
<1>13. BitAt(br', e) = at' + BehindOf(call')
  <2>1. q = q + 0
    OBVIOUS
  <2>2. BehindOf(call') = 0 /\ BitAt(br', e) = q
    BY <1>1, <1>3, NoCallIs
  <2> QED BY <1>6, <2>1, <2>2
<1> QED BY <1>1, <1>2, <1>12, <1>13, StillKept

LEMMA StopRiceKeeps ==
  ASSUME ReaderInv, ~astray, answer.ok, Reader!StopRice
  PROVE  Kept(br', call', answer', at', astray', crcFrom', fetched', file)
<1> DEFINE w == Reader!Unread(br)
<1>1. /\ Reader!Scanning /\ call.op = "rice" /\ Reader!HasStop(w)
      /\ br' = Reader!Stopped(br)
      /\ answer' = answer /\ at' = at
      /\ UNCHANGED <<astray, crcFrom, fetched>>
  BY DEF Reader!StopRice
<1>2. PICK e \in Nat, P \in Nat, h \in Nat, k \in Nat, u \in Nat :
        /\ At(e, P) /\ P <= e /\ e <= Len(file) /\ Sound(br, e, crcFrom, file)
        /\ P = BitAt(br, e) /\ Past(at, k, P) /\ Past(P, h, e) /\ h = Reader!Held(br)
        /\ k = call.count /\ u = call.ucbits
        /\ call.op = "rice" => u = h + k /\ call.n < WordBits /\ call.left > 0
        /\ Zeros(file, at, P)
        /\ Failed(answer, e, file) /\ Returned(answer, call, at, FALSE, file)
  BY <1>1, ScanningIs
<1>3. PICK z \in Nat, p \in Nat, q \in Nat, m \in Nat :
        /\ z = Reader!ZeroMSBs(w) /\ Past(k, z, m)
        /\ Coded(file, at, m, p, q) /\ q <= e /\ Past(P, z, p) /\ Past(at, m, p)
        /\ Past(p, 1, q)
        /\ Sound(Reader!Stopped(br), e, crcFrom, file) /\ BitAt(Reader!Stopped(br), e) = q
  BY <1>1, <1>2, StoppedIs
<1>4. file \in Seq(Bit) /\ at \in Nat /\ answer \in Answers /\ call \in Calls
  BY TypesAre
<1>5. Sound(br', e, crcFrom, file) /\ BitAt(br', e) = q
  BY <1>1, <1>3
<1>6. PICK g \in Nat : Past(q, g, e) /\ g = Reader!Held(br')
  <2>1. Reader!Held(br') = e - q
    BY ONLY <1>4, <1>5, HeldIs, e \in Nat, q \in Nat
  <2>2. e - q \in Nat /\ e = q + (e - q)
    BY <1>3
  <2> QED BY <2>1, <2>2 DEF Past
<1>7. u - m - 1 = g
  <2>1. Past(k, z, m) /\ Past(P, z, p) /\ Past(p, 1, q) /\ Past(q, g, e) /\ Past(P, h, e) /\ u = h + k
    BY <1>1, <1>2, <1>3, <1>6
  <2> QED BY ONLY <2>1, k \in Nat, z \in Nat, m \in Nat, P \in Nat, p \in Nat, q \in Nat,
                  g \in Nat, e \in Nat, h \in Nat, u \in Nat DEF Past
<1>8. call' = [call EXCEPT !.count = m, !.ucbits = g, !.step = "binary"]
  <2>1. call.count + Reader!ZeroMSBs(w) = m
    BY <1>2, <1>3 DEF Past
  <2>2. Reader!UcbitsLeft(m) = g
    BY <1>2, <1>7 DEF Reader!UcbitsLeft
  <2> DEFINE c == call.count + Reader!ZeroMSBs(w)
  <2>3. call' = [call EXCEPT !.count = c, !.ucbits = Reader!UcbitsLeft(c), !.step = "binary"]
    BY DEF Reader!StopRice
  <2> QED BY <2>1, <2>2, <2>3
<1> HIDE DEF w
<1>9. /\ call' \in Calls /\ call'.op = "rice" /\ call'.n = call.n /\ call'.left = call.left
      /\ call'.count = m /\ call'.ucbits = g /\ call'.step = "binary"
  BY <1>1, <1>4, <1>8 DEF Calls
<1>10. Returned(answer, call', at, FALSE, file)
  BY <1>2, <1>9, ReturnedStill
<1>11. Zeros(file, at, at + m) /\ file[at + m + 1] = 1 /\ at + (m + 1) = q
  <2>1. PICK a \in Nat : a = at
    BY <1>4
  <2>2. Zeros(file, a, p) /\ file[q] = 1 /\ Past(a, m, p) /\ Past(p, 1, q)
    BY <1>3, <2>1 DEF Coded
  <2>3. p = a + m /\ a + m + 1 = q /\ a + (m + 1) = q
    BY ONLY <2>2, a \in Nat, m \in Nat, p \in Nat, q \in Nat DEF Past
  <2>4. Zeros(file, a, a + m) /\ file[a + m + 1] = 1
    BY <2>2, <2>3
  <2> QED BY <2>1, <2>3, <2>4
<1>12. Counted(call', br', at', crcFrom, file)
  BY <1>1, <1>2, <1>6, <1>9, <1>11 DEF Counted
<1>13. BehindOf(call') = m + 1
  BY <1>9 DEF BehindOf
<1>14. BitAt(br', e) = at' + BehindOf(call')
  BY <1>1, <1>5, <1>11, <1>13
<1> QED BY <1>1, <1>2, <1>4, <1>5, <1>9, <1>10, <1>12, <1>14, StillKept

\* A call that wants more is running, and has less than a word.
LEMMA WantsMoreIs ==
  ASSUME ReaderInv, ~astray, answer.ok, Reader!WantsMore
  PROVE  /\ call.op # "none"
         /\ \E h \in Nat : h = Reader!Held(br) /\ h < WordBits
         /\ call.op = "raw" => Reader!Held(br) < call.n
         /\ call.op \in {"unary", "rice"} => call.step \in {"refill", "binary"}
         /\ call.op = "rice" /\ call.step = "binary" => Reader!Held(br) < call.n
         /\ call.op = "skip" => Reader!Held(br) < call.n
<1>1. PICK e \in Nat, P \in Nat :
        /\ At(e, P) /\ P <= e /\ e <= Len(file) /\ Reader!Held(br) = e - P
        /\ Counted(call, br, at, crcFrom, file)
  BY PlaceIs
<1>2. PICK h \in Nat : h = Reader!Held(br)
  <2>1. e - P \in Nat
    BY <1>1
  <2> QED BY <1>1, <2>1
<1>3. PICK n \in Nat : n = call.n
  BY TypesAre
<1>4. WordBits \in Nat \ {0, 1}
  BY BitSizes
<1>5. CASE call.op = "raw" /\ Reader!Held(br) < call.n
  <2>1. n <= WordBits /\ h < n
    BY <1>1, <1>2, <1>3, <1>5 DEF Counted
  <2>2. h < WordBits
    BY <1>4, <2>1
  <2> QED BY <1>2, <1>5, <2>2
<1>6. CASE call.op \in {"unary", "rice"} /\ call.step = "refill"
  <2>1. h = 0
    BY <1>1, <1>2, <1>6 DEF Counted
  <2>2. h < WordBits
    BY <1>4, <2>1
  <2> QED BY <1>2, <1>6, <2>2
<1>7. CASE call.op = "rice" /\ call.step = "binary" /\ call.ucbits < call.n
  <2>1. n < WordBits /\ h < n
    BY <1>1, <1>2, <1>3, <1>7 DEF Counted
  <2>2. h < WordBits
    BY <1>4, <2>1
  <2> QED BY <1>2, <1>3, <1>7, <2>1, <2>2
<1>8. CASE \/ call.op = "skip" /\ Reader!Piece > 0 /\ Reader!Held(br) < Reader!Piece
           \/ call.op = "skip" /\ Reader!Piece = 0 /\ ~Reader!AtWholeWord(br)
  <2>1. n > 0
    BY <1>1, <1>3, <1>8 DEF Counted
  <2>2. PICK p \in Nat :
          /\ p = Reader!Piece /\ p <= n /\ p <= WordBits
          /\ p = 0 => WordBits <= n
    BY <1>3, <2>1, PieceIs
  <2>3. (p > 0 /\ h < p) \/ (p = 0 /\ ~Reader!AtWholeWord(br))
    <3>1. CASE call.op = "skip" /\ Reader!Piece > 0 /\ Reader!Held(br) < Reader!Piece
      BY <1>2, <2>2, <3>1
    <3>2. CASE call.op = "skip" /\ Reader!Piece = 0 /\ ~Reader!AtWholeWord(br)
      BY <2>2, <3>2
    <3> QED BY <1>8, <3>1, <3>2
  <2>4. ASSUME ~Reader!AtWholeWord(br) PROVE h < WordBits
    <3>1. Buffered(br, e, file) /\ file \in Seq(Bit)
      BY <1>1, TypesAre DEF At, Sound
    <3>2. PICK S \in Nat, Q \in Nat, j \in Nat, v \in Nat :
            Named(br, e, S, Q, j, v) /\ Placed(br, e, file, S, Q, j, v)
      BY <3>1, Numbers
    <3>3. Q = S + j /\ v < WordBits /\ S + v = e
      BY <2>4, <3>2 DEF Placed
    <3>4. e - Q < WordBits
      BY ONLY <1>4, <3>3, S \in Nat, Q \in Nat, j \in Nat, v \in Nat, e \in Nat
    <3> QED BY <1>2, <3>2, <3>4 DEF Named
  <2>5. h < WordBits /\ h < n
    <3>1. CASE p > 0 /\ h < p
      BY <1>4, <2>2, <3>1
    <3>2. CASE p = 0 /\ ~Reader!AtWholeWord(br)
      <4>1. h < WordBits /\ WordBits <= n
        BY <2>2, <2>4, <3>2
      <4> QED BY <1>4, <4>1
    <3> QED BY <2>3, <3>1, <3>2
  <2> QED BY <1>2, <1>3, <1>8, <2>5
<1> QED BY <1>5, <1>6, <1>7, <1>8 DEF Reader!WantsMore

\* There is room for more: less than a word is left, in the words there are.
LEMMA SpaceIs ==
  ASSUME ReaderInv, ~astray, answer.ok, Reader!WantsMore
  PROVE  Reader!Space(Reader!Shifted(br)) >= 1
<1>1. PICK e \in Nat, P \in Nat : At(e, P) /\ Reader!Held(br) = e - P
  BY PlaceIs
<1>2. PICK h \in Nat : h = Reader!Held(br) /\ h < WordBits
  BY WantsMoreIs
<1> DEFINE x == Reader!Shifted(br)
<1>3. file \in Seq(Bit)
  BY TypesAre
<1>4. Sound(x, e, crcFrom, file) /\ BitAt(x, e) = P /\ x.words_read = 0
  BY <1>1, <1>3, ShiftIs DEF At
<1> HIDE DEF x
<1>5. Reader!Held(x) = h /\ x \in Readers
  BY <1>1, <1>2, <1>3, <1>4, HeldIs
<1>6. PICK w \in Nat, b \in Nat, k \in Nat :
        /\ w = x.words /\ b = x.bytes /\ k = x.bits_read /\ b <= Reader!WordBytes - 1
        /\ b * ByteBits \in Nat
  BY <1>5, ReaderIs
<1>7. k < WordBits /\ k <= Width(x)
  BY <1>4, <1>6 DEF Sound, Buffered
<1>8. h = w * WordBits + b * ByteBits - k
  <2>1. Reader!Held(x) = (w - 0) * WordBits + b * ByteBits - k
    BY <1>4, <1>6 DEF Reader!Held
  <2> QED BY <1>5, <2>1
<1>9. w <= 1
  <2> SUFFICES ASSUME w > 1 PROVE FALSE
    OBVIOUS
  <2>1. PICK d \in Nat : w = d + 2
    <3>1. w - 2 \in Nat /\ w = w - 2 + 2
      OBVIOUS
    <3> QED BY <3>1
  <2>2. w * WordBits = d * WordBits + WordBits + WordBits /\ d * WordBits \in Nat
    BY <2>1, BitSizes
  <2> DEFINE a == w * WordBits
             c == d * WordBits
             t == b * ByteBits
  <2>3. a = c + WordBits + WordBits /\ c \in Nat /\ t \in Nat /\ h = a + t - k
    BY <1>6, <1>8, <2>2
  <2> HIDE DEF a, c, t
  <2> QED BY <1>2, <1>7, <2>3, BitSizes
<1>10. ReaderCapacity \in Nat /\ ReaderCapacity >= 2
  BY ReaderAssumption
<1>11. PICK B \in Nat : B = Reader!WordBytes /\ b <= B - 1
  BY <1>6, WordIsBytes
<1>12. PICK f \in Nat : ReaderCapacity - w = f + 1
  <2>1. ReaderCapacity - w - 1 \in Nat /\ ReaderCapacity - w = ReaderCapacity - w - 1 + 1
    BY <1>9, <1>10
  <2> QED BY <2>1
<1>13. (f + 1) * B = f * B + B /\ f * B \in Nat
  OBVIOUS
<1>14. Reader!Space(x) = (f + 1) * B - b
  BY <1>6, <1>11, <1>12 DEF Reader!Space
<1> DEFINE g == f * B
<1>15. Reader!Space(x) = g + B - b /\ g \in Nat
  BY <1>13, <1>14
<1> HIDE DEF g
<1>16. g + B - b >= 1
  BY <1>11, <1>15
<1> QED BY <1>15, <1>16 DEF x

\* What is left of the file.
LEMMA BytesLeftIs ==
  ASSUME ReaderInv
  PROVE  \E k \in Nat, g \in Nat :
           /\ g = fetched /\ Len(file) = k * ByteBits /\ g <= k /\ Reader!BytesLeft = k - g
<1>1. PICK k \in Nat : Len(file) = k * ByteBits
  BY DEF ReaderInv, FileOfBytes
<1>2. PICK g \in Nat : g = fetched
  BY TypesAre
<1>3. g * ByteBits <= k * ByteBits
  BY <1>1, <1>2 DEF ReaderInv, ReaderNow, Kept
<1>4. g <= k
  <2> SUFFICES ASSUME g > k PROVE FALSE
    OBVIOUS
  <2>1. PICK d \in Nat : g = k + d + 1
    <3>1. g - k - 1 \in Nat /\ g = k + (g - k - 1) + 1
      OBVIOUS
    <3> QED BY <3>1
  <2>2. g * ByteBits = k * ByteBits + d * ByteBits + ByteBits
    BY <2>1, BitSizes
  <2> DEFINE a == g * ByteBits
             c == k * ByteBits
             t == d * ByteBits
  <2>3. a = c + t + ByteBits /\ a \in Nat /\ c \in Nat /\ t \in Nat /\ a <= c
    BY <1>3, <2>2, BitSizes
  <2> HIDE DEF a, c, t
  <2> QED BY <2>3, BitSizes
<1>5. Reader!BytesLeft = k - g
  <2>1. (k * ByteBits) \div ByteBits = k
    <3> DEFINE q == (k * ByteBits) \div ByteBits
               r == (k * ByteBits) % ByteBits
    <3>1. q \in Int /\ r \in 0 .. ByteBits - 1 /\ k * ByteBits = q * ByteBits + r
      <4> DEFINE c == k * ByteBits
      <4>1. c \in Int /\ ByteBits \in Nat \ {0}
        BY BitSizes
      <4> HIDE DEF c
      <4>2. c \div ByteBits \in Int /\ c % ByteBits \in 0 .. ByteBits - 1
            /\ c = (c \div ByteBits) * ByteBits + (c % ByteBits)
        BY <4>1, DivIs
      <4> QED BY <4>2 DEF c
    <3> HIDE DEF q, r
    <3>2. ASSUME q < k PROVE FALSE
      <4>1. PICK d \in Nat : k = q + d + 1
        <5>1. k - q - 1 \in Nat /\ k = q + (k - q - 1) + 1
          BY <3>1, <3>2
        <5> QED BY <5>1
      <4>2. k * ByteBits = q * ByteBits + d * ByteBits + ByteBits
        BY <3>1, <4>1, BitSizes
      <4> DEFINE a == q * ByteBits
                 c == k * ByteBits
                 t == d * ByteBits
      <4>3. c = a + t + ByteBits /\ a \in Int /\ c \in Nat /\ t \in Nat /\ c = a + r
        BY <3>1, <4>2, BitSizes
      <4> HIDE DEF a, c, t
      <4> QED BY <3>1, <4>3, BitSizes
    <3>3. ASSUME q > k PROVE FALSE
      <4>1. PICK d \in Nat : q = k + d + 1
        <5>1. q - k - 1 \in Nat /\ q = k + (q - k - 1) + 1
          BY <3>1, <3>3
        <5> QED BY <5>1
      <4>2. q * ByteBits = k * ByteBits + d * ByteBits + ByteBits
        BY <3>1, <4>1, BitSizes
      <4> DEFINE a == q * ByteBits
                 c == k * ByteBits
                 t == d * ByteBits
      <4>3. a = c + t + ByteBits /\ a \in Int /\ c \in Nat /\ t \in Nat /\ c = a + r
        BY <3>1, <4>2, BitSizes
      <4> HIDE DEF a, c, t
      <4> QED BY <3>1, <4>3, BitSizes
    <3> QED BY <3>1, <3>2, <3>3 DEF q
  <2>2. Reader!BytesLeft = (k * ByteBits) \div ByteBits - g
    BY <1>1, <1>2 DEF Reader!BytesLeft, Reader!MaxBits
  <2> QED BY <2>1, <2>2
<1> QED BY <1>1, <1>2, <1>4, <1>5

LEMMA RefillKeeps ==
  ASSUME ReaderInv, ~astray, answer.ok, Reader!Refill
  PROVE  Kept(br', call', answer', at', astray', crcFrom', fetched', file)
<1> DEFINE s == IF call.step = "refill" THEN "scan" ELSE call.step
           u == IF call.op = "rice" THEN Reader!UcbitsOf(br') ELSE call.ucbits
<1>1. /\ Reader!WantsMore /\ answer' = answer /\ at' = at /\ astray' = astray
      /\ crcFrom' = crcFrom
      /\ call' = [call EXCEPT !.step = s, !.ucbits = u]
  BY DEF Reader!Refill
<1>2. PICK n \in 0 .. Reader!BytesLeft :
        br' = Reader!Filled(Reader!Shifted(br), n) /\ fetched' = fetched + n
  BY DEF Reader!Refill
<1>3. PICK k \in Nat, g \in Nat :
        g = fetched /\ Len(file) = k * ByteBits /\ g <= k /\ Reader!BytesLeft = k - g
  BY BytesLeftIs
<1>4. n \in Nat /\ g + n <= k
  BY <1>2, <1>3
<1>5. /\ file \in Seq(Bit) /\ at \in Nat /\ answer \in Answers /\ call \in Calls
      /\ fetched \in Nat /\ crcFrom \in Nat \cup {Reader!None} /\ astray \in BOOLEAN
      /\ call.ucbits \in Nat /\ call.count \in Nat
  BY TypesAre
<1>6. PICK f \in Nat : f = g + n /\ f <= k
  BY <1>4
<1>7. PICK y \in Nat : y = f * ByteBits
  BY WordIsBytes
<1>8. y <= Len(file)
  <2>1. PICK d \in Nat : k = f + d
    <3>1. k - f \in Nat /\ k = f + (k - f)
      BY <1>6
    <3> QED BY <3>1
  <2>2. k * ByteBits = f * ByteBits + d * ByteBits /\ d * ByteBits \in Nat
    BY <2>1, BitSizes
  <2> QED BY <1>3, <1>7, <2>2
<1>9. PICK e \in Nat, P \in Nat :
        /\ At(e, P) /\ P <= e /\ e <= Len(file) /\ Reader!Held(br) = e - P
        /\ Counted(call, br, at, crcFrom, file)
        /\ Failed(answer, e, file) /\ Returned(answer, call, at, FALSE, file)
  BY PlaceIs
<1>10. e = g * ByteBits /\ P = BitAt(br, e) /\ P = at + BehindOf(call) /\ Sound(br, e, crcFrom, file)
  BY <1>3, <1>9 DEF At
<1> DEFINE x == Reader!Shifted(br)
<1>11. Sound(x, e, crcFrom, file) /\ BitAt(x, e) = P /\ x.words_read = 0
  BY <1>5, <1>10, ShiftIs
<1> HIDE DEF x
<1>12. Sound(br', y, crcFrom, file) /\ BitAt(br', y) = P
  <2>1. e = fetched * ByteBits /\ (fetched + n) * ByteBits = y
    BY <1>3, <1>6, <1>7, <1>10
  <2>2. (fetched + n) * ByteBits <= Len(file)
    BY <1>8, <2>1
  <2>3. Sound(x, fetched * ByteBits, crcFrom, file) /\ BitAt(x, fetched * ByteBits) = P
    BY <1>11, <2>1
  <2>4. LET z == Reader!Filled(x, n)
        IN  /\ Sound(z, (fetched + n) * ByteBits, crcFrom, file)
            /\ BitAt(z, (fetched + n) * ByteBits) = BitAt(x, fetched * ByteBits)
    BY <1>4, <1>5, <1>11, <2>2, <2>3, FillIs
  <2>5. br' = Reader!Filled(x, n)
    BY <1>2 DEF x
  <2> QED BY <2>1, <2>3, <2>4, <2>5
<1>13. PICK h \in Nat : h = Reader!Held(br') /\ br' \in Readers
  <2>1. Reader!Held(br') = y - P /\ P <= y /\ br' \in Readers
    BY ONLY <1>5, <1>12, HeldIs, y \in Nat, P \in Nat
  <2>2. y - P \in Nat
    BY <2>1
  <2> QED BY <2>1, <2>2
<1>14. /\ s \in {"scan", "binary"} /\ (s = "binary" <=> call.step = "binary")
  <2>1. call.step \in {"scan", "refill", "binary"}
    BY TypesAre
  <2> QED BY <2>1
<1>15. /\ u \in Nat
       /\ call.op = "rice" => u = IF call.step = "binary" THEN h ELSE h + call.count
  <2>1. Reader!UcbitsOf(br') = IF call.step = "binary" THEN h ELSE h + call.count
    BY <1>13 DEF Reader!UcbitsOf
  <2>2. h + call.count \in Nat
    BY <1>5
  <2> QED BY <1>5, <2>1, <2>2
<1> HIDE DEF s, u
<1>16. /\ call' \in Calls /\ call'.op = call.op /\ call'.n = call.n /\ call'.left = call.left
       /\ call'.count = call.count /\ call'.ucbits = u /\ call'.step = s
  BY <1>1, <1>5, <1>14, <1>15 DEF Calls
<1>17. call.op # "none"
  BY <1>1, WantsMoreIs
<1>18. Counted(call', br', at, crcFrom, file)
  <2>1. call.op \in {"raw", "skip"} => call'.count = 0 /\ call'.step = "scan"
    BY <1>9, <1>14, <1>16 DEF Counted
  <2>2. /\ call.op = "raw" => call'.n <= WordBits
        /\ call.op = "skip" => call'.n > 0 /\ crcFrom = Reader!None
        /\ call.op = "unary" => call'.step # "binary"
        /\ call.op = "rice" => call'.n < WordBits /\ call'.left > 0
        /\ Zeros(file, at, at + call'.count)
        /\ call'.step = "binary" => file[at + call'.count + 1] = 1
    BY <1>9, <1>14, <1>16 DEF Counted
  <2>3. call.op = "rice" => /\ call'.step = "binary" => call'.ucbits = Reader!Held(br')
                            /\ call'.step # "binary" => call'.ucbits = Reader!Held(br') + call'.count
    BY <1>13, <1>14, <1>15, <1>16
  <2>4. call'.step # "refill"
    BY <1>14, <1>16
  <2> QED BY <1>16, <1>17, <2>1, <2>2, <2>3, <2>4 DEF Counted
<1>19. BehindOf(call') = BehindOf(call)
  BY <1>14, <1>16 DEF BehindOf
<1>20. InPlace(br', call', at, crcFrom, y, file)
  BY <1>10, <1>12, <1>18, <1>19 DEF InPlace
<1>22. Failed(answer, y, file) /\ Returned(answer, call', at, FALSE, file)
  BY <1>9, <1>16, <1>17, ReturnedStill DEF Failed
<1>23. Typed(br', call', answer, at, FALSE, crcFrom, f)
  BY <1>5, <1>13, <1>16 DEF Typed
<1>24. Kept(br', call', answer, at, FALSE, crcFrom, f, file)
  BY <1>7, <1>8, <1>20, <1>22, <1>23 DEF Kept
<1>25. astray' = FALSE /\ fetched' = f
  BY <1>1, <1>2, <1>3, <1>5, <1>6
<1> QED BY <1>1, <1>24, <1>25

\* What a call that fails tells of the file.
LEMMA FailedIs ==
  ASSUME ReaderInv, ~astray, answer.ok, Reader!WantsMore,
         NEW e \in Nat, NEW P \in Nat, At(e, P), e = Len(file), P <= e,
         Reader!Held(br) = e - P, Counted(call, br, at, crcFrom, file),
         NEW x, x = [op |-> call.op, n |-> call.n, ok |-> FALSE, from |-> at,
                     count |-> call.count, bits |-> <<>>]
  PROVE  Failed(x, e, file)
<1>1. /\ file \in Seq(Bit) /\ at \in Nat /\ call.count \in Nat /\ call.n \in Nat
  BY TypesAre
<1>2. PICK a \in Nat, k \in Nat, n \in Nat, L \in Nat :
        a = at /\ k = call.count /\ n = call.n /\ L = Len(file)
  BY <1>1
<1>3. x.op = call.op /\ x.n = n /\ x.from = a
  BY <1>2
<1>4. P = a + BehindOf(call) /\ e = L
  BY <1>2 DEF At
<1>5. Zeros(file, a, a + k)
  BY <1>2 DEF Counted
<1>6. CASE call.op \in {"raw", "skip"}
  <2>1. Reader!Held(br) < n
    BY <1>2, <1>6, WantsMoreIs
  <2>2. P = a
    <3>1. call.step = "scan" /\ call.count = 0
      BY <1>6 DEF Counted
    <3>2. BehindOf(call) = 0
      BY <3>1 DEF BehindOf
    <3> QED BY <1>4, <3>2
  <2>3. a + n > L
    BY <1>4, <2>1, <2>2
  <2> QED BY <1>2, <1>3, <1>6, <2>3 DEF Failed
<1> DEFINE rest == Slice(file, a, L)
<1>7. ASSUME a <= L
      PROVE  /\ rest \in Seq(Bit) /\ Len(rest) = L - a
             /\ \A i \in 1 .. L - a : rest[i] = file[a + i]
  <2>1. a \in Nat /\ L \in Nat /\ a <= L /\ L <= Len(file)
    BY <1>2, <1>7
  <2> QED BY ONLY <1>1, <2>1, SliceIs
<1> HIDE DEF rest
<1>8. CASE call.op \in {"unary", "rice"} /\ call.step = "refill"
  <2>1. P = a + k
    BY <1>2, <1>4, <1>8 DEF BehindOf
  <2>2. Reader!Held(br) = 0
    BY <1>8 DEF Counted
  <2>3. a + k = L /\ a <= L /\ L - a = k
    BY <1>4, <2>1, <2>2
  <2>4. ~Reader!HasStop(rest)
    <3> SUFFICES ASSUME NEW i \in 1 .. Len(rest), rest[i] = 1 PROVE FALSE
      BY DEF Reader!HasStop
    <3>1. i \in 1 .. L - a /\ a + i \in a + 1 .. a + k
      BY <1>7, <2>3
    <3>2. rest[i] = 0
      BY <1>5, <1>7, <2>3, <3>1 DEF Zeros
    <3> QED BY <3>2
  <2> QED BY <1>2, <1>3, <1>4, <1>8, <2>4 DEF Failed, rest
<1>9. CASE call.op = "rice" /\ call.step = "binary"
  <2>1. P = a + (k + 1) /\ file[a + k + 1] = 1
    BY <1>2, <1>4, <1>9 DEF BehindOf, Counted
  <2>2. Reader!Held(br) < n
    BY <1>2, <1>9, WantsMoreIs
  <2>3. L - P < n /\ P <= L
    BY <1>4, <2>2
  <2>4. a <= L /\ k < L - a /\ k + 1 \in 1 .. L - a /\ a + (k + 1) = a + k + 1
    BY <2>1, <2>3
  <2>5. rest[k + 1] = 1 /\ \A j \in 1 .. k : rest[j] = 0
    <3>1. rest[k + 1] = 1
      BY <1>7, <2>1, <2>4
    <3>2. ASSUME NEW j \in 1 .. k PROVE rest[j] = 0
      <4>1. j \in 1 .. L - a /\ a + j \in a + 1 .. a + k
        BY <2>4
      <4> QED BY <1>5, <1>7, <2>4, <4>1 DEF Zeros
    <3> QED BY <3>1, <3>2
  <2>6. Reader!HasStop(rest) /\ Reader!ZeroMSBs(rest) = k
    BY <1>7, <2>4, <2>5, OneFirstStop
  <2>7. k + 1 + n > Len(rest)
    <3>1. k + 1 + n > L - a
      BY ONLY <2>1, <2>3, a \in Nat, k \in Nat, n \in Nat, L \in Nat, P \in Nat
    <3> QED BY <1>7, <2>4, <3>1
  <2>8. Slice(file, x.from, Len(file)) = rest /\ x.op = "rice" /\ x.n = n
    BY <1>2, <1>3, <1>9 DEF rest
  <2>9. Reader!ZeroMSBs(rest) + 1 + x.n > Len(rest)
    BY <2>6, <2>7, <2>8
  <2>10. /\ e = Len(file)
         /\ x.op \in {"raw", "skip"} => x.from + x.n > Len(file)
         /\ x.op \in {"unary", "rice"} =>
              (Reader!HasStop(rest) =>
                 x.op = "rice" /\ Reader!ZeroMSBs(rest) + 1 + x.n > Len(rest))
    BY <2>8, <2>9
  <2> QED BY ONLY <2>8, <2>10 DEF Failed
<1>10. call.op # "none" /\ (call.op \in {"unary", "rice"} => call.step \in {"refill", "binary"})
  BY WantsMoreIs
<1>11. call.op \in {"none", "raw", "unary", "rice", "skip"}
  BY TypesAre
<1>12. call.op = "unary" => call.step # "binary"
  BY DEF Counted
<1> QED BY ONLY <1>6, <1>8, <1>9, <1>10, <1>11, <1>12

LEMMA FailKeeps ==
  ASSUME ReaderInv, ~astray, answer.ok, Reader!Fail
  PROVE  Kept(br', call', answer', at', astray', crcFrom', fetched', file)
<1> DEFINE x == [op |-> call.op, n |-> call.n, ok |-> FALSE, from |-> at,
                 count |-> call.count, bits |-> <<>>]
           y == Reader!Shifted(br)
<1>1. /\ Reader!WantsMore /\ (Reader!Space(Reader!Shifted(br)) = 0 \/ Reader!BytesLeft = 0)
      /\ \E tail \in Reader!TailsOf(br) : br' = Reader!TailLost(y, tail)
      /\ answer' = x /\ at' = at + Reader!Behind
      /\ call' = Reader!NoCall /\ UNCHANGED <<astray, crcFrom, fetched>>
  BY DEF Reader!Fail
<1>2. PICK e \in Nat, P \in Nat :
        /\ At(e, P) /\ P <= e /\ e <= Len(file) /\ Reader!Held(br) = e - P
        /\ Counted(call, br, at, crcFrom, file)
  BY PlaceIs
<1>3. PICK k \in Nat, g \in Nat :
        g = fetched /\ Len(file) = k * ByteBits /\ g <= k /\ Reader!BytesLeft = k - g
  BY BytesLeftIs
<1>4. e = Len(file)
  <2>1. Reader!Space(Reader!Shifted(br)) # 0
    <3> DEFINE z == Reader!Space(Reader!Shifted(br))
    <3>1. z >= 1
      BY <1>1, SpaceIs
    <3> HIDE DEF z
    <3>2. z # 0
      BY <3>1
    <3> QED BY <3>2 DEF z
  <2>2. k = g
    BY <1>1, <1>3, <2>1
  <2> QED BY <1>2, <1>3, <2>2 DEF At
<1>5. /\ file \in Seq(Bit) /\ at \in Nat /\ call.count \in Nat /\ call.n \in Nat
      /\ call.op \in {"none", "raw", "unary", "rice", "skip"}
  BY TypesAre
<1>6. x \in Answers /\ x.ok = FALSE
  <2>1. <<>> \in Seq(Bit)
    OBVIOUS
  <2> QED BY <1>5, <2>1 DEF Answers
<1>7. Failed(x, e, file)
  BY <1>1, <1>2, <1>4, FailedIs
<1> HIDE DEF x
<1>8. Returned(x, Reader!NoCall, P, FALSE, file)
  BY <1>6 DEF Returned
<1>9. Sound(y, e, crcFrom, file) /\ BitAt(y, e) = P /\ y.bytes = br.bytes
  BY <1>1, <1>2, <1>5, ShiftIs DEF At
<1>10. at' = P /\ P \in Nat
  BY <1>1, <1>2 DEF At, BehindOf, Reader!Behind
<1>11. y \in Readers /\ br \in Readers
  BY <1>9, TypesAre DEF Sound, Buffered
<1> HIDE DEF y
<1>12. PICK tail \in Reader!TailsOf(br) :
         br' = [y EXCEPT !.buffer = SubSeq(@, 1, y.words * WordBits) \o tail]
  BY <1>1 DEF Reader!TailLost
<1>13. SubSeq(y.buffer, 1, y.words * WordBits) \o tail \in Seq(Bit)
  <2>1. tail \in Seq(Bit)
    <3>1. PICK m \in Nat : m = br.bytes * ByteBits
      BY <1>11, ReaderIs
    <3>2. tail \in [1 .. m -> Bit]
      BY <3>1 DEF Reader!TailsOf, Reader!Bit, Bit
    <3> QED BY <3>2
  <2>2. PICK m \in Nat : m = y.words * WordBits
    BY <1>11, ReaderIs
  <2>3. y.buffer \in Seq(Bit) /\ m <= Len(y.buffer)
    <3>1. /\ y.buffer \in Seq(Bit) /\ Len(y.buffer) = m + y.bytes * ByteBits
          /\ y.bytes * ByteBits \in Nat
      BY <1>9, <1>11, <2>2, ReaderIs DEF Sound, Buffered
    <3> QED BY <3>1
  <2>4. SubSeq(y.buffer, 1, m) \in Seq(Bit)
    <3>1. \A i \in 1 .. m : y.buffer[i] \in Bit
      BY <2>3
    <3> QED BY <2>3, <3>1
  <2> QED BY <2>1, <2>2, <2>4
<1> DEFINE z == SubSeq(y.buffer, 1, y.words * WordBits) \o tail
<1>14. br' \in Readers /\ Intact(br', y.buffer) = y /\ y.buffer \in Seq(Bit)
  <2>1. br' = [y EXCEPT !.buffer = z] /\ z \in Seq(Bit)
    BY <1>12, <1>13
  <2> HIDE DEF z
  <2> QED BY <1>11, <2>1 DEF Intact, Readers
<1>15. Typed(br', Reader!NoCall, x, P, FALSE, crcFrom, fetched)
  BY <1>6, <1>10, <1>14, NoCallIs, TypesAre DEF Typed
<1>16. InPlace(y, Reader!NoCall, P, crcFrom, e, file)
  <2>1. P = P + 0
    OBVIOUS
  <2>2. BitAt(y, e) = P + BehindOf(Reader!NoCall)
    BY <1>9, <2>1, NoCallIs
  <2> QED BY <1>9, <2>2, NoCallIs DEF InPlace
<1>17. fetched * ByteBits = e /\ e <= Len(file)
  BY <1>2 DEF At
<1>18. Kept(br', Reader!NoCall, x, P, FALSE, crcFrom, fetched, file)
  BY <1>6, <1>7, <1>8, <1>14, <1>15, <1>16, <1>17 DEF Kept
<1>19. astray' = FALSE /\ crcFrom' = crcFrom /\ fetched' = fetched
  BY <1>1, TypesAre
<1> QED BY <1>1, <1>10, <1>18, <1>19

\* An empty buffer: the reader is where the fetched bits end.
LEMMA EmptyReaderIs ==
  ASSUME NEW f \in Seq(Bit), NEW e \in Nat, e <= Len(f), NEW l \in 0 .. WordBits - 1
  PROVE  LET x == [Reader!EmptyReader EXCEPT !.align = l]
         IN  Sound(x, e, Reader!None, f) /\ BitAt(x, e) = e
<1> DEFINE x == [Reader!EmptyReader EXCEPT !.align = l]
<1>1. WordBits \in Nat \ {0, 1} /\ ByteBits \in Nat \ {0, 1} /\ 0 \in 0 .. Reader!WordBytes - 1
  BY BitSizes, WordIsBytes
<1>2. /\ x.buffer = <<>> /\ x.words = 0 /\ x.bytes = 0 /\ x.words_read = 0
      /\ x.bits_read = 0 /\ x.crc = <<>> /\ x.align = l /\ x \in Readers
  <2> DEFINE y == [buffer |-> <<>>, words |-> 0, bytes |-> 0, words_read |-> 0,
                   bits_read |-> 0, crc |-> <<>>, align |-> l]
  <2>1. x = y
    BY DEF Reader!EmptyReader
  <2>2. <<>> \in Seq(Bit)
    OBVIOUS
  <2>3. y \in Readers
    BY <1>1, <2>2 DEF Readers
  <2> HIDE DEF x
  <2> QED BY <2>1, <2>3
<1> HIDE DEF x
<1>3. 0 * WordBits = 0 /\ 0 * ByteBits = 0
  BY <1>1
<1>4. Len(x.buffer) = 0
  BY <1>2
<1>5. Width(x) = 0
  BY <1>2, <1>3 DEF Width, Reader!AtWholeWord
<1>6. WordStart(x, e) = e
  BY <1>2, <1>3, <1>4 DEF WordStart
<1>7. BitAt(x, e) = e
  BY <1>2, <1>6 DEF BitAt
<1>8. x.buffer = Slice(f, e - Len(x.buffer), e)
  <2>1. e - 0 = e /\ Slice(f, e, e) = <<>>
    BY SliceNone
  <2> QED BY <1>2, <1>4, <2>1
<1>9. Buffered(x, e, f)
  BY <1>1, <1>2, <1>3, <1>4, <1>5, <1>8 DEF Buffered
<1> QED BY <1>7, <1>9 DEF Sound, Summed, x

\* The CRC is of the bits from d to where the reader is.
LEMMA CrcIs ==
  ASSUME NEW f \in Seq(Bit), NEW e \in Nat, NEW c, NEW b, Sound(b, e, c, f),
         NEW d \in Nat, d <= BitAt(b, e)
  PROVE  LET x == [b EXCEPT !.crc = Slice(f, d, BitAt(b, e)), !.align = b.bits_read]
         IN  Sound(x, e, d, f) /\ BitAt(x, e) = BitAt(b, e)
<1> DEFINE P == BitAt(b, e)
           s == Slice(f, d, P)
           x == [b EXCEPT !.crc = s, !.align = b.bits_read]
<1>1. Buffered(b, e, f) /\ b \in Readers
  BY DEF Sound, Buffered
<1> s \in Seq(Bit)
  <2>1. PICK S \in Nat, Q \in Nat, k \in Nat, v \in Nat :
          Named(b, e, S, Q, k, v) /\ Placed(b, e, f, S, Q, k, v)
    BY <1>1, Numbers
  <2>2. Q = P /\ Q <= Len(f) /\ d <= Q
    <3>1. Q = P /\ d <= Q
      BY <2>1 DEF Named
    <3>2. Q = S + k /\ k <= v /\ S + v <= e /\ e <= Len(f)
      BY <2>1 DEF Placed
    <3>3. Q <= Len(f)
      BY ONLY <3>2, S \in Nat, Q \in Nat, k \in Nat, v \in Nat, e \in Nat
    <3> QED BY <3>1, <3>3
  <2> HIDE DEF P
  <2>3. Slice(f, d, Q) \in Seq(Bit)
    BY <2>2, SliceIs
  <2> QED BY <2>2, <2>3
<1> HIDE DEF s
<1>2. b.bits_read \in 0 .. WordBits - 1
  <2>1. b.bits_read \in Nat /\ b.bits_read < WordBits
    BY <1>1, ReaderIs DEF Buffered
  <2> QED BY <2>1, BitSizes
<1>3. /\ x \in Readers /\ x.buffer = b.buffer /\ x.words = b.words /\ x.bytes = b.bytes
      /\ x.words_read = b.words_read /\ x.bits_read = b.bits_read /\ x.crc = s
      /\ x.align = b.bits_read
  BY <1>1, <1>2 DEF Readers
<1> HIDE DEF x
<1>4. Width(x) = Width(b) /\ WordStart(x, e) = WordStart(b, e)
  BY <1>3 DEF Width, WordStart, Reader!AtWholeWord
<1>5. BitAt(x, e) = P /\ WordStart(x, e) + x.align = P
  BY <1>3, <1>4 DEF BitAt
<1>6. Buffered(x, e, f)
  BY <1>1, <1>3, <1>4 DEF Buffered
<1>7. Summed(x, e, d, f)
  <2>1. x.align <= x.bits_read
    BY <1>2, <1>3
  <2> QED BY <1>3, <1>5, <2>1 DEF Summed, s
<1> QED BY <1>5, <1>6, <1>7 DEF Sound, x, s

\* No call is running: the reader is where the last answer says.
LEMMA IdleIs ==
  ASSUME ReaderInv, call.op = "none", answer.ok
  PROVE  /\ ~astray /\ call = Reader!NoCall
         /\ \E e \in Nat, P \in Nat :
              /\ e = fetched * ByteBits /\ P = BitAt(br, e) /\ P = at /\ P <= e /\ e <= Len(file)
              /\ Sound(br, e, crcFrom, file) /\ At(e, P)
<1>1. ~astray
  BY DEF ReaderInv, ReaderNow, Kept
<1>2. PICK e \in Nat, P \in Nat :
        At(e, P) /\ P <= e /\ e <= Len(file) /\ Counted(call, br, at, crcFrom, file)
  BY <1>1, PlaceIs
<1>3. call = Reader!NoCall
  BY <1>2 DEF Counted
<1>4. P = at
  <2>1. BehindOf(call) = 0 /\ at \in Nat
    BY <1>3, NoCallIs, TypesAre
  <2> QED BY <1>2, <2>1 DEF At
<1> QED BY <1>1, <1>2, <1>3, <1>4 DEF At

\* What a step must show after which none is running.
LEMMA IdleKept ==
  ASSUME ReaderInv, NEW e \in Nat, e = fetched * ByteBits, e <= Len(file),
         call' = Reader!NoCall, answer' = Reader!NoAnswer, fetched' = fetched,
         astray' = FALSE, at' \in Nat, crcFrom' \in Nat \cup {Reader!None},
         Sound(br', e, crcFrom', file), BitAt(br', e) = at'
  PROVE  Kept(br', call', answer', at', astray', crcFrom', fetched', file)
<1>1. br' \in Readers /\ fetched \in Nat
  BY TypesAre DEF Sound, Buffered
<1>2. Typed(br', Reader!NoCall, Reader!NoAnswer, at', FALSE, crcFrom', fetched)
  BY <1>1, NoCallIs DEF Typed
<1>3. BitAt(br', e) = at' + BehindOf(Reader!NoCall)
  <2>1. PICK a \in Nat : a = at'
    OBVIOUS
  <2>2. a = a + 0
    OBVIOUS
  <2> QED BY <2>1, <2>2, NoCallIs
<1>4. InPlace(br', Reader!NoCall, at', crcFrom', e, file)
  BY <1>3, NoCallIs DEF InPlace
<1>5. Kept(br', Reader!NoCall, Reader!NoAnswer, at', FALSE, crcFrom', fetched, file)
  BY <1>2, <1>4, NoCallIs DEF Kept
<1> QED BY <1>5

LEMMA ClearCallKeeps ==
  ASSUME ReaderInv, Reader!ClearCall
  PROVE  Kept(br', call', answer', at', astray', crcFrom', fetched', file)
<1>1. /\ br' = [Reader!EmptyReader EXCEPT !.align = br.align]
      /\ call' = Reader!NoCall /\ answer' = Reader!NoAnswer
      /\ at' = fetched * ByteBits /\ astray' = FALSE /\ crcFrom' = Reader!None
      /\ fetched' = fetched
  BY DEF Reader!ClearCall
<1>2. file \in Seq(Bit) /\ fetched \in Nat /\ br.align \in 0 .. WordBits - 1
  BY TypesAre DEF Readers
<1>3. PICK e \in Nat : e = fetched * ByteBits
  BY <1>2, WordIsBytes
<1>4. e <= Len(file)
  BY <1>3 DEF ReaderInv, ReaderNow, Kept
<1>5. Sound(br', e, Reader!None, file) /\ BitAt(br', e) = e
  BY <1>1, <1>2, <1>4, EmptyReaderIs
<1>6. at' \in Nat /\ crcFrom' \in Nat \cup {Reader!None} /\ Sound(br', e, crcFrom', file)
      /\ BitAt(br', e) = at'
  BY <1>1, <1>3, <1>5
<1> QED BY <1>1, <1>3, <1>4, <1>6, IdleKept

LEMMA ResetCrcKeeps ==
  ASSUME ReaderInv, Reader!ResetCrc
  PROVE  Kept(br', call', answer', at', astray', crcFrom', fetched', file)
<1>1. /\ call.op = "none" /\ answer.ok /\ br' = [br EXCEPT !.crc = <<>>, !.align = br.bits_read]
      /\ crcFrom' = at /\ answer' = Reader!NoAnswer
      /\ call' = call /\ at' = at /\ astray' = astray /\ fetched' = fetched
  BY DEF Reader!ResetCrc
<1>2. call = Reader!NoCall /\ ~astray
  BY <1>1, IdleIs
<1>3. PICK e \in Nat, P \in Nat :
        /\ e = fetched * ByteBits /\ P = BitAt(br, e) /\ P = at /\ P <= e /\ e <= Len(file)
        /\ Sound(br, e, crcFrom, file)
  BY <1>1, IdleIs
<1>4. file \in Seq(Bit) /\ astray \in BOOLEAN
  BY TypesAre
<1>5. <<>> \in Seq(Bit) /\ Slice(file, P, P) = <<>> /\ P <= P
  BY SliceNone
<1>6. Sound(br', e, P, file) /\ BitAt(br', e) = P
  <2>1. LET x == [br EXCEPT !.crc = Slice(file, P, BitAt(br, e)), !.align = br.bits_read]
        IN  Sound(x, e, P, file) /\ BitAt(x, e) = BitAt(br, e)
    <3>1. Sound(br, e, crcFrom, file) /\ P <= BitAt(br, e) /\ file \in Seq(Bit)
      BY <1>3, <1>4, <1>5
    <3> QED BY ONLY <3>1, CrcIs, e \in Nat, P \in Nat
  <2> QED BY <1>1, <1>3, <1>5, <2>1
<1>7. astray' = FALSE /\ call' = Reader!NoCall
  BY <1>1, <1>2, <1>4
<1>8. at' \in Nat /\ crcFrom' \in Nat \cup {Reader!None} /\ Sound(br', e, crcFrom', file)
      /\ BitAt(br', e) = at'
  BY <1>1, <1>3, <1>6
<1> QED BY <1>1, <1>3, <1>7, <1>8, IdleKept

LEMMA GetCrcKeeps ==
  ASSUME ReaderInv, Reader!GetCrc
  PROVE  Kept(br', call', answer', at', astray', crcFrom', fetched', file)
<1> DEFINE s == br.crc \o Reader!Crcd(br, br.bits_read)
<1>1. /\ call.op = "none" /\ answer.ok /\ br' = [br EXCEPT !.crc = s, !.align = br.bits_read]
      /\ crcFrom # Reader!None /\ answer' = Reader!NoAnswer
      /\ call' = call /\ at' = at /\ astray' = astray /\ fetched' = fetched
      /\ crcFrom' = crcFrom
  BY DEF Reader!GetCrc
<1>2. call = Reader!NoCall /\ ~astray
  BY <1>1, IdleIs
<1>3. PICK e \in Nat, P \in Nat :
        /\ e = fetched * ByteBits /\ P = BitAt(br, e) /\ P = at /\ P <= e /\ e <= Len(file)
        /\ Sound(br, e, crcFrom, file)
  BY <1>1, IdleIs
<1>4. file \in Seq(Bit) /\ astray \in BOOLEAN /\ crcFrom \in Nat
  BY <1>1, TypesAre
<1>5. Buffered(br, e, file) /\ Summed(br, e, crcFrom, file) /\ br \in Readers
  BY <1>3, TypesAre DEF Sound
<1>6. PICK S \in Nat, Q \in Nat, k \in Nat, v \in Nat :
        Named(br, e, S, Q, k, v) /\ Placed(br, e, file, S, Q, k, v)
  BY <1>4, <1>5, Numbers
<1>7. PICK l \in Nat, c \in Nat : l = br.align /\ c = crcFrom
  BY <1>4, <1>5, ReaderIs
<1>8. PICK m \in Nat : m = S + l
  OBVIOUS
<1>9. l <= k /\ c <= m /\ br.crc = Slice(file, c, m)
  BY <1>1, <1>5, <1>6, <1>7, <1>8 DEF Summed, Named
<1>10. Reader!Crcd(br, br.bits_read) = Slice(file, m, P)
  <2>1. l <= k /\ k <= Width(br)
    BY <1>6, <1>9 DEF Named, Placed
  <2>2. SubSeq(Reader!HeadWord(br), l + 1, k)
          = Slice(file, WordStart(br, e) + l, WordStart(br, e) + k)
    BY <1>4, <1>5, <2>1, HeadBits
  <2>3. WordStart(br, e) + l = m /\ WordStart(br, e) + k = P
    BY <1>3, <1>6, <1>8 DEF Named, Placed
  <2>4. Reader!Crcd(br, br.bits_read) = SubSeq(Reader!HeadWord(br), l + 1, k)
    BY <1>1, <1>6, <1>7 DEF Reader!Crcd, Named
  <2> QED BY <2>2, <2>3, <2>4
<1>11. c <= m /\ m <= P /\ c <= P /\ P <= Len(file)
  <2>1. Q = P /\ Q = S + k
    BY <1>3, <1>6 DEF Named, Placed
  <2>2. m <= P
    BY <1>8, <1>9, <2>1
  <2> QED BY <1>3, <1>9, <2>2
<1>12. s = Slice(file, c, P) /\ s \in Seq(Bit)
  <2>1. Slice(file, c, m) \o Slice(file, m, P) = Slice(file, c, P)
    BY ONLY <1>4, <1>11, SlicesJoin, c \in Nat, m \in Nat, P \in Nat
  <2>2. Slice(file, c, P) \in Seq(Bit)
    BY ONLY <1>4, <1>11, SliceIs, c \in Nat, P \in Nat
  <2> QED BY <1>9, <1>10, <2>1, <2>2
<1> HIDE DEF s
<1>13. Sound(br', e, c, file) /\ BitAt(br', e) = P
  <2>1. LET x == [br EXCEPT !.crc = Slice(file, c, BitAt(br, e)), !.align = br.bits_read]
        IN  Sound(x, e, c, file) /\ BitAt(x, e) = BitAt(br, e)
    <3>1. Sound(br, e, crcFrom, file) /\ c <= BitAt(br, e) /\ file \in Seq(Bit)
      BY <1>3, <1>4, <1>11
    <3> QED BY ONLY <3>1, CrcIs, e \in Nat, c \in Nat
  <2> QED BY <1>1, <1>3, <1>12, <2>1
<1>14. astray' = FALSE /\ call' = Reader!NoCall
  BY <1>1, <1>2, <1>4
<1>15. at' \in Nat /\ crcFrom' \in Nat \cup {Reader!None} /\ Sound(br', e, crcFrom', file)
       /\ BitAt(br', e) = at'
  BY <1>1, <1>3, <1>4, <1>7, <1>13
<1> QED BY <1>1, <1>3, <1>14, <1>15, IdleKept

\* A call begins.
LEMMA CallBegins ==
  ASSUME ReaderInv, NEW op \in {"raw", "unary", "rice", "skip"}, NEW n \in Nat, NEW l \in Nat,
         NEW u \in Nat, Reader!Call(op, n, l, u), crcFrom' = crcFrom,
         op = "raw" => n <= WordBits, op = "skip" => n > 0 /\ crcFrom = Reader!None,
         op = "rice" => n < WordBits /\ l > 0 /\ u = Reader!Held(br)
  PROVE  Kept(br', call', answer', at', astray', crcFrom', fetched', file)
<1> DEFINE c == [op |-> op, n |-> n, left |-> l, count |-> 0, ucbits |-> u, step |-> "scan"]
<1>1. /\ call.op = "none" /\ answer.ok /\ call' = c /\ answer' = Reader!NoAnswer
      /\ br' = br /\ at' = at /\ astray' = astray /\ fetched' = fetched
      /\ UNCHANGED <<astray, crcFrom, fetched>>
  BY DEF Reader!Call
<1>2. PICK e \in Nat, P \in Nat :
        /\ P = BitAt(br, e) /\ P = at /\ e <= Len(file) /\ Sound(br, e, crcFrom, file) /\ At(e, P)
  BY <1>1, IdleIs
<1>3. ~astray
  BY <1>1, IdleIs
<1>4. /\ c \in Calls /\ c.op = op /\ c.n = n /\ c.left = l /\ c.count = 0 /\ c.ucbits = u
      /\ c.step = "scan"
  BY DEF Calls
<1> HIDE DEF c
<1>5. at \in Nat
  BY TypesAre
<1>6. Counted(c, br, at, crcFrom, file)
  <2>1. Zeros(file, at, at + c.count)
    BY <1>4, <1>5 DEF Zeros
  <2>2. op = "rice" => c.ucbits = Reader!Held(br) + c.count
    <3>1. PICK h \in Nat : h = u
      OBVIOUS
    <3>2. h = h + 0
      OBVIOUS
    <3> QED BY <1>4, <3>1, <3>2
  <2> QED BY <1>4, <2>1, <2>2 DEF Counted
<1>7. BitAt(br', e) = at' + BehindOf(call')
  <2>1. BehindOf(c) = 0 /\ P = P + 0
    BY <1>4 DEF BehindOf
  <2> QED BY <1>1, <1>2, <2>1
<1>8. /\ at' \in Nat /\ call' \in Calls /\ answer' \in Answers /\ answer'.ok /\ Sound(br', e, crcFrom, file)
      /\ Counted(call', br', at', crcFrom, file) /\ Failed(answer', e, file)
      /\ Returned(answer', call', at', FALSE, file)
  BY <1>1, <1>2, <1>4, <1>5, <1>6, NoCallIs
<1> QED BY <1>1, <1>2, <1>3, <1>7, <1>8, StillKept

LEMMA ReaderCallKeeps ==
  ASSUME ReaderInv,
         Reader!CallRaw \/ Reader!CallUnary \/ Reader!CallRice \/ Reader!CallSkip
  PROVE  Kept(br', call', answer', at', astray', crcFrom', fetched', file)
<1>1. WordBits \in Nat \ {0, 1} /\ 0 \in Nat
  BY BitSizes
<1>2. CASE Reader!CallRaw
  <2>1. PICK n \in RawSizes : Reader!Call("raw", n, 0, 0) /\ crcFrom' = crcFrom
    BY <1>2 DEF Reader!CallRaw
  <2>2. n \in Nat /\ n <= WordBits
    BY <1>1, ReaderAssumption
  <2> QED BY <1>1, <2>1, <2>2, CallBegins
<1>3. CASE Reader!CallUnary
  <2>1. Reader!Call("unary", 0, 0, 0) /\ crcFrom' = crcFrom
    BY <1>3 DEF Reader!CallUnary
  <2> QED BY <1>1, <2>1, CallBegins
<1>4. CASE Reader!CallRice
  <2>1. PICK n \in RiceParameters :
          Reader!Call("rice", n, BlockLength, Reader!Held(br)) /\ crcFrom' = crcFrom
    BY <1>4 DEF Reader!CallRice
  <2>2. n \in Nat /\ n < WordBits /\ BlockLength \in Nat /\ BlockLength > 0
    BY <1>1, ReaderAssumption
  <2>3. PICK u \in Nat : u = Reader!Held(br)
    <3>1. call.op = "none" /\ answer.ok
      BY <2>1 DEF Reader!Call
    <3>2. PICK e \in Nat, P \in Nat : Reader!Held(br) = e - P /\ P <= e
      BY <3>1, IdleIs, PlaceIs
    <3>3. e - P \in Nat
      BY <3>2
    <3> QED BY <3>2, <3>3
  <2>4. Reader!Call("rice", n, BlockLength, u)
    BY <2>1, <2>3
  <2> QED BY <2>1, <2>2, <2>3, <2>4, CallBegins
<1>5. CASE Reader!CallSkip
  <2>1. PICK n \in SkipSizes : Reader!Call("skip", n, 0, 0) /\ crcFrom' = crcFrom
    BY <1>5 DEF Reader!CallSkip
  <2>2. n \in Nat /\ n > 0 /\ crcFrom = Reader!None
    BY <1>5, ReaderAssumption DEF Reader!CallSkip
  <2> QED BY <1>1, <2>1, <2>2, CallBegins
<1> QED BY <1>2, <1>3, <1>4, <1>5

\* A reader that has lost its place can only be cleared.
LEMMA AstrayIs ==
  ASSUME ReaderInv, astray, Reader!Next
  PROVE  Reader!ClearCall
<1>1. call.op \in {"unary", "rice"} /\ call.step = "refill"
  BY DEF ReaderInv, ReaderNow, Kept
<1>2. ~Reader!Scanning /\ call.op # "none" /\ call.op # "raw" /\ call.op # "skip" /\ call.step # "binary"
  BY <1>1 DEF Reader!Scanning
<1>3. ~Reader!ReadRaw /\ ~Reader!ReadBinary /\ ~Reader!SkipPiece /\ ~Reader!SkipWord
  BY <1>2 DEF Reader!ReadRaw, Reader!ReadBinary, Reader!SkipPiece, Reader!SkipWord
<1>4. ~Reader!ScanZeros /\ ~Reader!ScanEnds /\ ~Reader!StopUnary /\ ~Reader!StopRice
  BY <1>2 DEF Reader!ScanZeros, Reader!ScanEnds, Reader!StopUnary, Reader!StopRice
<1>5. ~Reader!Refill /\ ~Reader!Fail
  BY DEF Reader!Refill, Reader!Fail
<1>6. ~Reader!CallRaw /\ ~Reader!CallUnary /\ ~Reader!CallRice /\ ~Reader!CallSkip
  BY <1>2 DEF Reader!CallRaw, Reader!CallUnary, Reader!CallRice, Reader!CallSkip, Reader!Call
<1>7. ~Reader!ResetCrc /\ ~Reader!GetCrc
  BY <1>2 DEF Reader!ResetCrc, Reader!GetCrc
<1> QED BY <1>3, <1>4, <1>5, <1>6, <1>7 DEF Reader!Next, Reader!Step

\* A call is running when it takes a step: the last did not fail.
LEMMA StepIs ==
  ASSUME ReaderInv, Reader!Step
  PROVE  answer.ok
<1>1. call.op # "none"
  <2>1. CASE Reader!ReadRaw
    BY <2>1 DEF Reader!ReadRaw
  <2>2. CASE Reader!ScanZeros \/ Reader!ScanEnds \/ Reader!StopUnary \/ Reader!StopRice
    BY <2>2 DEF Reader!ScanZeros, Reader!ScanEnds, Reader!StopUnary, Reader!StopRice,
                Reader!Scanning
  <2>3. CASE Reader!ReadBinary
    BY <2>3 DEF Reader!ReadBinary
  <2>4. CASE Reader!SkipPiece \/ Reader!SkipWord
    BY <2>4 DEF Reader!SkipPiece, Reader!SkipWord
  <2>5. CASE Reader!Refill \/ Reader!Fail
    BY <2>5 DEF Reader!Refill, Reader!Fail, Reader!WantsMore
  <2> QED BY <2>1, <2>2, <2>3, <2>4, <2>5 DEF Reader!Step
<1>2. ~answer.ok => call = Reader!NoCall
  BY DEF ReaderInv, ReaderNow, Kept
<1> QED BY <1>1, <1>2, NoCallIs

\* Every step of the reader.
LEMMA ReaderStepKeeps ==
  ASSUME ReaderInv, Reader!Next
  PROVE  Kept(br', call', answer', at', astray', crcFrom', fetched', file)
<1>1. CASE astray
  BY <1>1, AstrayIs, ClearCallKeeps
<1>2. CASE ~astray
  <2>1. CASE Reader!Step
    <3>0. answer.ok
      BY <2>1, StepIs
    <3>1. CASE Reader!ReadRaw
      BY <1>2, <3>0, <3>1, ReadRawKeeps
    <3>2. CASE Reader!ScanZeros
      BY <1>2, <3>0, <3>2, ScanZerosKeeps
    <3>3. CASE Reader!ScanEnds
      BY <1>2, <3>0, <3>3, ScanEndsKeeps
    <3>4. CASE Reader!StopUnary
      BY <1>2, <3>0, <3>4, StopUnaryKeeps
    <3>5. CASE Reader!StopRice
      BY <1>2, <3>0, <3>5, StopRiceKeeps
    <3>6. CASE Reader!ReadBinary
      BY <1>2, <3>0, <3>6, ReadBinaryKeeps
    <3>7. CASE Reader!SkipPiece
      BY <1>2, <3>0, <3>7, SkipPieceKeeps
    <3>8. CASE Reader!SkipWord
      BY <1>2, <3>0, <3>8, SkipWordKeeps
    <3>9. CASE Reader!Refill
      BY <1>2, <3>0, <3>9, RefillKeeps
    <3>10. CASE Reader!Fail
      BY <1>2, <3>0, <3>10, FailKeeps
    <3> QED BY <2>1, <3>1, <3>2, <3>3, <3>4, <3>5, <3>6, <3>7, <3>8, <3>9, <3>10 DEF Reader!Step
  <2>2. CASE Reader!CallRaw \/ Reader!CallUnary \/ Reader!CallRice \/ Reader!CallSkip
    BY <2>2, ReaderCallKeeps
  <2>3. CASE Reader!ClearCall
    BY <2>3, ClearCallKeeps
  <2>4. CASE Reader!ResetCrc
    BY <2>4, ResetCrcKeeps
  <2>5. CASE Reader!GetCrc
    BY <2>5, GetCrcKeeps
  <2> QED BY <2>1, <2>2, <2>3, <2>4, <2>5 DEF Reader!Next
<1>3. astray \in BOOLEAN
  BY TypesAre
<1> QED BY <1>1, <1>2, <1>3

\* The reader before it reads.
LEMMA ReaderBegins ==
  ASSUME NEW f \in Seq(Bit), Reader!Init
  PROVE  Kept(br, call, answer, at, astray, crcFrom, fetched, f)
<1>1. /\ br = Reader!EmptyReader /\ call = Reader!NoCall /\ answer = Reader!NoAnswer
      /\ at = 0 /\ fetched = 0 /\ astray = FALSE /\ crcFrom = Reader!None
  BY DEF Reader!Init
<1>2. 0 \in 0 .. WordBits - 1 /\ 0 * ByteBits = 0 /\ 0 <= Len(f)
  BY BitSizes
<1>3. Reader!EmptyReader = [Reader!EmptyReader EXCEPT !.align = 0]
  BY DEF Reader!EmptyReader
<1>4. Sound(Reader!EmptyReader, 0, Reader!None, f) /\ BitAt(Reader!EmptyReader, 0) = 0
  <2>1. LET x == [Reader!EmptyReader EXCEPT !.align = 0]
        IN  Sound(x, 0, Reader!None, f) /\ BitAt(x, 0) = 0
    BY <1>2, EmptyReaderIs
  <2> QED BY <1>3, <2>1
<1>5. Reader!EmptyReader \in Readers
  BY <1>4 DEF Sound, Buffered
<1>6. Typed(Reader!EmptyReader, Reader!NoCall, Reader!NoAnswer, 0, FALSE, Reader!None, 0)
  BY <1>5, NoCallIs DEF Typed
<1>7. InPlace(Reader!EmptyReader, Reader!NoCall, 0, Reader!None, 0, f)
  BY <1>4, NoCallIs DEF InPlace
<1>8. Kept(Reader!EmptyReader, Reader!NoCall, Reader!NoAnswer, 0, FALSE, Reader!None, 0, f)
  BY <1>2, <1>6, <1>7, NoCallIs DEF Kept
<1> QED BY <1>1, <1>8

\* The file is of whole bytes.
LEMMA FileIs == ASSUME WriterInv, WriteFile PROVE FileOfBytes'
<1>1. PICK memory \in Memory :
        GetBuffer(Begun(bw), memory).ok /\ file' = Bytes(GetBuffer(Begun(bw), memory))
  BY DEF WriteFile
<1>2. Good(bw) /\ bw.bits % ByteBits = 0
  BY DEF WriterInv, WriteFile, IsByteAligned
<1> DEFINE w == GetBuffer(Begun(bw), memory)
<1>3. Good(w) /\ Contents(w) = Contents(bw)
  BY <1>2, BegunIs, GetBufferIs
<1>4. file' = Contents(bw)
  BY <1>1, <1>3, BytesAre
<1>5. PICK n \in Nat, b \in Nat :
        /\ n = bw.words /\ b = bw.bits /\ Len(bw.buffer) = n * WordBits
        /\ bw.buffer \in Seq(Bit) /\ bw.accum \in Word /\ b \in 0 .. WordBits
  BY <1>2, GoodIs
<1>6. Len(Contents(bw)) = n * WordBits + b /\ Contents(bw) \in Seq(Bit)
  <2>1. Low(bw.accum, b) \in Seq(Bit) /\ Len(Low(bw.accum, b)) = b
    BY <1>5, LowIs
  <2> DEFINE L == Low(bw.accum, b)
  <2>2. Contents(bw) = bw.buffer \o L
    BY <1>5 DEF Contents
  <2> HIDE DEF L
  <2>3. L \in Seq(Bit) /\ Len(L) = b
    BY <2>1 DEF L
  <2>4. bw.buffer \o L \in Seq(Bit) /\ Len(bw.buffer \o L) = Len(bw.buffer) + Len(L)
    BY <1>5, <2>3
  <2> QED BY <1>5, <2>2, <2>3, <2>4
<1>7. PICK q \in Nat : b = q * ByteBits
  <2> DEFINE d == b \div ByteBits
             r == b % ByteBits
  <2>1. d \in Int /\ b = d * ByteBits + r
    BY BitSizes, DivIs
  <2>2. r = 0
    BY <1>2, <1>5
  <2> HIDE DEF d, r
  <2>4. b = d * ByteBits
    BY <2>1, <2>2, BitSizes
  <2>3. d \in Nat
    <3> SUFFICES ASSUME d < 0 PROVE FALSE
      BY <2>1
    <3>1. PICK m \in Nat : d = 0 - m /\ m > 0
      <4>1. 0 - d \in Nat /\ d = 0 - (0 - d) /\ 0 - d > 0
        BY <2>1
      <4> QED BY <4>1
    <3>2. d * ByteBits = 0 - m * ByteBits /\ m * ByteBits > 0
      BY <3>1, BitSizes
    <3> DEFINE t == m * ByteBits
    <3>3. b = 0 - t /\ t > 0 /\ t \in Int
      BY <2>4, <3>1, <3>2, BitSizes
    <3> HIDE DEF t
    <3> QED BY <3>3
  <2> QED BY <2>3, <2>4
<1>8. \E k \in Nat : Len(Contents(bw)) = k * ByteBits
  <2>1. PICK B \in Nat : WordBits = B * ByteBits
    BY WordIsBytes
  <2>2. n * WordBits + b = (n * B + q) * ByteBits /\ n * B + q \in Nat
    BY <1>7, <2>1, BitSizes
  <2> QED BY <1>6, <2>2
<1> QED BY <1>4, <1>6, <1>8 DEF FileOfBytes

LEMMA ReaderInvHolds == Spec => []ReaderInv
<1>1. Init => ReaderInv
  <2> SUFFICES ASSUME Init PROVE ReaderInv
    OBVIOUS
  <2>1. Reader!Init /\ file = <<>> /\ phase = "write"
    BY DEF Init
  <2>2. file \in Seq(Bit) /\ Len(file) = 0 * ByteBits
    BY <2>1, BitSizes
  <2>3. ReaderNow
    BY <2>1, <2>2, ReaderBegins DEF ReaderNow
  <2> QED BY <2>1, <2>2, <2>3 DEF ReaderInv, FileOfBytes
<1>2. WriterInv /\ ReaderInv /\ [Next]_vars => ReaderInv'
  <2> SUFFICES ASSUME WriterInv, ReaderInv, [Next]_vars PROVE ReaderInv'
    OBVIOUS
  <2>1. ASSUME UNCHANGED <<br, call, answer, at, astray, crcFrom, file, fetched, phase>>
        PROVE  ReaderInv'
    BY <2>1 DEF ReaderInv, FileOfBytes, ReaderNow, Reader!Init
  <2>2. CASE WriteStep
    BY <2>1, <2>2 DEF WriteStep, readerVars
  <2>3. CASE UNCHANGED vars
    BY <2>1, <2>3 DEF vars
  <2>4. CASE WriteFile
    <3>1. /\ phase = "write" /\ phase' = "read"
          /\ UNCHANGED <<br, call, answer, at, astray, crcFrom, fetched>>
      BY <2>4 DEF WriteFile, readerVars
    <3>2. FileOfBytes'
      BY <2>4, FileIs
    <3>3. Reader!Init
      BY <3>1 DEF ReaderInv
    <3>4. file' \in Seq(Bit)
      BY <3>2 DEF FileOfBytes
    <3>5. Kept(br, call, answer, at, astray, crcFrom, fetched, file')
      BY <3>3, <3>4, ReaderBegins
    <3>6. ReaderNow'
      BY <3>1, <3>5 DEF ReaderNow
    <3> QED BY <3>1, <3>2, <3>6 DEF ReaderInv
  <2>5. CASE ReadCall
    <3>1. phase = "read" /\ phase' = phase /\ file' = file /\ Reader!Next
      BY <2>5 DEF ReadCall
    <3>2. Kept(br', call', answer', at', astray', crcFrom', fetched', file)
      BY <3>1, ReaderStepKeeps
    <3>3. ReaderNow'
      BY <3>1, <3>2 DEF ReaderNow
    <3>4. FileOfBytes'
      BY <3>1 DEF ReaderInv, FileOfBytes
    <3> QED BY <3>1, <3>3, <3>4 DEF ReaderInv
  <2> QED BY <2>2, <2>3, <2>4, <2>5 DEF Next
<1> QED BY <1>1, <1>2, WriterInvHolds, PTL DEF Spec

\* Where the reader says it is.
LEMMA PositionIs ==
  ASSUME ReaderInv, ~astray
  PROVE  /\ Reader!Position = at + Reader!Behind
         /\ \E e \in Nat, P \in Nat :
              \E w \in Seq(Bit) :
                /\ P = BitAt(Intact(br, w), e) /\ P = Reader!Position
                /\ Sound(Intact(br, w), e, crcFrom, file)
<1>1. /\ file \in Seq(Bit) /\ fetched \in Nat /\ br \in Readers
      /\ fetched * ByteBits <= Len(file)
  BY TypesAre DEF ReaderInv, ReaderNow, Kept
<1>2. PICK e \in Nat : e = fetched * ByteBits
  BY <1>1, WordIsBytes
<1>3. PICK w \in Seq(Bit) : InPlace(Intact(br, w), call, at, crcFrom, e, file)
  <2>1. CASE answer.ok
    <3>1. br.buffer \in Seq(Bit) /\ Intact(br, br.buffer) = br
      BY <1>1 DEF Intact, Readers
    <3>2. InPlace(br, call, at, crcFrom, e, file)
      BY <1>2, <2>1 DEF ReaderInv, ReaderNow, Kept
    <3> QED BY <3>1, <3>2
  <2>2. CASE ~answer.ok
    BY <1>2, <2>2 DEF ReaderInv, ReaderNow, Kept
  <2> QED BY <2>1, <2>2
<1> DEFINE b == Intact(br, w)
<1>4. Sound(b, e, crcFrom, file) /\ BitAt(b, e) = at + BehindOf(call)
  BY <1>3 DEF InPlace
<1>5. /\ b.words = br.words /\ b.bytes = br.bytes /\ b.words_read = br.words_read
      /\ b.bits_read = br.bits_read
  BY <1>1 DEF Intact, Readers
<1> HIDE DEF b
<1>6. Reader!Held(br) = Reader!Held(b)
  BY <1>5 DEF Reader!Held
<1>7. PICK P \in Nat : P = BitAt(b, e) /\ Reader!Held(b) = e - P
  <2>1. Buffered(b, e, file)
    BY <1>4 DEF Sound
  <2> QED BY <1>1, <2>1, BufferedIs
<1>8. e - (e - P) = P
  OBVIOUS
<1>9. Reader!Position = P
  BY <1>2, <1>6, <1>7, <1>8 DEF Reader!Position
<1>10. Reader!Behind = BehindOf(call)
  BY DEF Reader!Behind, BehindOf
<1> QED BY <1>2, <1>4, <1>7, <1>9, <1>10 DEF b

\* Every variable, of the writer, the file and the reader, has its type.
THEOREM TypesAreRight == Spec => []TypeOK
<1>1. WriterInv /\ ReaderInv => TypeOK
  <2> SUFFICES ASSUME WriterInv, ReaderInv PROVE TypeOK
    OBVIOUS
  <2>1. WriterTypeOK
    BY GoodIs DEF WriterInv, WriterTypeOK
  <2>2. Reader!Bit = Bit /\ Bit = {0, 1}
    BY DEF Reader!Bit, Bit
  <2>3. br \in Readers /\ call \in Calls /\ answer \in Answers /\ at \in Nat /\ fetched \in Nat
        /\ astray \in BOOLEAN /\ crcFrom \in Nat \cup {Reader!None} /\ file \in Seq(Bit)
    BY TypesAre
  <2>4. Reader!TypeOK
    BY <2>2, <2>3 DEF Reader!TypeOK, Readers, Calls, Answers
  <2> QED BY <2>1, <2>2, <2>3, <2>4 DEF TypeOK, ReaderInv
<1> QED BY <1>1, WriterInvHolds, ReaderInvHolds, PTL

\* The CRC the decoder asks for at the end of a frame is of all the bits from where it was
\* reset, each of them once, whatever the calls, the alignment and the bytes that came in
\* between: so a frame is refused for its CRC only if its bits are not what was written.
THEOREM CrcIsOfTheFrame == Spec => []CrcCovers
<1>1. ReaderInv => CrcCovers
  <2> SUFFICES ASSUME ReaderInv, crcFrom # Reader!None, ~astray
               PROVE  br.crc = SubSeq(file, crcFrom + 1,
                                      Reader!Position - br.bits_read + br.align)
    BY DEF CrcCovers, Reader!CrcCovers
  <2>1. PICK e \in Nat, P \in Nat, w \in Seq(Bit) :
          /\ P = BitAt(Intact(br, w), e) /\ P = Reader!Position
          /\ Sound(Intact(br, w), e, crcFrom, file)
    BY PositionIs
  <2> DEFINE b == Intact(br, w)
  <2>2. b.bits_read = br.bits_read /\ b.align = br.align /\ b.crc = br.crc
    BY TypesAre DEF Intact, Readers
  <2>3. P = BitAt(b, e) /\ Sound(b, e, crcFrom, file)
    BY <2>1
  <2> HIDE DEF b
  <2>4. b.crc = Slice(file, crcFrom, WordStart(b, e) + b.align)
    BY <2>3 DEF Sound, Summed
  <2>5. Buffered(b, e, file) /\ file \in Seq(Bit)
    BY <2>3, TypesAre DEF Sound
  <2>6. PICK S \in Nat, Q \in Nat, k \in Nat, v \in Nat :
          Named(b, e, S, Q, k, v) /\ Placed(b, e, file, S, Q, k, v)
    BY <2>5, Numbers
  <2>7. Q - k = S
    BY <2>6 DEF Placed
  <2>8. Reader!Position - b.bits_read = WordStart(b, e)
    BY <2>1, <2>3, <2>6, <2>7 DEF Named
  <2> QED BY <2>2, <2>4, <2>8 DEF Slice
<1> QED BY <1>1, ReaderInvHolds, PTL

\* A call fails only when every byte of the file was fetched and what it was to read is not
\* in it: never because the buffer is full, or because the callback gave few bytes at a time.
THEOREM FailuresAreHonest == Spec => []FailsOnlyAtEnd
<1>1. ReaderInv => FailsOnlyAtEnd
  <2> SUFFICES ASSUME ReaderInv, ~answer.ok PROVE Reader!FailsOnlyAtEnd
    BY DEF FailsOnlyAtEnd, Reader!FailsOnlyAtEnd
  <2>1. Failed(answer, fetched * ByteBits, file)
    BY DEF ReaderInv, ReaderNow, Kept
  <2>2. PICK k \in Nat, g \in Nat :
          g = fetched /\ Len(file) = k * ByteBits /\ g <= k /\ Reader!BytesLeft = k - g
    BY BytesLeftIs
  <2>3. g * ByteBits = k * ByteBits
    BY <2>1, <2>2 DEF Failed
  <2>4. k = g
    <3> SUFFICES ASSUME k # g PROVE FALSE
      OBVIOUS
    <3>1. PICK d \in Nat : k = g + d + 1
      <4>1. k - g - 1 \in Nat /\ k = g + (k - g - 1) + 1
        BY <2>2
      <4> QED BY <4>1
    <3>2. k * ByteBits = g * ByteBits + d * ByteBits + ByteBits /\ d * ByteBits \in Nat
          /\ g * ByteBits \in Nat
      BY <3>1, BitSizes
    <3> DEFINE a == g * ByteBits
               c == d * ByteBits
    <3>3. a = a + c + ByteBits /\ a \in Nat /\ c \in Nat
      BY <2>3, <3>2
    <3> HIDE DEF a, c
    <3> QED BY <3>3, BitSizes
  <2>5. Reader!BytesLeft = 0
    BY <2>2, <2>4
  <2> QED BY <2>1, <2>5 DEF Failed, Reader!FailsOnlyAtEnd, Reader!MaxBits, Slice
<1> QED BY <1>1, ReaderInvHolds, PTL

\* Whatever a call returns, raw bits, a unary or a Rice code, or bits that were skipped, is
\* what the file has from where the call began, and the next call begins behind it.
THEOREM ReadsBack == Spec => []ReadBack
<1>1. ReaderInv => ReadBack
  <2> SUFFICES ASSUME ReaderInv PROVE ReadBack
    OBVIOUS
  <2>1. Returned(answer, call, at, astray, file)
    BY DEF ReaderInv, ReaderNow, Kept
  <2> QED BY <2>1 DEF Returned, ReadBack, Slice
<1> QED BY <1>1, ReaderInvHolds, PTL

\* The reader loses its place in no other way than by running over the tail of the buffer,
\* part of which was consumed, in search of a stop bit.
THEOREM PlaceIsLostOnlySo == Spec => [](~astray => PlaceKept)
<1>1. ReaderInv => (~astray => PlaceKept)
  BY PositionIs DEF PlaceKept, Reader!PlaceKept
<1> QED BY <1>1, ReaderInvHolds, PTL
=============================================================================
