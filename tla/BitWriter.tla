------------------------------ MODULE BitWriter ------------------------------
(***************************************************************************)
(* The bit writer of HooFlac's encoder (alchemybuild/bitwriter.c): values  *)
(* of any number of bits are collected in an accumulator, and in a buffer  *)
(* of whole words that grows as it is needed.                              *)
(*                                                                         *)
(* A value is the sequence of its bits, the most significant first, and a  *)
(* word is WordBits of them.  The accumulator is right-justified: what is  *)
(* left of its last `bits' bits is of no account, and is not always zero.  *)
(* A call is a function of the writer's record, whose `ok' is what the     *)
(* call returns: a && b is b applied to what a leaves.  `top' is how many  *)
(* words of the buffer the last store made use of, and `written' what all  *)
(* calls since the last clear were to write.                               *)
(***************************************************************************)
EXTENDS Integers, Sequences

CONSTANTS
  WordBits,          \* FLAC__BITS_PER_WORD
  ByteBits,          \* 8
  WriterCapacity,    \* FLAC__BITWRITER_DEFAULT_CAPACITY
  WriterIncrement,   \* FLAC__BITWRITER_DEFAULT_INCREMENT
  Memory,            \* how many words the allocator may be able to give
  MaxWritten         \* bounds what the client below writes

ASSUME WriterAssumption ==
  /\ ByteBits \in Nat \ {0, 1}
  /\ WordBits \in Nat \ {0, 1} /\ WordBits % ByteBits = 0
  /\ WriterCapacity \in Nat \ {0}
  /\ WriterIncrement \in Nat \ {0}
  /\ Memory \subseteq Nat
  /\ MaxWritten \in Nat

VARIABLES
  bw,        \* the FLAC__BitWriter
  written

writerVars == <<bw, written>>

Bit == {0, 1}
Word == [1 .. WordBits -> Bit]
NoBits(n) == [i \in 1 .. n |-> 0]

Writers ==
  [buffer : Seq(Bit), words : Nat, accum : Word, bits : 0 .. WordBits - 1,
   capacity : Nat, top : Nat, ok : BOOLEAN]

WriterTypeOK == bw \in Writers /\ written \in Seq(Bit)

\* FLAC__bitwriter_init.
WriterInit ==
  /\ bw = [buffer |-> <<>>, words |-> 0, accum |-> NoBits(WordBits), bits |-> 0,
           capacity |-> WriterCapacity, top |-> 0, ok |-> TRUE]
  /\ written = <<>>

-----------------------------------------------------------------------------
(* Words.                                                                  *)

\* accum <<= Len(v); accum |= v, for a v of at most a word.
ShiftIn(accum, v) == SubSeq(accum \o v, Len(v) + 1, Len(v) + WordBits)

\* The n bits of a word that are of account.
Low(word, n) == SubSeq(word, WordBits - n + 1, WordBits)

\* What the writer holds.
Contents(w) == w.buffer \o Low(w.accum, w.bits)

Store(w, word) ==
  [w EXCEPT !.buffer = @ \o word, !.words = @ + 1, !.top = w.words + 1]

\* n words of zeros.
StoreZeros(w, n) ==
  IF n = 0 THEN w
  ELSE [w EXCEPT !.buffer = @ \o NoBits(n * WordBits), !.words = @ + n,
                 !.top = w.words + n]

WordsNeeded(w, n) == w.words + (w.bits + n + WordBits - 1) \div WordBits

RoundedUp(w, n) ==
  LET over == (n - w.capacity) % WriterIncrement
  IN  IF over = 0 THEN n ELSE n + WriterIncrement - over

\* bitwriter_grow_, when the allocator has no more than `memory' words.
Grow(w, n, memory) ==
  LET new == WordsNeeded(w, n)
  IN  IF w.capacity >= new THEN w
      ELSE IF RoundedUp(w, new) > memory THEN [w EXCEPT !.ok = FALSE]
      ELSE [w EXCEPT !.capacity = RoundedUp(w, new)]

\* The size check the writing calls begin with.
Room(w, n, memory) ==
  IF w.capacity <= w.words + n THEN Grow(w, n, memory) ELSE w

-----------------------------------------------------------------------------
(* The calls.                                                              *)

\* Zeros on an accumulator that has room for them, or is filled by them.
FillAccum(w, n) ==
  LET accum == ShiftIn(w.accum, NoBits(n))
  IN  IF w.bits + n < WordBits
      THEN [w EXCEPT !.accum = accum, !.bits = @ + n]
      ELSE [Store(w, accum) EXCEPT !.accum = accum, !.bits = 0]

\* Zeros on an empty accumulator: whole words, then the leftovers.
ZeroWords(w, n) ==
  LET s == StoreZeros(w, n \div WordBits)
  IN  IF n % WordBits = 0 THEN s
      ELSE [s EXCEPT !.accum = NoBits(WordBits), !.bits = n % WordBits]

\* Mutant: the zeros that align the accumulator are counted twice.
PutZerosTwice(w, n) ==
  LET left == WordBits - w.bits
  IN  IF w.bits = 0 THEN ZeroWords(w, n)
      ELSE IF n < left THEN FillAccum(w, n)
      ELSE ZeroWords(FillAccum(w, left), n)

PutZeros(w, n) ==
  LET left == WordBits - w.bits
  IN  IF w.bits = 0 THEN ZeroWords(w, n)
      ELSE IF n < left THEN FillAccum(w, n)
      ELSE ZeroWords(FillAccum(w, left), n - left)

\* FLAC__bitwriter_write_zeroes
WriteZeros(w, n, memory) ==
  IF n = 0 \/ ~w.ok THEN w
  ELSE LET r == Room(w, n, memory)
       IN  IF r.ok THEN PutZeros(r, n) ELSE r

\* Mutant: a full word is kept in an empty accumulator.
PutKeeping(w, v) ==
  LET left == WordBits - w.bits
  IN  IF Len(v) < left
      THEN [w EXCEPT !.accum = ShiftIn(@, v), !.bits = @ + Len(v)]
      ELSE [Store(w, ShiftIn(w.accum, SubSeq(v, 1, left))) EXCEPT
              !.accum = ShiftIn(NoBits(WordBits), v),
              !.bits = Len(v) - left + 1]

\* A value that fits the accumulator, fills it, or is split: the accumulator is
\* then the value itself, the part that went to the buffer included.
Put(w, v) ==
  LET left == WordBits - w.bits
  IN  IF Len(v) < left
      THEN [w EXCEPT !.accum = ShiftIn(@, v), !.bits = @ + Len(v)]
      ELSE [Store(w, ShiftIn(w.accum, SubSeq(v, 1, left))) EXCEPT
              !.accum = ShiftIn(NoBits(WordBits), v),
              !.bits = Len(v) - left]

\* FLAC__bitwriter_write_raw_uint32, of at most a word.
WriteRaw(w, v, memory) ==
  IF v = <<>> \/ ~w.ok THEN w
  ELSE LET r == Room(w, Len(v), memory)
       IN  IF r.ok THEN Put(r, v) ELSE r

\* FLAC__bitwriter_write_raw_uint64, of two words or less.
WriteLong(w, v, memory) ==
  LET high == IF Len(v) > WordBits THEN Len(v) - WordBits ELSE 0
  IN  WriteRaw(WriteRaw(w, SubSeq(v, 1, high), memory),
               SubSeq(v, high + 1, Len(v)), memory)

UnaryCode(n) == NoBits(n) \o <<1>>

\* FLAC__bitwriter_write_unary_unsigned
WriteUnary(w, n, memory) ==
  IF n < WordBits THEN WriteRaw(w, UnaryCode(n), memory)
  ELSE WriteRaw(WriteZeros(w, n, memory), <<1>>, memory)

-----------------------------------------------------------------------------
(* Rice codes: of a value msbs * 2^parameter + lsbs, where lsbs is given   *)
(* as the sequence of its bits, parameter is their number.                 *)

RiceCode(msbs, lsbs) == NoBits(msbs) \o (<<1>> \o lsbs)

\* FLAC__bitwriter_write_rice_signed
WriteRice(w, msbs, lsbs, memory) ==
  IF 1 + Len(lsbs) + msbs <= WordBits
  THEN WriteRaw(w, RiceCode(msbs, lsbs), memory)
  ELSE WriteRaw(WriteZeros(w, msbs, memory), <<1>> \o lsbs, memory)

\* Mutant: the check leaves out the unary part.
RiceRoomShort(w, msbs, lsbs, memory) ==
  IF w.capacity <= w.words + w.bits + 1
  THEN Grow(w, 1 + Len(lsbs), memory) ELSE w

RiceRoom(w, msbs, lsbs, memory) ==
  IF w.capacity <= w.words + w.bits + msbs + 1
  THEN Grow(w, msbs + 1 + Len(lsbs), memory) ELSE w

\* FLAC__bitwriter_write_rice_signed_block, of one value: the whole of it in the
\* accumulator, or the unary part by zeros, then stop bit and the rest.
WriteRiceOfBlock(w, msbs, lsbs, memory) ==
  IF w.bits > 0 /\ w.bits + msbs + 1 + Len(lsbs) < WordBits
  THEN [w EXCEPT !.accum = ShiftIn(@, RiceCode(msbs, lsbs)),
                 !.bits = @ + msbs + 1 + Len(lsbs)]
  ELSE LET r == RiceRoom(w, msbs, lsbs, memory)
       IN  IF r.ok THEN Put(PutZeros(r, msbs), <<1>> \o lsbs) ELSE r

-----------------------------------------------------------------------------
(* The buffer.                                                             *)

\* FLAC__bitwriter_get_buffer: the bits in the accumulator are put behind the
\* words, and stay where they are.
GetBuffer(w, memory) ==
  LET r == IF w.bits > 0 /\ w.words = w.capacity
           THEN Grow(w, WordBits, memory) ELSE w
  IN  IF r.bits = 0 \/ ~r.ok THEN r ELSE [r EXCEPT !.top = r.words + 1]

\* What it returns: bytes up to the last bit.
Bytes(w) == w.buffer \o SubSeq(ShiftIn(w.accum, NoBits(WordBits - w.bits)),
                               1, w.bits)

IsByteAligned(w) == w.bits % ByteBits = 0

Pad(w) == IF IsByteAligned(w) THEN 0 ELSE ByteBits - (w.bits % ByteBits)

\* FLAC__bitwriter_zero_pad_to_byte_boundary
ZeroPad(w, memory) == WriteZeros(w, Pad(w), memory)

\* FLAC__bitwriter_clear: the accumulator is left as it is.
Clear(w) == [w EXCEPT !.buffer = <<>>, !.words = 0, !.bits = 0, !.top = 0]

-----------------------------------------------------------------------------
(* A client.  Of a call that fails, a beginning of the code may be in.     *)

Begun(w) == [w EXCEPT !.ok = TRUE]

Taken(w) == Len(Contents(w)) - Len(Contents(bw))

Write(w, code) ==
  /\ bw' = w
  /\ written' = written \o (IF w.ok THEN code ELSE SubSeq(code, 1, Taken(w)))

Values(n) == UNION {[1 .. k -> Bit] : k \in 0 .. n}

Left == MaxWritten - Len(Contents(bw))

ZerosCall(memory) ==
  \E n \in 0 .. Left : Write(WriteZeros(Begun(bw), n, memory), NoBits(n))

RawCall(memory) ==
  \E v \in Values(WordBits) :
    Len(v) <= Left /\ Write(WriteRaw(Begun(bw), v, memory), v)

LongCall(memory) ==
  \E v \in Values(2 * WordBits) :
    Len(v) <= Left /\ Write(WriteLong(Begun(bw), v, memory), v)

UnaryCall(memory) ==
  \E n \in 0 .. Left - 1 : Write(WriteUnary(Begun(bw), n, memory), UnaryCode(n))

RiceCall(memory) ==
  \E lsbs \in Values(WordBits - 1) : \E msbs \in 0 .. Left - 1 - Len(lsbs) :
    Write(WriteRice(Begun(bw), msbs, lsbs, memory), RiceCode(msbs, lsbs))

\* The stop bit and the rest are less than a word.
RiceBlockCall(memory) ==
  \E lsbs \in Values(WordBits - 2) : \E msbs \in 0 .. Left - 1 - Len(lsbs) :
    Write(WriteRiceOfBlock(Begun(bw), msbs, lsbs, memory), RiceCode(msbs, lsbs))

PadCall(memory) ==
  Pad(bw) <= Left /\ Write(ZeroPad(Begun(bw), memory), NoBits(Pad(bw)))

\* For the CRC of what there is so far, or to write it out.
BufferCall(memory) ==
  IsByteAligned(bw) /\ Write(GetBuffer(Begun(bw), memory), <<>>)

ClearCall == bw' = Clear(bw) /\ written' = <<>>

WriterNext ==
  \/ \E memory \in Memory :
       \/ ZerosCall(memory) \/ RawCall(memory) \/ LongCall(memory)
       \/ UnaryCall(memory) \/ RiceCall(memory) \/ RiceBlockCall(memory)
       \/ PadCall(memory) \/ BufferCall(memory)
  \/ ClearCall

WriterSpec == WriterInit /\ [][WriterNext]_writerVars

-----------------------------------------------------------------------------
(* Properties.                                                             *)

\* The words and the accumulator hold what was written since the last clear, bit
\* by bit, whatever the alignment at which a value began, and of a call that was
\* refused memory no more than a beginning; so do the bytes get_buffer returns.
WrittenIntact == Contents(bw) = written /\ Bytes(bw) = written

\* No word is stored behind the end of the buffer: the size checks, which are not
\* exact, never let through a call that needs more.
InBuffer == bw.top <= bw.capacity /\ bw.words <= bw.capacity
=============================================================================
