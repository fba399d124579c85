------------------------------ MODULE BitReader ------------------------------
(***************************************************************************)
(* The bit reader of HooFlac's decoder (alchemybuild/bitreader.c): values  *)
(* of any number of bits are read off a buffer of words, which a callback  *)
(* fills with as many bytes as it happens to have.                         *)
(*                                                                         *)
(* buffer is the bits of the complete words, and of the incomplete one at  *)
(* the tail.  A call reads, scans for a stop bit and asks the callback for *)
(* more, until it is done or the callback says that there is no more: each *)
(* of these is a step.  file and fetched are the callback's side: the bits *)
(* there are, and how many bytes of them it has given.                     *)
(*                                                                         *)
(* at is the history of the answers: how many bits they stand for.  The    *)
(* CRC is known by the bits that went into it since it was reset; what     *)
(* goes into one that was not is left out.                                 *)
(***************************************************************************)
EXTENDS Integers, Sequences

CONSTANTS
  WordBits,          \* FLAC__BITS_PER_WORD
  ByteBits,          \* 8
  ReaderCapacity,    \* FLAC__BITREADER_DEFAULT_CAPACITY
  RawSizes,          \* how many bits the client below reads at a time, ...
  RiceParameters,    \* ... the parameters of the Rice codes it reads, ...
  SkipSizes,         \* ... and how many bits it skips
  BlockLength        \* how many Rice codes it reads with one call

VARIABLES
  br,        \* the FLAC__BitReader; words_read, bits_read: consumed_...
  call,      \* the call that is running, with its local variables
  answer,    \* what the last call, or the last part of it, returned
  at,
  astray,    \* the reader has lost its place
  crcFrom,   \* where the CRC was reset, or None
  file, fetched

readerVars == <<br, call, answer, at, astray, crcFrom, fetched>>

Bit == {0, 1}
None == -1
NoCall == [op |-> "none", n |-> 0, left |-> 0, count |-> 0, ucbits |-> 0,
           step |-> "scan"]
NoAnswer == [op |-> "none", n |-> 0, ok |-> TRUE, from |-> 0, count |-> 0,
             bits |-> <<>>]

WordBytes == WordBits \div ByteBits
MaxBits == Len(file)

TypeOK ==
  /\ br \in [buffer : Seq(Bit), words : Nat, bytes : 0 .. WordBytes - 1,
             words_read : Nat, bits_read : Nat, crc : Seq(Bit),
             align : 0 .. WordBits - 1]
  /\ call \in [op : {"none", "raw", "unary", "rice", "skip"}, n : Nat, left : Nat,
               count : Nat, ucbits : Nat, step : {"scan", "refill", "binary"}]
  /\ answer \in [op : {"none", "raw", "unary", "rice", "skip"}, n : Nat,
                 ok : BOOLEAN, from : Nat, count : Nat, bits : Seq(Bit)]
  /\ at \in Nat /\ fetched \in Nat
  /\ astray \in BOOLEAN
  /\ crcFrom \in Nat \cup {None}

EmptyReader == [buffer |-> <<>>, words |-> 0, bytes |-> 0, words_read |-> 0,
                bits_read |-> 0, crc |-> <<>>, align |-> 0]

\* FLAC__bitreader_init.
Init ==
  /\ br = EmptyReader
  /\ call = NoCall /\ answer = NoAnswer
  /\ at = 0 /\ fetched = 0
  /\ astray = FALSE
  /\ crcFrom = None

-----------------------------------------------------------------------------
(* The buffer.                                                             *)

\* FLAC__bitreader_get_input_bits_unconsumed
Held(b) ==
  (b.words - b.words_read) * WordBits + b.bytes * ByteBits - b.bits_read

\* The word at which the reader is: WordBits of it, less if it is the tail.
HeadWord(b) ==
  LET start == b.words_read * WordBits
      end == start + WordBits
  IN  SubSeq(b.buffer, start + 1, IF end > Len(b.buffer) THEN Len(b.buffer) ELSE end)

AtWholeWord(b) == b.words_read < b.words

\* Mutant: the bytes before the CRC was reset go into it too.
CrcdWhole(b, end) == IF crcFrom = None THEN <<>> ELSE SubSeq(HeadWord(b), 1, end)

\* The bytes of the word from crc16_align to end.
Crcd(b, end) ==
  IF crcFrom = None THEN <<>> ELSE SubSeq(HeadWord(b), b.align + 1, end)

\* crc16_update_word_
WithCrc(b) == [b EXCEPT !.crc = @ \o Crcd(b, WordBits), !.align = 0]

NextWord(b) == [b EXCEPT !.words_read = @ + 1, !.bits_read = 0]

\* Mutant: the words that were read are dropped, but still counted as read.
ShiftedKeeping(b) ==
  [b EXCEPT !.buffer = SubSeq(@, b.words_read * WordBits + 1, Len(@)),
            !.words = @ - b.words_read]

\* bitreader_read_from_client_: what was read is shifted out, ...
Shifted(b) ==
  [b EXCEPT !.buffer = SubSeq(@, b.words_read * WordBits + 1, Len(@)),
            !.words = @ - b.words_read, !.words_read = 0]

Space(b) == (ReaderCapacity - b.words) * WordBytes - b.bytes

\* ... and n bytes from the callback are put behind what is left.
Filled(b, n) ==
  LET end == b.words * WordBytes + b.bytes + n
  IN  [b EXCEPT !.buffer = @ \o SubSeq(file, fetched * ByteBits + 1,
                                       (fetched + n) * ByteBits),
                !.words = end \div WordBytes, !.bytes = end % WordBytes]

BytesLeft == MaxBits \div ByteBits - fetched

-----------------------------------------------------------------------------
(* Taking n bits, when there are as many.                                  *)

\* Those that end before the word does, ...
Within(b, n) == n < WordBits - b.bits_read

TakeWithin(b, n) ==
  [rest |-> [b EXCEPT !.bits_read = @ + n],
   bits |-> SubSeq(HeadWord(b), b.bits_read + 1, b.bits_read + n)]

\* ... and those that take the rest of it and go on in the next.
TakeAcross(b, n) ==
  LET next == NextWord(WithCrc(b))
      over == n - (WordBits - b.bits_read)
  IN  [rest |-> [next EXCEPT !.bits_read = over],
       bits |-> SubSeq(HeadWord(b), b.bits_read + 1, WordBits)
                  \o SubSeq(HeadWord(next), 1, over)]

\* FLAC__bitreader_read_raw_uint32, of at most a word.  All of the bits are in
\* the tail if it is there that the reader is.
Take(b, n) ==
  IF n = 0 THEN [rest |-> b, bits |-> <<>>]
  ELSE IF AtWholeWord(b) /\ ~Within(b, n) THEN TakeAcross(b, n)
  ELSE TakeWithin(b, n)

-----------------------------------------------------------------------------
(* Scanning a word for the stop bit.                                       *)

HasStop(bits) == \E i \in 1 .. Len(bits) : bits[i] = 1

\* COUNT_ZERO_MSBS
ZeroMSBs(bits) ==
  CHOOSE i \in 0 .. Len(bits) - 1 :
    bits[i + 1] = 1 /\ \A j \in 1 .. i : bits[j] = 0

Unread(b) == SubSeq(HeadWord(b), b.bits_read + 1, Len(HeadWord(b)))

\* Up to and with the stop bit.
Stopped(b) ==
  LET end == b.bits_read + ZeroMSBs(Unread(b)) + 1
  IN  IF AtWholeWord(b) /\ end >= WordBits THEN NextWord(WithCrc(b))
      ELSE [b EXCEPT !.bits_read = end]

\* Mutant: counted from the beginning of the word.
ZerosInWord(b) == Len(HeadWord(b))

ZerosRead(b) == Len(HeadWord(b)) - b.bits_read

\* Over zeros only.  In the tail, its bits are added to what was read of it
\* before, which is right only if that is none.
Passed(b) ==
  IF AtWholeWord(b) THEN NextWord(WithCrc(b))
  ELSE [b EXCEPT !.bits_read = @ + b.bytes * ByteBits]

-----------------------------------------------------------------------------
(* The steps of a call.                                                    *)

\* How much of the call's own bits the reader has behind it.
Behind ==
  IF call.step = "binary" THEN call.count + 1 ELSE call.count

Return(n, bits, next) ==
  /\ answer' = [op |-> call.op, n |-> n, ok |-> TRUE, from |-> at,
                count |-> call.count, bits |-> bits]
  /\ at' = at + Behind + Len(bits)
  /\ call' = next

ReadRaw ==
  /\ call.op = "raw" /\ Held(br) >= call.n
  /\ LET t == Take(br, call.n)
     IN  br' = t.rest /\ Return(call.n, t.bits, NoCall)
  /\ UNCHANGED <<astray, crcFrom, fetched>>

Scanning == call.op \in {"unary", "rice"} /\ call.step = "scan"

\* A word, or a tail, of zeros: go on behind it.
ScanZeros ==
  /\ Scanning
  /\ AtWholeWord(br) \/ br.bytes > 0
  /\ ~HasStop(Unread(br))
  /\ br' = Passed(br)
  /\ astray' = (~AtWholeWord(br) /\ br.bits_read > 0)
  /\ call' = [call EXCEPT !.count = @ + ZerosRead(br),
                          !.step = IF AtWholeWord(br) THEN "scan" ELSE "refill"]
  /\ UNCHANGED <<answer, at, crcFrom, fetched>>

\* Nothing is left to scan.
ScanEnds ==
  /\ Scanning
  /\ ~AtWholeWord(br) /\ br.bytes = 0
  /\ call' = [call EXCEPT !.step = "refill"]
  /\ UNCHANGED <<br, answer, at, astray, crcFrom, fetched>>

\* FLAC__bitreader_read_unary_unsigned returns; ...
StopUnary ==
  /\ Scanning /\ call.op = "unary" /\ HasStop(Unread(br))
  /\ br' = Stopped(br)
  /\ answer' = [op |-> "unary", n |-> 0, ok |-> TRUE, from |-> at,
                count |-> call.count + ZeroMSBs(Unread(br)), bits |-> <<>>]
  /\ at' = at + call.count + ZeroMSBs(Unread(br)) + 1
  /\ call' = NoCall
  /\ UNCHANGED <<astray, crcFrom, fetched>>

UcbitsLeft(count) == call.ucbits - count - 1

\* ... FLAC__bitreader_read_rice_signed_block goes on to the binary part.
StopRice ==
  /\ Scanning /\ call.op = "rice" /\ HasStop(Unread(br))
  /\ br' = Stopped(br)
  /\ LET count == call.count + ZeroMSBs(Unread(br))
     IN  call' = [call EXCEPT !.count = count, !.ucbits = UcbitsLeft(count),
                              !.step = "binary"]
  /\ UNCHANGED <<answer, at, astray, crcFrom, fetched>>

\* A Rice code is complete: the next, or the call returns.
ReadBinary ==
  /\ call.op = "rice" /\ call.step = "binary" /\ call.ucbits >= call.n
  /\ LET t == Take(br, call.n)
     IN  /\ br' = t.rest
         /\ Return(call.n, t.bits,
                   IF call.left = 1 THEN NoCall
                   ELSE [call EXCEPT !.left = @ - 1, !.count = 0, !.step = "scan",
                                     !.ucbits = @ - call.n])
  /\ UNCHANGED <<astray, crcFrom, fetched>>

\* FLAC__bitreader_skip_bits_no_crc and the byte blocks: bits up to a byte, bytes
\* up to a word, whole words (0), bytes, and the bits that are left.
Piece ==
  LET odd == br.bits_read % ByteBits
      toByte == ByteBits - odd
  IN  IF odd > 0 THEN IF call.n < toByte THEN call.n ELSE toByte
      ELSE IF call.n < ByteBits THEN call.n
      ELSE IF br.bits_read > 0 \/ call.n < WordBits THEN ByteBits
      ELSE 0

AfterSkip(n) == IF call.n = n THEN NoCall ELSE [call EXCEPT !.n = @ - n]

SkipPiece ==
  /\ call.op = "skip" /\ Piece > 0 /\ Held(br) >= Piece
  /\ LET t == Take(br, Piece)
     IN  br' = t.rest /\ Return(Piece, t.bits, AfterSkip(Piece))
  /\ UNCHANGED <<astray, crcFrom, fetched>>

SkipWord ==
  /\ call.op = "skip" /\ Piece = 0 /\ AtWholeWord(br)
  /\ br' = [br EXCEPT !.words_read = @ + 1]
  /\ Return(WordBits, HeadWord(br), AfterSkip(WordBits))
  /\ UNCHANGED <<astray, crcFrom, fetched>>

-----------------------------------------------------------------------------
(* More from the client.                                                   *)

WantsMore ==
  \/ call.op = "raw" /\ Held(br) < call.n
  \/ call.op \in {"unary", "rice"} /\ call.step = "refill"
  \/ call.op = "rice" /\ call.step = "binary" /\ call.ucbits < call.n
  \/ call.op = "skip" /\ Piece > 0 /\ Held(br) < Piece
  \/ call.op = "skip" /\ Piece = 0 /\ ~AtWholeWord(br)

\* In the unary part the count is taken off later, all at once.
UcbitsOf(b) == IF call.step = "binary" THEN Held(b) ELSE Held(b) + call.count

\* The callback may have nothing yet.
Refill ==
  /\ WantsMore /\ ~astray
  /\ Space(Shifted(br)) > 0
  /\ \E n \in 0 .. BytesLeft :
       /\ n <= Space(Shifted(br))
       /\ br' = Filled(Shifted(br), n)
       /\ fetched' = fetched + n
  /\ call' = [call EXCEPT
       !.step = IF @ = "refill" THEN "scan" ELSE @,
       !.ucbits = IF call.op = "rice" THEN UcbitsOf(br') ELSE @]
  /\ UNCHANGED <<answer, at, astray, crcFrom>>

\* The tail is swapped for the callback and, when that fails, is not swapped back:
\* in place of its bits are some of the word's don't-care bytes.
TailLost(b, tail) == [b EXCEPT !.buffer = SubSeq(@, 1, b.words * WordBits) \o tail]

TailsOf(b) == [1 .. b.bytes * ByteBits -> Bit]

\* Mutant: the end of the input is not noticed.
FailWhenFull ==
  /\ WantsMore /\ ~astray
  /\ Space(Shifted(br)) = 0
  /\ br' = Shifted(br)
  /\ answer' = [op |-> call.op, n |-> call.n, ok |-> FALSE, from |-> at,
                count |-> call.count, bits |-> <<>>]
  /\ at' = at + Behind
  /\ call' = NoCall
  /\ UNCHANGED <<astray, crcFrom, fetched>>

\* The buffer is full, and has no tail then, or there is no more: the call fails
\* where it is.
Fail ==
  /\ WantsMore /\ ~astray
  /\ Space(Shifted(br)) = 0 \/ BytesLeft = 0
  /\ \E tail \in TailsOf(br) : br' = TailLost(Shifted(br), tail)
  /\ answer' = [op |-> call.op, n |-> call.n, ok |-> FALSE, from |-> at,
                count |-> call.count, bits |-> <<>>]
  /\ at' = at + Behind
  /\ call' = NoCall
  /\ UNCHANGED <<astray, crcFrom, fetched>>

-----------------------------------------------------------------------------
(* A client: the decoder reads what it likes in any order.  After a call    *)
(* that failed it reads no more before it has cleared the reader.          *)

Call(op, n, left, ucbits) ==
  /\ call.op = "none" /\ answer.ok
  /\ call' = [op |-> op, n |-> n, left |-> left, count |-> 0,
              ucbits |-> ucbits, step |-> "scan"]
  /\ answer' = NoAnswer
  /\ UNCHANGED <<br, at, astray, fetched>>

CallRaw == \E n \in RawSizes : Call("raw", n, 0, 0) /\ UNCHANGED crcFrom

CallUnary == Call("unary", 0, 0, 0) /\ UNCHANGED crcFrom

CallRice ==
  \E n \in RiceParameters :
    Call("rice", n, BlockLength, Held(br)) /\ UNCHANGED crcFrom

\* What is skipped is metadata, before the first frame and its CRC.
CallSkip ==
  /\ crcFrom = None
  /\ \E n \in SkipSizes : Call("skip", n, 0, 0) /\ UNCHANGED crcFrom

\* FLAC__bitreader_clear: what is in the buffer is given up.
ClearCall ==
  /\ call.op = "none" \/ astray
  /\ br' = [EmptyReader EXCEPT !.align = br.align]
  /\ call' = NoCall /\ answer' = NoAnswer
  /\ at' = fetched * ByteBits
  /\ astray' = FALSE
  /\ crcFrom' = None
  /\ UNCHANGED fetched

\* FLAC__bitreader_reset_read_crc16, at the beginning of a frame.
ResetCrc ==
  /\ call.op = "none" /\ answer.ok /\ br.bits_read % ByteBits = 0
  /\ br' = [br EXCEPT !.crc = <<>>, !.align = br.bits_read]
  /\ crcFrom' = at
  /\ answer' = NoAnswer
  /\ UNCHANGED <<call, at, astray, fetched>>

\* FLAC__bitreader_get_read_crc16: with the bytes of the word that is being read.
GetCrc ==
  /\ call.op = "none" /\ answer.ok /\ br.bits_read % ByteBits = 0
  /\ crcFrom # None
  /\ br' = [br EXCEPT !.crc = @ \o Crcd(br, br.bits_read), !.align = br.bits_read]
  /\ answer' = NoAnswer
  /\ UNCHANGED <<call, at, astray, crcFrom, fetched>>

Step ==
  \/ ReadRaw \/ ScanZeros \/ ScanEnds \/ StopUnary \/ StopRice \/ ReadBinary
  \/ SkipPiece \/ SkipWord \/ Refill \/ Fail

\* The callback gives something, or says that there is no more.
Fetch == (Refill /\ fetched' # fetched) \/ Fail

Next ==
  \/ Step
  \/ CallRaw \/ CallUnary \/ CallRice \/ CallSkip
  \/ ClearCall \/ ResetCrc \/ GetCrc

-----------------------------------------------------------------------------
(* Properties.                                                             *)

Position == fetched * ByteBits - Held(br)

\* The assumption in the scanning code's comment: that the client may be feeding
\* a byte at a time, with part of the tail word consumed.  The reader keeps its
\* place all the same.
PlaceKept == Position = at + Behind

\* The CRC has seen every bit from where it was reset to the word that is being
\* read, or to where it was asked for, and none twice.
CrcCovers ==
  crcFrom # None /\ ~astray =>
    br.crc = SubSeq(file, crcFrom + 1, Position - br.bits_read + br.align)

\* A call fails only for want of input: never because the buffer, of two words
\* or more, is full of what is not read yet.
FailsOnlyAtEnd ==
  ~answer.ok =>
    /\ BytesLeft = 0
    /\ answer.op \in {"raw", "skip"} => answer.from + answer.n > MaxBits
    /\ answer.op \in {"unary", "rice"} =>
         LET rest == SubSeq(file, answer.from + 1, MaxBits)
         IN  HasStop(rest) =>
               answer.op = "rice" /\ ZeroMSBs(rest) + 1 + answer.n > Len(rest)

\* A call comes to an end, whatever number of bytes the callback gives, if only it
\* does not give none for ever: it never scans the same word again or asks for
\* input that it has.
CallsReturn == call.op # "none" ~> call.op = "none" \/ astray
=============================================================================
