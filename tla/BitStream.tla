------------------------------ MODULE BitStream ------------------------------
(***************************************************************************)
(* The bit writer and the bit reader together: what the encoder writes     *)
(* goes to a file, and is read back by the decoder with calls of its own   *)
(* choosing, at any alignment, as the bytes come.                          *)
(***************************************************************************)
EXTENDS BitWriter

CONSTANTS ReaderCapacity, RawSizes, RiceParameters, SkipSizes, BlockLength

ASSUME ReaderAssumption ==
  /\ ReaderCapacity \in Nat \ {0, 1}
  /\ RawSizes \subseteq 0 .. WordBits
  /\ RiceParameters \subseteq 0 .. WordBits - 1
  /\ SkipSizes \subseteq Nat \ {0}
  /\ BlockLength \in Nat \ {0}

VARIABLES br, call, answer, at, astray, crcFrom, file, fetched,
          phase     \* "write", then "read"

Reader == INSTANCE BitReader

readerVars == <<br, call, answer, at, astray, crcFrom, fetched>>
vars == <<bw, written, br, call, answer, at, astray, crcFrom, file, fetched,
          phase>>

TypeOK ==
  /\ WriterTypeOK /\ Reader!TypeOK
  /\ file \in Seq({0, 1})
  /\ phase \in {"write", "read"}

Init ==
  /\ WriterInit /\ Reader!Init
  /\ file = <<>>
  /\ phase = "write"

WriteStep ==
  /\ phase = "write"
  /\ WriterNext
  /\ UNCHANGED <<readerVars, file, phase>>

\* The buffer goes to the file (write_frame_), the writer is freed, and the file
\* opened for reading.
WriteFile ==
  /\ phase = "write" /\ phase' = "read"
  /\ IsByteAligned(bw)
  /\ \E memory \in Memory :
       LET w == GetBuffer(Begun(bw), memory)
       IN  w.ok /\ file' = Bytes(w)
  /\ bw' = [Clear(bw) EXCEPT !.capacity = 0, !.ok = TRUE, !.accum = NoBits(WordBits)]
  /\ written' = <<>>
  /\ UNCHANGED readerVars

ReadStep ==
  /\ phase = "read" /\ Reader!Step
  /\ UNCHANGED <<writerVars, file, phase>>

ReadCall ==
  /\ phase = "read" /\ Reader!Next
  /\ UNCHANGED <<writerVars, file, phase>>

Fetch ==
  /\ phase = "read" /\ Reader!Fetch
  /\ UNCHANGED <<writerVars, file, phase>>

Next == WriteStep \/ WriteFile \/ ReadCall

Spec == Init /\ [][Next]_vars /\ WF_vars(ReadStep) /\ SF_vars(Fetch)

-----------------------------------------------------------------------------
(* Properties.                                                             *)

\* The reader's properties, which BitReader states.
PlaceKept == Reader!PlaceKept
CrcCovers == Reader!CrcCovers
FailsOnlyAtEnd == Reader!FailsOnlyAtEnd
CallsReturn == Reader!CallsReturn

\* The code the writer has for what a call returned.
CodeOf(a) ==
  CASE a.op = "unary" -> UnaryCode(a.count)
    [] a.op = "rice" -> RiceCode(a.count, a.bits)
    [] OTHER -> a.bits

\* What is read is what the writer writes for it: the answer's code is what the
\* file has where the call began, and of the length that was asked for.
ReadBack ==
  answer.op # "none" /\ answer.ok /\ ~astray =>
    /\ answer.from + Len(CodeOf(answer)) <= Len(file)
    /\ CodeOf(answer) =
         SubSeq(file, answer.from + 1, answer.from + Len(CodeOf(answer)))
    /\ answer.op # "unary" => Len(answer.bits) = answer.n
    /\ call.op # "none" \/ at = answer.from + Len(CodeOf(answer))
=============================================================================
