---------------------------- MODULE StreamEncoder ----------------------------
(***************************************************************************)
(* HooFlac's stream encoder (alchemybuild/stream_encoder.c): samples are   *)
(* gathered until there is a block and one more, a block is made a frame   *)
(* and written, and when the stream is finished the encoder goes back to   *)
(* the STREAMINFO block it began with, to say what the stream has become.  *)
(*                                                                         *)
(* The output is a sequence of fields and frames, with a position at which *)
(* the next write goes, over what is there.  What a subframe is made of is *)
(* left out: a frame is its number, its samples and its size, which may be *)
(* any, and is torn if something else is in it.  The MD5 of samples is     *)
(* known by the samples.  There is one channel, and no verifying.          *)
(*                                                                         *)
(* A call is the set of its outcomes: the encoder and the output it leaves *)
(* and what it returns.                                                    *)
(***************************************************************************)
EXTENDS Integers, Sequences

CONSTANTS
  BlockSize,     \* blocksize, as set before the stream is begun
  FrameSizes,    \* how many bytes a frame may take
  NoMinimum,     \* what min_framesize is before there is a frame
  Faults         \* what may fail: "memory", "output"

ASSUME EncoderAssumption ==
  /\ BlockSize \in Nat \ {0}
  /\ FrameSizes \subseteq Nat \ {0} /\ FrameSizes # {}
  /\ NoMinimum \in Nat /\ \A s \in FrameSizes : s <= NoMinimum
  /\ Faults \subseteq {"memory", "output"}

\* How many samples beyond the block are gathered before it is made a frame.
OverRead == 1

\* The FLAC__StreamEncoder: current_sample_number is the length of its signal, and
\* `buffers' is whether it has all of the arrays a frame is made in, and its bit
\* writer's.
NewEncoder ==
  [state |-> "uninitialized", buffers |-> FALSE,
   blocksize |-> BlockSize, signal |-> <<>>,
   md5 |-> <<>>, number |-> 0, total |-> 0, min |-> 0, max |-> 0,
   leftover |-> FALSE, streaminfo |-> 0]

LesserOf(a, b) == IF a < b THEN a ELSE b
GreaterOf(a, b) == IF a > b THEN a ELSE b

-----------------------------------------------------------------------------
(* The output: what the callbacks of the stream's owner do.                *)

Field(name, value) == [cell |-> name, value |-> value]
Frame(number, samples, size, torn) ==
  [cell |-> "frame", number |-> number, samples |-> samples, size |-> size,
   torn |-> torn]

\* The write callback: over what is there, and beyond the end if it is told to, ...
Put(out, x) ==
  [cells |-> [i \in 1 .. GreaterOf(Len(out.cells), out.pos + 1) |->
                IF i = out.pos + 1 THEN x
                ELSE IF i <= Len(out.cells) THEN out.cells[i] ELSE Field("gap", 0)],
   pos |-> out.pos + 1]

\* ... and how it fails: nothing, or a part, has been written.
Puts(out, torn) == {out, Put(out, torn)}

\* The seek callback.
At(out, pos) == [out EXCEPT !.pos = pos]

\* STREAMINFO, field by field in the order of the format.
StreamInfo(framesizes, total, md5) ==
  << Field("blocksize", BlockSize), Field("framesizes", framesizes),
     Field("total", total), Field("md5", md5) >>

Outcome(e, out, ok) == [enc |-> e, out |-> out, ok |-> ok]

Failed(e, out) == Outcome([e EXCEPT !.state = "error"], out, FALSE)

-----------------------------------------------------------------------------
(* The beginning of a stream.                                              *)

Beginning ==
  << Field("magic", 0) >> \o StreamInfo(<<0, 0>>, 0, <<>>)
    \o << Field("comment", 0) >>

Appended(out, cells) ==
  [cells |-> out.cells \o cells, pos |-> out.pos + Len(cells)]

\* No memory for one of the arrays of a frame (resize_buffers_), or for the bit
\* writer's: there is an encoder all the same, and nothing is written.  The bit
\* writer, once it has its 32768 bytes, has room for all of the beginning.
NotBegun(out) ==
  IF "memory" \notin Faults THEN {} ELSE {Failed(NewEncoder, out)}

\* A part of the beginning cannot be written.
BeginningNotWritten(out) ==
  IF "output" \notin Faults THEN {}
  ELSE {Failed([NewEncoder EXCEPT !.buffers = TRUE,
                                  !.streaminfo = IF n = 0 THEN 0 ELSE out.pos + 1],
               Appended(out, SubSeq(Beginning, 1, n))) :
          n \in 0 .. Len(Beginning) - 1}

\* init_stream_internal_, of an encoder that is new and writes to the end.
BeginStream(out) ==
  {Outcome([NewEncoder EXCEPT !.state = "ok", !.buffers = TRUE, !.min = NoMinimum,
                              !.streaminfo = out.pos + 1],
           Appended(out, Beginning), TRUE)}
  \cup NotBegun(out) \cup BeginningNotWritten(out)

-----------------------------------------------------------------------------
(* Frames.                                                                 *)

Block(e) == SubSeq(e.signal, 1, e.blocksize)

Hashed(e) == [e EXCEPT !.md5 = @ \o Block(e)]

\* Mutant: the largest frame is taken for the smallest.
FrameWrittenSmaller(e, size) ==
  [Hashed(e) EXCEPT !.min = LesserOf(size, @), !.max = LesserOf(size, @),
                    !.number = @ + 1, !.total = @ + e.blocksize,
                    !.leftover = FALSE, !.signal = <<>>]

FrameWritten(e, size) ==
  [Hashed(e) EXCEPT !.min = LesserOf(size, @), !.max = GreaterOf(size, @),
                    !.number = @ + 1, !.total = @ + e.blocksize,
                    !.leftover = FALSE, !.signal = <<>>]

\* No memory: for the MD5, or for the frame, of which a part may be left in the
\* bit writer.
FramesNotMade(e, out) ==
  IF "memory" \notin Faults THEN {}
  ELSE {Failed(e, out)} \cup
       {Failed([Hashed(e) EXCEPT !.leftover = b], out) : b \in {e.leftover, TRUE}}

\* The bit writer is cleared if the frame cannot be written.
FramesNotWritten(e, out) ==
  IF "output" \notin Faults THEN {}
  ELSE {Failed([Hashed(e) EXCEPT !.leftover = FALSE], o) :
          o \in Puts(out, Frame(e.number, <<>>, 0, TRUE))}

\* process_frame_: what a frame that failed has left in the bit writer is before
\* this one.
ProcessFrame(e, out) ==
  {Outcome(FrameWritten(e, size),
           Put(out, Frame(e.number, Block(e), size, e.leftover)), TRUE) :
     size \in FrameSizes}
  \cup FramesNotMade(e, out) \cup FramesNotWritten(e, out)

-----------------------------------------------------------------------------
(* The loop of FLAC__stream_encoder_process.                               *)

Room(e) == e.blocksize + OverRead - Len(e.signal)

\* Mutant: the sample that was read beyond the block is not kept.
KeptNone(o, last) == o

\* The sample that was read beyond the block is the first of the next.
Kept(o, last) == IF o.ok THEN [o EXCEPT !.enc.signal = <<last>>] ELSE o

\* A frame is made if there are so many samples more.
MakesFrame(e, samples) == Len(samples) >= Room(e)

\* The samples are copied; a block and one more is processed.  A frame that has
\* failed is still there, and is processed again.
Gather(e, out, samples) ==
  LET full == [e EXCEPT !.signal = @ \o samples]
      n == Len(full.signal)
  IN  IF n <= e.blocksize THEN {Outcome(full, out, TRUE)}
      ELSE {Kept(o, full.signal[n]) : o \in ProcessFrame(full, out)}

-----------------------------------------------------------------------------
(* The end of a stream.                                                    *)

\* Mutant: the stream is taken to begin where the output does.
FieldFromStart(e) == [md5 |-> 4, total |-> 3, framesizes |-> 2]

\* Where in STREAMINFO each field is.
FieldAt(e) == [md5 |-> e.streaminfo + 3, total |-> e.streaminfo + 2,
               framesizes |-> e.streaminfo + 1]

InfoOf(e) == [md5 |-> e.md5, total |-> e.total, framesizes |-> <<e.min, e.max>>]

\* The fields that are written over, one after the other, ...
Patched(e, out, name) == Put(At(out, FieldAt(e)[name]), Field(name, InfoOf(e)[name]))

\* ... or, of one that fails, not, or in part.
PatchFails(e, out, name) ==
  {Failed(e, o) : o \in {out} \cup
     Puts(At(out, FieldAt(e)[name]), Field("torn", InfoOf(e)[name]))}

\* update_metadata_
UpdateMetadata(e, out) ==
  LET one == Patched(e, out, "md5")
      two == Patched(e, one, "total")
  IN  {Outcome(e, Patched(e, two, "framesizes"), TRUE)}
      \cup
      IF "output" \notin Faults THEN {}
      ELSE PatchFails(e, out, "md5") \cup PatchFails(e, one, "total")
           \cup PatchFails(e, two, "framesizes")

\* The last frame is what is left of the signal; there is none after an error.
LastFrame(e, out) ==
  IF e.state = "ok" /\ e.signal # <<>>
  THEN ProcessFrame([e EXCEPT !.blocksize = Len(e.signal)], out)
  ELSE {Outcome(e, out, TRUE)}

\* Mutant: STREAMINFO is brought up to date whatever has happened.
Informed(o) == UpdateMetadata(o.enc, o.out)

AfterLastFrame(o) ==
  IF o.enc.state = "ok" THEN UpdateMetadata(o.enc, o.out) ELSE {o}

\* FLAC__stream_encoder_finish
Finish(e, out) ==
  IF e.state = "uninitialized" THEN {Outcome(e, out, TRUE)}
  ELSE {Outcome([NewEncoder EXCEPT
                   !.state = IF o.ok THEN "uninitialized" ELSE o.enc.state],
                o.out, o.ok) :
          o \in UNION {AfterLastFrame(l) : l \in LastFrame(e, out)}}
=============================================================================
