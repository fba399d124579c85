--------------------------- MODULE AlchemyEncoder ---------------------------
(***************************************************************************)
(* HooFlac as a library of a Flash movie (alchemybuild/AS3_main.c), which  *)
(* encodes what is being recorded a chunk at a time: the movie appends to  *)
(* a byte array and calls for a chunk now and then; a chunk is read in     *)
(* pieces, made PCM, and given to the encoder, which writes to another     *)
(* byte array.  All of it is on the movie's one thread.                    *)
(*                                                                         *)
(* The i-th sample of the recording is i / Loudest of full scale.  What    *)
(* the movie passes for the position and the length of its array is what   *)
(* they are.  The movie's own callbacks report no failure of the output:   *)
(* those that "output" stands for are reported by the encoder's callbacks  *)
(* for files, and are taken here too, under the same driver.               *)
(*                                                                         *)
(* The driver takes no notice of an encoder that could not be begun, or of *)
(* buffers it did not get: what is done with such is done through a null   *)
(* pointer, and the call may be the movie's last.                          *)
(***************************************************************************)
EXTENDS StreamEncoder

CONSTANTS
  ReadSize,      \* READSIZE
  ChunkSize,     \* how many samples a chunk is at most
  PcmMax,        \* 0x7fff
  Loudest,
  Before,        \* what the output array has already
  MaxSamples     \* bounds the recording

ASSUME DriverAssumption ==
  /\ ReadSize \in Nat \ {0}
  /\ ChunkSize \in Nat \ {0}
  /\ PcmMax \in Nat /\ Loudest \in Nat \ {0}
  /\ Before \in Nat
  /\ MaxSamples \in Nat

VARIABLES
  enc,         \* _static_encoder
  inBuffers,   \* whether there are _in_buffer and _pcm
  out,         \* _flacData_out
  recorded,    \* the length of _rawData_in, ...
  position,    \* ... and its position
  pc,
  samplesLeft,
  pcm,         \* what is left of _pcm
  report,      \* what is said at the end
  failed       \* history: something has failed

vars == <<enc, inBuffers, out, recorded, position, pc, samplesLeft, pcm, report, failed>>

\* The samples from the one after `first' on, as the encoder is given them.
Pcm(i) == (i * PcmMax) \div Loudest
Samples(first, n) == [i \in 1 .. n |-> Pcm(first + i)]

Init ==
  /\ enc = NewEncoder /\ inBuffers = FALSE
  /\ out = [cells |-> [i \in 1 .. Before |-> Field("before", i)], pos |-> Before]
  /\ recorded = 0 /\ position = 0
  /\ pc = "none" /\ samplesLeft = 0 /\ pcm = <<>>
  /\ report = "none" /\ failed = FALSE

\* A call writes through a null pointer, and does not return.
Crash ==
  /\ pc' = "crashed" /\ failed' = TRUE
  /\ UNCHANGED <<enc, inBuffers, out, recorded, position, samplesLeft, pcm, report>>

\* new_createStaticFlacEncoder, whether or not the encoder has begun and whether or
\* not there is memory for the driver's own buffers.
Create ==
  /\ pc = "none" /\ pc' = "idle"
  /\ inBuffers' \in IF "memory" \in Faults THEN BOOLEAN ELSE {TRUE}
  /\ \E o \in BeginStream(out) : enc' = o.enc /\ out' = o.out /\ failed' = ~o.ok
  /\ UNCHANGED <<recorded, position, samplesLeft, pcm, report>>

\* resize_buffers_ clears the beginning of an array for the samples that it has not
\* got.
CreateCrashes == pc = "none" /\ "memory" \in Faults /\ Crash

\* The movie records.
Record ==
  /\ pc \in {"none", "idle"}
  /\ \E n \in recorded + 1 .. MaxSamples : recorded' = n
  /\ UNCHANGED <<enc, inBuffers, out, position, pc, samplesLeft, pcm, report, failed>>

-----------------------------------------------------------------------------
(* new_encodeChunckOfRawData                                               *)

BeginChunk ==
  /\ pc = "idle" /\ pc' = "chunk"
  /\ samplesLeft' = LesserOf(ChunkSize, recorded - position)
  /\ UNCHANGED <<enc, inBuffers, out, recorded, position, pcm, report, failed>>

\* Mutant: the last piece is counted as a whole one.
ReadWholePiece ==
  /\ pc = "chunk" /\ samplesLeft > 0 /\ inBuffers /\ pc' = "process"
  /\ LET needed == LesserOf(ReadSize, samplesLeft)
     IN  /\ pcm' = Samples(position, needed)
         /\ position' = position + needed
         /\ samplesLeft' = samplesLeft - ReadSize
  /\ UNCHANGED <<enc, inBuffers, out, recorded, report, failed>>

ReadPiece ==
  /\ pc = "chunk" /\ samplesLeft > 0 /\ inBuffers /\ pc' = "process"
  /\ LET needed == LesserOf(ReadSize, samplesLeft)
     IN  /\ pcm' = Samples(position, needed)
         /\ position' = position + needed
         /\ samplesLeft' = samplesLeft - needed
  /\ UNCHANGED <<enc, inBuffers, out, recorded, report, failed>>

\* A piece is read to where there is no buffer.
ReadCrashes == pc = "chunk" /\ samplesLeft > 0 /\ ~inBuffers /\ Crash

\* Once around the loop of FLAC__stream_encoder_process.  If it fails, the rest
\* of the piece and of the chunk is given up, but not the next chunk.
Process ==
  /\ pc = "process"
  /\ LET n == LesserOf(Room(enc), Len(pcm))
         rest == SubSeq(pcm, n + 1, Len(pcm))
     IN  \E o \in Gather(enc, out, SubSeq(pcm, 1, n)) :
           /\ enc' = o.enc /\ out' = o.out
           /\ failed' = (failed \/ ~o.ok)
           /\ pc' = IF ~o.ok THEN "idle" ELSE IF rest = <<>> THEN "chunk" ELSE pc
           /\ pcm' = IF o.ok THEN rest ELSE <<>>
           /\ samplesLeft' = IF o.ok THEN samplesLeft ELSE 0
  /\ UNCHANGED <<inBuffers, recorded, position, report>>

\* A frame is made in an array, or written to a bit writer, that is not there.  One
\* that needs only those there are, as that of a constant block may, is made by
\* Process.
ProcessCrashes ==
  pc = "process" /\ ~enc.buffers /\ MakesFrame(enc, pcm) /\ Crash

EndChunk ==
  /\ pc = "chunk" /\ samplesLeft = 0 /\ pc' = "idle"
  /\ UNCHANGED <<enc, inBuffers, out, recorded, position, samplesLeft, pcm, report, failed>>

\* new_destroyStaticFlacEncoder
Destroy ==
  /\ pc = "idle" /\ pc' = "destroyed"
  /\ \E o \in Finish(enc, out) :
       /\ enc' = o.enc /\ out' = o.out
       /\ report' = IF o.ok THEN "succeeded" ELSE "FAILED"
       /\ failed' = (failed \/ ~o.ok)
  /\ UNCHANGED <<inBuffers, recorded, position, samplesLeft, pcm>>

Chunk == ReadPiece \/ ReadCrashes \/ Process \/ ProcessCrashes \/ EndChunk

Next == Create \/ CreateCrashes \/ Record \/ BeginChunk \/ Chunk \/ Destroy

Spec == Init /\ [][Next]_vars /\ WF_vars(Chunk)

-----------------------------------------------------------------------------
(* Properties.                                                             *)

AudioOffset == Before + Len(Beginning)
FrameCount == Len(out.cells) - AudioOffset
FrameAt(k) == out.cells[AudioOffset + k]

\* Whatever the sizes of the chunks, the pieces and the blocks, and wherever one
\* ends within another, each sample read is in one place and at its place: in
\* its frame, in the encoder's signal or still in the piece, of which the sample
\* beyond a block is nothing's second copy.
SamplesInOrder ==
  pc # "none" /\ ~failed =>
    LET gathered == FrameCount * BlockSize
    IN  /\ \A k \in 1 .. FrameCount :
             LET size == IF k * BlockSize > position THEN position - (k - 1) * BlockSize
                         ELSE BlockSize
             IN  /\ FrameAt(k).cell = "frame" /\ ~FrameAt(k).torn
                 /\ FrameAt(k).number = k - 1
                 /\ FrameAt(k).samples = Samples((k - 1) * BlockSize, size)
        /\ pc = "destroyed" => gathered >= position
        /\ pc # "destroyed" =>
             /\ enc.signal = Samples(gathered, Len(enc.signal))
             /\ pcm = Samples(gathered + Len(enc.signal), Len(pcm))
             /\ position = gathered + Len(enc.signal) + Len(pcm)

InfoField(i) == out.cells[Before + 1 + i].value

AllSizes == {FrameAt(k).size : k \in 1 .. FrameCount}

\* The encoder's last word: if nothing has failed, STREAMINFO says of the stream
\* what is in it, although it was written before it.
StreamInfoTrue ==
  report = "succeeded" /\ ~failed =>
    /\ InfoField(1) = BlockSize
    /\ AllSizes # {} =>
         /\ InfoField(2)[1] \in AllSizes /\ InfoField(2)[2] \in AllSizes
         /\ \A s \in AllSizes : InfoField(2)[1] <= s /\ s <= InfoField(2)[2]
    /\ InfoField(3) = position
    /\ InfoField(4) = Samples(0, position)

\* And if something has: a total or an MD5 that is not that of all the samples is
\* not said, and a field that is written in part is reported.  What has failed
\* before the end is not reported, but then nothing is said of the stream.
HeaderNeverLies ==
  FrameCount >= 0 /\ out.cells[AudioOffset].cell = "comment" =>
    /\ InfoField(3) \in {0, position}
    /\ InfoField(4) \in {<<>>, Samples(0, position)}
    /\ report = "succeeded" =>
         /\ \A i \in 1 .. AudioOffset : out.cells[i].cell # "torn"
         /\ InfoField(4) # <<>> => ~failed

\* A frame that is written stays what it is, and so does what the array had before
\* the stream began: all that is written over is STREAMINFO, at the end.
OnlyInfoIsRewritten ==
  [][\A i \in 1 .. Len(out.cells) :
       out'.cells[i] # out.cells[i] => Destroy /\ i \in Before + 3 .. Before + 5]_vars

\* A call for a chunk returns, although a frame that fails leaves the encoder with
\* no room for a sample; unless a buffer of the encoder's or the driver's was not to
\* be had when they were made, which new_createStaticFlacEncoder does not say.
ChunkReturns ==
  pc = "chunk" ~> \/ pc = "idle"
                  \/ pc = "crashed" /\ ~(enc.buffers /\ inBuffers)
=============================================================================
