----------------------- MODULE AlchemyEncoder_proofs -----------------------
(***************************************************************************)
(* The driver and the encoder keep the samples in order, and the header    *)
(* true, for every block, piece and chunk size, every length of the        *)
(* recording and every outcome of the calls that may fail.                 *)
(*                                                                         *)
(* EncoderInv says what SamplesInOrder does not: that what is written goes *)
(* to the end, that the encoder's number of frames is the stream's, that   *)
(* its bit writer is empty and that its signal fits a block.  Then a step  *)
(* of the loop moves samples from the piece to the signal, or a block of   *)
(* them to a frame and the one beyond it to the new signal.                *)
(*                                                                         *)
(* HeaderInv says what is at the header's place while the stream is        *)
(* written, also when its beginning has failed and frames come there; that *)
(* the encoder is in error exactly if something has failed; and, if        *)
(* nothing has, that its MD5, total and extremes are those of the frames   *)
(* written.  The MD5 and the total of a frame that failed may be anything. *)
(* A call that does not return leaves the output as it was.                *)
(***************************************************************************)
EXTENDS AlchemyEncoder, SequenceTheorems, TLAPS

-----------------------------------------------------------------------------
(* The samples of the recording.                                           *)

\* A sample is a number.
LEMMA PcmType == ASSUME NEW i \in Nat PROVE Pcm(i) \in Int
<1>1. i * PcmMax \in Nat
  BY DriverAssumption
<1>2. Loudest \in Nat /\ Loudest > 0
  BY DriverAssumption
<1> QED BY <1>1, <1>2 DEF Pcm

\* As many samples as are asked for, each at its place.
LEMMA SamplesType ==
  ASSUME NEW f \in Nat, NEW n \in Nat
  PROVE  /\ Samples(f, n) \in Seq(Int)
         /\ Len(Samples(f, n)) = n
         /\ \A i \in 1 .. n : Samples(f, n)[i] = Pcm(f + i)
<1>1. \A i \in 1 .. n : Pcm(f + i) \in Int
  BY PcmType
<1> QED BY <1>1 DEF Samples

\* What comes after samples that are in order is in order with them, ...
LEMMA SamplesJoin ==
  ASSUME NEW f \in Nat, NEW n \in Nat, NEW m \in Nat
  PROVE  Samples(f, n) \o Samples(f + n, m) = Samples(f, n + m)
<1> DEFINE s == Samples(f, n)
           t == Samples(f + n, m)
           u == Samples(f, n + m)
<1>1. s \in Seq(Int) /\ Len(s) = n /\ \A i \in 1 .. n : s[i] = Pcm(f + i)
  BY SamplesType
<1>2. t \in Seq(Int) /\ Len(t) = m /\ \A i \in 1 .. m : t[i] = Pcm(f + n + i)
  <2>1. f + n \in Nat
    OBVIOUS
  <2> QED BY <2>1, SamplesType
<1>3. u \in Seq(Int) /\ Len(u) = n + m /\ \A i \in 1 .. n + m : u[i] = Pcm(f + i)
  <2>1. n + m \in Nat
    OBVIOUS
  <2> QED BY <2>1, SamplesType
<1> HIDE DEF s, t, u
<1>4. /\ s \o t \in Seq(Int) /\ Len(s \o t) = n + m
      /\ \A i \in 1 .. n + m : (s \o t)[i] = IF i <= n THEN s[i] ELSE t[i - n]
  BY <1>1, <1>2, ConcatProperties
<1>5. \A i \in 1 .. n + m : (s \o t)[i] = u[i]
  <2> TAKE i \in 1 .. n + m
  <2>1. CASE i <= n
    BY <1>1, <1>3, <1>4, <2>1
  <2>2. CASE ~ (i <= n)
    <3>1. i - n \in 1 .. m
      BY <2>2
    <3>2. (s \o t)[i] = t[i - n]
      BY <1>4, <2>2, <3>1
    <3>3. t[i - n] = Pcm(f + n + (i - n)) /\ f + n + (i - n) = f + i
      BY <1>2, <3>1
    <3> QED BY <1>3, <3>2, <3>3
  <2> QED BY <2>1, <2>2
<1>6. s \o t = u
  BY <1>3, <1>4, <1>5, SeqEqual
<1> QED BY <1>6 DEF s, t, u

\* ... and so are the two parts of such samples.
LEMMA SamplesSplit ==
  ASSUME NEW f \in Nat, NEW n \in Nat, NEW m \in 0 .. n
  PROVE  /\ SubSeq(Samples(f, n), 1, m) = Samples(f, m)
         /\ SubSeq(Samples(f, n), m + 1, n) = Samples(f + m, n - m)
<1> DEFINE s == Samples(f, n)
           a == SubSeq(s, 1, m)
           b == SubSeq(s, m + 1, n)
<1>1. s \in Seq(Int) /\ Len(s) = n /\ \A i \in 1 .. n : s[i] = Pcm(f + i)
  BY SamplesType
<1>2. /\ Samples(f, m) \in Seq(Int) /\ Len(Samples(f, m)) = m
      /\ \A i \in 1 .. m : Samples(f, m)[i] = Pcm(f + i)
  BY SamplesType
<1>3. /\ Samples(f + m, n - m) \in Seq(Int) /\ Len(Samples(f + m, n - m)) = n - m
      /\ \A i \in 1 .. n - m : Samples(f + m, n - m)[i] = Pcm(f + m + i)
  <2>1. f + m \in Nat /\ n - m \in Nat
    OBVIOUS
  <2> QED BY <2>1, SamplesType
<1> HIDE DEF s
<1>4. a \in Seq(Int) /\ Len(a) = m /\ \A i \in 1 .. m : a[i] = s[i]
  BY <1>1
<1>5. b \in Seq(Int) /\ Len(b) = n - m /\ \A i \in 1 .. n - m : b[i] = s[m + i]
  BY <1>1, SubSeqProperties
<1> HIDE DEF a, b
<1>6. \A i \in 1 .. n - m : b[i] = Pcm(f + m + i)
  <2> TAKE i \in 1 .. n - m
  <2>1. m + i \in 1 .. n /\ f + (m + i) = f + m + i
    OBVIOUS
  <2> QED BY <1>1, <1>5, <2>1
<1>7. a = Samples(f, m)
  BY <1>1, <1>2, <1>4, SeqEqual
<1>8. b = Samples(f + m, n - m)
  BY <1>3, <1>5, <1>6, SeqEqual
<1> QED BY <1>7, <1>8 DEF s, a, b

-----------------------------------------------------------------------------
(* The output.                                                             *)

IsSequence(c) == \E S : c \in Seq(S)

AtEnd(o) == o = [cells |-> o.cells, pos |-> Len(o.cells)]

\* A write at the end is one cell more, and leaves the others, ...
LEMMA PutAtEnd ==
  ASSUME NEW o, AtEnd(o), IsSequence(o.cells), NEW x
  PROVE  /\ AtEnd(Put(o, x)) /\ IsSequence(Put(o, x).cells)
         /\ Len(Put(o, x).cells) = Len(o.cells) + 1
         /\ Put(o, x).cells[Len(o.cells) + 1] = x
         /\ \A i \in 1 .. Len(o.cells) : Put(o, x).cells[i] = o.cells[i]
<1> DEFINE n == Len(o.cells)
           c == o.cells
<1>1. PICK S : c \in Seq(S)
  BY DEF IsSequence
<1> DEFINE T == S \cup {x}
           d == [i \in 1 .. n + 1 |-> IF i = n + 1 THEN x ELSE c[i]]
<1>2. n \in Nat /\ \A i \in 1 .. n : c[i] \in S
  BY <1>1
<1>3. d \in Seq(T) /\ Len(d) = n + 1
  BY <1>2
<1>4. GreaterOf(n, n + 1) = n + 1
  BY <1>2 DEF GreaterOf
<1>5. o.pos = n
  BY DEF AtEnd
<1>6. Put(o, x) = [cells |-> d, pos |-> n + 1]
  <2>1. \A i \in 1 .. n + 1 :
          (IF i = n + 1 THEN x ELSE IF i <= n THEN c[i] ELSE Field("gap", 0))
            = IF i = n + 1 THEN x ELSE c[i]
    BY <1>2
  <2>2. Put(o, x) =
          [cells |-> [i \in 1 .. n + 1 |->
                        IF i = n + 1 THEN x
                        ELSE IF i <= n THEN c[i] ELSE Field("gap", 0)],
           pos |-> n + 1]
    BY <1>4, <1>5 DEF Put
  <2> HIDE DEF c, n
  <2> QED BY <2>1, <2>2
<1>7. d[n + 1] = x /\ \A i \in 1 .. n : d[i] = c[i]
  BY <1>2
<1> HIDE DEF d, T
<1> QED BY <1>3, <1>6, <1>7 DEF AtEnd, IsSequence

HasCells(o) == o = [cells |-> o.cells, pos |-> o.pos] /\ IsSequence(o.cells)

\* ... and a write at an earlier place leaves all but the cell there.
LEMMA PutWithin ==
  ASSUME NEW o, HasCells(o), NEW p \in 0 .. Len(o.cells) - 1, NEW x
  PROVE  /\ HasCells(Put(At(o, p), x))
         /\ Len(Put(At(o, p), x).cells) = Len(o.cells)
         /\ Put(At(o, p), x).cells[p + 1] = x
         /\ \A i \in 1 .. Len(o.cells) :
              i # p + 1 => Put(At(o, p), x).cells[i] = o.cells[i]
<1> DEFINE n == Len(o.cells)
           c == o.cells
<1>1. PICK S : c \in Seq(S)
  BY DEF IsSequence, HasCells
<1> DEFINE T == S \cup {x}
           d == [i \in 1 .. n |-> IF i = p + 1 THEN x ELSE c[i]]
<1>2. n \in Nat /\ \A i \in 1 .. n : c[i] \in S
  BY <1>1
<1>3. d \in Seq(T) /\ Len(d) = n
  BY <1>2
<1>4. GreaterOf(n, p + 1) = n
  BY <1>2 DEF GreaterOf
<1>5. At(o, p) = [cells |-> c, pos |-> p]
  BY DEF HasCells, At
<1>6. Put(At(o, p), x) = [cells |-> d, pos |-> p + 1]
  <2>1. \A i \in 1 .. n :
          (IF i = p + 1 THEN x ELSE IF i <= n THEN c[i] ELSE Field("gap", 0))
            = IF i = p + 1 THEN x ELSE c[i]
    BY <1>2
  <2>2. At(o, p).cells = c /\ At(o, p).pos = p
    BY <1>5
  <2>3. Put(At(o, p), x) =
          [cells |-> [i \in 1 .. n |->
                        IF i = p + 1 THEN x
                        ELSE IF i <= n THEN c[i] ELSE Field("gap", 0)],
           pos |-> p + 1]
    BY <1>4, <2>2 DEF Put
  <2> HIDE DEF c, n
  <2> QED BY <2>1, <2>3
<1>7. d[p + 1] = x /\ \A i \in 1 .. n : i # p + 1 => d[i] = c[i]
  BY <1>2
<1> HIDE DEF d, T
<1> QED BY <1>3, <1>6, <1>7 DEF HasCells, IsSequence

-----------------------------------------------------------------------------
(* What the calls of the encoder leave when they do not fail.              *)

\* An encoder that has not failed, with the frames it has written and the samples
\* it has gathered.
Encoding(e, frames, signal) ==
  /\ DOMAIN e = DOMAIN NewEncoder
  /\ e.state = "ok" /\ e.blocksize = BlockSize /\ e.signal = signal
  /\ e.number = frames /\ e.leftover = FALSE /\ e.streaminfo = Before + 1

\* The fields of a FLAC__StreamEncoder, for the provers.
LEMMA EncoderFields ==
  {"state", "buffers", "blocksize", "signal", "md5", "number", "total", "min", "max",
   "leftover", "streaminfo"} = DOMAIN NewEncoder
BY DEF NewEncoder

\* The magic, STREAMINFO's four fields and the comment.
LEMMA BeginningLength == Len(Beginning) = 6
BY DEF Beginning, StreamInfo

\* A call that fails says so.
LEMMA FailedIsNotOk == \A e, v : Failed(e, v).ok = FALSE
BY DEF Failed, Outcome

\* init_stream_internal_, when every write succeeds.
LEMMA BeginStreamOk ==
  ASSUME NEW o \in BeginStream(out), o.ok, out.pos = Before
  PROVE  Encoding(o.enc, 0, <<>>) /\ o.out = Appended(out, Beginning)
<1> DEFINE e == [NewEncoder EXCEPT !.state = "ok", !.buffers = TRUE, !.min = NoMinimum,
                                   !.streaminfo = out.pos + 1]
<1>1. o = Outcome(e, Appended(out, Beginning), TRUE)
  <2>1. o \notin NotBegun(out)
    BY FailedIsNotOk DEF NotBegun
  <2>2. o \notin BeginningNotWritten(out)
    BY FailedIsNotOk DEF BeginningNotWritten
  <2> QED BY <2>1, <2>2 DEF BeginStream
<1>2. Encoding(e, 0, <<>>)
  <2>1. /\ e.state = "ok" /\ e.blocksize = BlockSize /\ e.signal = <<>>
        /\ e.number = 0 /\ e.leftover = FALSE /\ e.streaminfo = out.pos + 1
    BY DEF NewEncoder
  <2>2. DOMAIN e = DOMAIN NewEncoder
    OBVIOUS
  <2> HIDE DEF e
  <2> QED BY <2>1, <2>2 DEF Encoding
<1> HIDE DEF e
<1>3. o.enc = e /\ o.out = Appended(out, Beginning)
  BY <1>1 DEF Outcome
<1> QED BY <1>2, <1>3

\* process_frame_, when it succeeds, has written one frame.
LEMMA ProcessFrameOk ==
  ASSUME NEW e, NEW v, NEW o \in ProcessFrame(e, v), o.ok
  PROVE  \E size \in FrameSizes :
           o = Outcome(FrameWritten(e, size),
                       Put(v, Frame(e.number, Block(e), size, e.leftover)), TRUE)
<1>1. o \notin FramesNotMade(e, v)
  BY FailedIsNotOk DEF FramesNotMade
<1>2. o \notin FramesNotWritten(e, v)
  BY FailedIsNotOk DEF FramesNotWritten
<1> QED BY <1>1, <1>2 DEF ProcessFrame

\* The samples become the encoder's: all of them as signal, or a block of them as a
\* frame and the one beyond it as signal.
LEMMA GatherOk ==
  ASSUME NEW e, NEW k \in Nat, Encoding(e, k, e.signal), e.signal \in Seq(Int),
         NEW v, NEW samples \in Seq(Int), NEW o \in Gather(e, v, samples), o.ok
  PROVE  LET all == e.signal \o samples
         IN  \/ /\ Len(all) <= BlockSize
                /\ Encoding(o.enc, k, all) /\ o.out = v
             \/ /\ Len(all) > BlockSize
                /\ Encoding(o.enc, k + 1, <<all[Len(all)]>>)
                /\ \E size \in FrameSizes :
                     o.out = Put(v, Frame(k, SubSeq(all, 1, BlockSize), size, FALSE))
<1> DEFINE all == e.signal \o samples
           full == [e EXCEPT !.signal = @ \o samples]
<1>1. Encoding(full, k, all)
  BY EncoderFields DEF Encoding
<1>2. full.signal = all /\ e.blocksize = BlockSize
  BY <1>1, EncoderFields DEF Encoding
<1>3. all \in Seq(Int) /\ Len(all) \in Nat /\ BlockSize \in Nat
  BY EncoderAssumption
<1>4. Gather(e, v, samples) =
        IF Len(full.signal) <= e.blocksize THEN {Outcome(full, v, TRUE)}
        ELSE {Kept(p, full.signal[Len(full.signal)]) : p \in ProcessFrame(full, v)}
  BY DEF Gather
<1> HIDE DEF full
<1>5. CASE Len(all) <= BlockSize
  <2>1. o = Outcome(full, v, TRUE)
    BY <1>2, <1>4, <1>5
  <2>2. o.enc = full /\ o.out = v
    BY <2>1 DEF Outcome
  <2> QED BY <1>1, <1>5, <2>2
<1>6. CASE ~ (Len(all) <= BlockSize)
  <2> DEFINE last == all[Len(all)]
  <2>1. PICK p \in ProcessFrame(full, v) : o = Kept(p, last)
    BY <1>2, <1>4, <1>6
  <2> HIDE DEF all
  <2>2. p.ok
    BY <2>1 DEF Kept
  <2>3. PICK size \in FrameSizes :
          p = Outcome(FrameWritten(full, size),
                      Put(v, Frame(full.number, Block(full), size, full.leftover)), TRUE)
    BY <2>2, ProcessFrameOk
  <2>4. Block(full) = SubSeq(all, 1, BlockSize) /\ full.number = k /\ full.leftover = FALSE
    BY <1>1 DEF Encoding, Block
  <2>5. o.enc = [FrameWritten(full, size) EXCEPT !.signal = <<last>>]
    BY <2>1, <2>2, <2>3 DEF Kept, Outcome
  <2>6. o.out = Put(v, Frame(k, SubSeq(all, 1, BlockSize), size, FALSE))
    BY <2>1, <2>2, <2>3, <2>4 DEF Kept, Outcome
  <2>7. Encoding(o.enc, k + 1, <<last>>)
    <3>1. DOMAIN full = DOMAIN NewEncoder
      BY <1>1 DEF Encoding
    <3>2. /\ DOMAIN FrameWritten(full, size) = DOMAIN NewEncoder
          /\ FrameWritten(full, size).state = "ok"
          /\ FrameWritten(full, size).blocksize = BlockSize
          /\ FrameWritten(full, size).number = k + 1
          /\ FrameWritten(full, size).leftover = FALSE
          /\ FrameWritten(full, size).streaminfo = Before + 1
      BY <1>1, EncoderFields DEF Encoding, FrameWritten, Hashed
    <3> QED BY <2>5, <3>2, EncoderFields DEF Encoding
  <2>8. Len(all) > BlockSize
    BY <1>3, <1>6
  <2> QED BY <2>6, <2>7, <2>8 DEF all
<1> QED BY <1>5, <1>6

\* The update of STREAMINFO leaves every frame.
LEMMA UpdateMetadataOk ==
  ASSUME NEW e, e.streaminfo = Before + 1, NEW v, HasCells(v),
         Len(v.cells) >= AudioOffset, NEW o \in UpdateMetadata(e, v), o.ok
  PROVE  /\ Len(o.out.cells) = Len(v.cells)
         /\ \A i \in AudioOffset + 1 .. Len(v.cells) : o.out.cells[i] = v.cells[i]
<1> DEFINE one == Patched(e, v, "md5")
           two == Patched(e, one, "total")
           three == Patched(e, two, "framesizes")
           Same(w) == /\ HasCells(w) /\ Len(w.cells) = Len(v.cells)
                      /\ \A i \in AudioOffset + 1 .. Len(v.cells) :
                           w.cells[i] = v.cells[i]
<1>1. o.out = three
  <2>1. \A w, name : \A p \in PatchFails(e, w, name) : p.ok = FALSE
    BY FailedIsNotOk DEF PatchFails
  <2>2. \/ o = Outcome(e, three, TRUE)
        \/ o \in PatchFails(e, v, "md5") \/ o \in PatchFails(e, one, "total")
        \/ o \in PatchFails(e, two, "framesizes")
    BY DEF UpdateMetadata
  <2> HIDE DEF one, two, three
  <2>3. o = Outcome(e, three, TRUE)
    BY <2>1, <2>2
  <2> QED BY <2>3 DEF Outcome
<1>2. /\ FieldAt(e)["md5"] = Before + 4 /\ FieldAt(e)["total"] = Before + 3
      /\ FieldAt(e)["framesizes"] = Before + 2
  BY DriverAssumption DEF FieldAt
<1>3. AudioOffset = Before + 6 /\ Before \in Nat /\ Len(v.cells) \in Nat
  <2>1. Len(v.cells) \in Nat
    BY DEF HasCells, IsSequence
  <2> QED BY <2>1, BeginningLength, DriverAssumption DEF AudioOffset
<1>4. \A w, x : \A p \in Before + 2 .. Before + 4 : Same(w) => Same(Put(At(w, p), x))
  <2> SUFFICES ASSUME NEW w, NEW x, NEW p \in Before + 2 .. Before + 4, Same(w)
               PROVE  Same(Put(At(w, p), x))
    OBVIOUS
  <2>1. p \in 0 .. Len(w.cells) - 1
    BY <1>3
  <2>2. /\ HasCells(Put(At(w, p), x)) /\ Len(Put(At(w, p), x).cells) = Len(w.cells)
        /\ \A i \in 1 .. Len(w.cells) :
             i # p + 1 => Put(At(w, p), x).cells[i] = w.cells[i]
    BY <2>1, PutWithin
  <2> QED BY <1>3, <2>2
<1> HIDE DEF Same
<1>5. Same(v)
  BY DEF Same
<1>6. Same(one)
  BY <1>2, <1>3, <1>4, <1>5 DEF Patched
<1> HIDE DEF one
<1>7. Same(two)
  BY <1>2, <1>3, <1>4, <1>6 DEF Patched
<1> HIDE DEF two
<1>8. Same(three)
  BY <1>2, <1>3, <1>4, <1>7 DEF Patched
<1> QED BY <1>1, <1>8 DEF Same

\* process_frame_, when it does not, leaves the encoder in error.
LEMMA ProcessFrameFails ==
  ASSUME NEW e, DOMAIN e = DOMAIN NewEncoder, NEW v, NEW o \in ProcessFrame(e, v)
  PROVE  o.ok \/ o.enc.state = "error"
<1>1. \A x, w : DOMAIN x = DOMAIN NewEncoder => Failed(x, w).enc.state = "error"
  BY EncoderFields DEF Failed, Outcome
<1>2. \A b : DOMAIN [Hashed(e) EXCEPT !.leftover = b] = DOMAIN NewEncoder
  BY DEF Hashed
<1>3. CASE o \in FramesNotMade(e, v)
  BY <1>1, <1>2, <1>3 DEF FramesNotMade
<1>4. CASE o \in FramesNotWritten(e, v)
  BY <1>1, <1>2, <1>4 DEF FramesNotWritten
<1>5. CASE \E size \in FrameSizes :
             o = Outcome(FrameWritten(e, size),
                         Put(v, Frame(e.number, Block(e), size, e.leftover)), TRUE)
  BY <1>5 DEF Outcome
<1> QED BY <1>3, <1>4, <1>5 DEF ProcessFrame

\* The end of a stream adds what is left as its last frame, and leaves the others.
LEMMA FinishOk ==
  ASSUME NEW e, NEW k \in Nat, Encoding(e, k, e.signal), e.signal \in Seq(Int),
         NEW v, AtEnd(v), IsSequence(v.cells), Len(v.cells) = AudioOffset + k,
         NEW o \in Finish(e, v), o.ok
  PROVE  LET more == IF e.signal = <<>> THEN 0 ELSE 1
         IN  /\ Len(o.out.cells) = Len(v.cells) + more
             /\ \A i \in AudioOffset + 1 .. Len(v.cells) : o.out.cells[i] = v.cells[i]
             /\ more = 1 => \E size \in FrameSizes :
                  o.out.cells[Len(v.cells) + 1] = Frame(k, e.signal, size, FALSE)
<1> DEFINE more == IF e.signal = <<>> THEN 0 ELSE 1
           f == [e EXCEPT !.blocksize = Len(e.signal)]
           last(l) == /\ HasCells(l.out) /\ Len(l.out.cells) = Len(v.cells) + more
                      /\ \A i \in 1 .. Len(v.cells) : l.out.cells[i] = v.cells[i]
                      /\ more = 1 => \E size \in FrameSizes :
                           l.out.cells[Len(v.cells) + 1] = Frame(k, e.signal, size, FALSE)
                      /\ l.enc.streaminfo = Before + 1
<1>1. PICK l \in LastFrame(e, v) :
        \E p \in AfterLastFrame(l) : o.out = p.out /\ p.ok
  <2>1. e.state # "uninitialized"
    BY DEF Encoding
  <2>2. PICK p \in UNION {AfterLastFrame(l) : l \in LastFrame(e, v)} :
          o = Outcome([NewEncoder EXCEPT
                         !.state = IF p.ok THEN "uninitialized" ELSE p.enc.state],
                      p.out, p.ok)
    BY <2>1 DEF Finish
  <2>3. o.out = p.out /\ p.ok
    BY <2>2 DEF Outcome
  <2> QED BY <2>3
<1> PICK p \in AfterLastFrame(l) : o.out = p.out /\ p.ok
  BY <1>1
<1>2. l.ok
  <2>1. l.ok \/ l.enc.state = "error"
    BY EncoderFields, ProcessFrameFails DEF LastFrame, Encoding, Outcome
  <2> QED BY <2>1 DEF AfterLastFrame
<1>3. last(l)
  <2>1. HasCells(v) /\ Len(v.cells) \in Nat
    BY DEF AtEnd, HasCells, IsSequence
  <2>2. CASE e.signal = <<>>
    <3>1. l = Outcome(e, v, TRUE)
      BY <2>2 DEF LastFrame
    <3> QED BY <2>1, <2>2, <3>1 DEF Encoding, Outcome
  <2>3. CASE e.signal # <<>>
    <3>1. /\ DOMAIN f = DOMAIN NewEncoder /\ f.number = k /\ f.leftover = FALSE
          /\ f.signal = e.signal /\ f.blocksize = Len(e.signal)
          /\ f.streaminfo = Before + 1
      BY EncoderFields DEF Encoding
    <3>2. l \in ProcessFrame(f, v)
      BY <2>3 DEF LastFrame, Encoding
    <3> HIDE DEF f
    <3>3. PICK size \in FrameSizes :
            l = Outcome(FrameWritten(f, size),
                        Put(v, Frame(f.number, Block(f), size, f.leftover)), TRUE)
      BY <1>2, <3>2, ProcessFrameOk
    <3>4. Block(f) = e.signal
      <4>1. SubSeq(e.signal, 1, Len(e.signal)) = e.signal
        OBVIOUS
      <4> QED BY <3>1, <4>1 DEF Block
    <3>5. /\ l.out = Put(v, Frame(k, e.signal, size, FALSE))
          /\ l.enc = FrameWritten(f, size)
      BY <3>1, <3>3, <3>4 DEF Outcome
    <3>6. l.enc.streaminfo = Before + 1
      BY <3>1, <3>5, EncoderFields DEF FrameWritten, Hashed
    <3>7. /\ AtEnd(l.out) /\ IsSequence(l.out.cells)
          /\ Len(l.out.cells) = Len(v.cells) + 1
          /\ l.out.cells[Len(v.cells) + 1] = Frame(k, e.signal, size, FALSE)
          /\ \A i \in 1 .. Len(v.cells) : l.out.cells[i] = v.cells[i]
      <4> DEFINE x == Frame(k, e.signal, size, FALSE)
      <4> HIDE DEF x
      <4>1. /\ AtEnd(Put(v, x)) /\ IsSequence(Put(v, x).cells)
            /\ Len(Put(v, x).cells) = Len(v.cells) + 1
            /\ Put(v, x).cells[Len(v.cells) + 1] = x
            /\ \A i \in 1 .. Len(v.cells) : Put(v, x).cells[i] = v.cells[i]
        BY PutAtEnd
      <4>2. l.out = Put(v, x)
        BY <3>5 DEF x
      <4> HIDE DEF AtEnd, IsSequence
      <4>3. x = Frame(k, e.signal, size, FALSE)
        BY DEF x
      <4> QED BY <4>1, <4>2, <4>3
    <3>8. HasCells(l.out)
      BY <3>7 DEF AtEnd, HasCells
    <3> QED BY <2>3, <3>6, <3>7, <3>8
  <2> QED BY <2>2, <2>3
<1>4. AudioOffset \in Nat
  BY BeginningLength, DriverAssumption DEF AudioOffset
<1>5. CASE p = l
  <2>1. /\ Len(o.out.cells) = Len(v.cells) + more
        /\ \A i \in AudioOffset + 1 .. Len(v.cells) : o.out.cells[i] = v.cells[i]
    BY <1>3, <1>4, <1>5
  <2>2. more = 1 => \E size \in FrameSizes :
          o.out.cells[Len(v.cells) + 1] = Frame(k, e.signal, size, FALSE)
    BY <1>3, <1>5
  <2> QED BY <2>1, <2>2
<1>6. CASE p \in UpdateMetadata(l.enc, l.out)
  <2>1. Len(l.out.cells) >= AudioOffset
    BY <1>3, <1>4
  <2>2. /\ Len(p.out.cells) = Len(l.out.cells)
        /\ \A i \in AudioOffset + 1 .. Len(l.out.cells) : p.out.cells[i] = l.out.cells[i]
    BY <1>3, <1>6, <2>1, UpdateMetadataOk
  <2>3. /\ Len(o.out.cells) = Len(v.cells) + more
        /\ \A i \in AudioOffset + 1 .. Len(v.cells) : o.out.cells[i] = v.cells[i]
    BY <1>3, <1>4, <2>2
  <2>4. more = 1 => \E size \in FrameSizes :
          o.out.cells[Len(v.cells) + 1] = Frame(k, e.signal, size, FALSE)
    <3>1. more = 1 => Len(v.cells) + 1 \in AudioOffset + 1 .. Len(l.out.cells)
      BY <1>3, <1>4
    <3> QED BY <1>3, <2>2, <3>1
  <2> QED BY <2>3, <2>4
<1> QED BY <1>5, <1>6 DEF AfterLastFrame

-----------------------------------------------------------------------------
(* The driver.                                                             *)

WholeFrame(cells, k) ==
  \E size \in FrameSizes :
    cells[AudioOffset + k] =
      Frame(k - 1, Samples((k - 1) * BlockSize, BlockSize), size, FALSE)

\* What is recorded up to `position' is in f frames, in n samples of the encoder and
\* in m of the piece, one after the other.
InOrder(f, n, m) ==
  /\ AtEnd(out) /\ IsSequence(out.cells) /\ Len(out.cells) = AudioOffset + f
  /\ Encoding(enc, f, Samples(f * BlockSize, n)) /\ n <= BlockSize
  /\ pcm = Samples(f * BlockSize + n, m)
  /\ position = f * BlockSize + n + m
  /\ \A k \in 1 .. f : WholeFrame(out.cells, k)

EncoderInv ==
  /\ recorded \in Nat /\ position \in Nat /\ samplesLeft \in Nat
  /\ position + samplesLeft <= recorded
  /\ failed \in BOOLEAN
  /\ pc \in {"none", "idle", "chunk", "process", "destroyed", "crashed"}
  /\ pc = "none" =>
       /\ out = [cells |-> [i \in 1 .. Before |-> Field("before", i)], pos |-> Before]
       /\ position = 0 /\ pcm = <<>>
  /\ pc \in {"idle", "chunk"} => pcm = <<>>
  /\ pc \in {"idle", "chunk", "process"} /\ ~failed =>
       \E f, n, m \in Nat : InOrder(f, n, m)
  /\ pc \in {"destroyed", "crashed"} => SamplesInOrder

\* The samples before a block of a frame.
LEMMA Blocks ==
  ASSUME NEW f \in Nat
  PROVE  /\ f * BlockSize \in Nat /\ (f + 1) * BlockSize = f * BlockSize + BlockSize
         /\ \A k \in 1 .. f : /\ (k - 1) * BlockSize \in Nat
                              /\ (k - 1) * BlockSize + BlockSize = k * BlockSize
                              /\ k * BlockSize <= f * BlockSize
<1>1. BlockSize \in Nat \ {0}
  BY EncoderAssumption
<1>2. \A k \in 1 .. f : k * BlockSize <= f * BlockSize
  <2> TAKE k \in 1 .. f
  <2>1. f * BlockSize = k * BlockSize + (f - k) * BlockSize
    BY <1>1
  <2>2. (f - k) * BlockSize \in Nat
    BY <1>1
  <2> QED BY <1>1, <2>1, <2>2
<1>3. \A k \in 1 .. f : (k - 1) * BlockSize \in Nat
  BY <1>1
<1> QED BY <1>1, <1>2, <1>3

\* Where the frames begin.
LEMMA AudioOffsetIs == AudioOffset = Before + 6 /\ AudioOffset \in Nat
BY BeginningLength, DriverAssumption DEF AudioOffset

\* The invariant says of the samples what SamplesInOrder does.
LEMMA WhileEncoding ==
  ASSUME EncoderInv, pc \notin {"destroyed", "crashed"}
  PROVE  SamplesInOrder
<1> SUFFICES ASSUME pc # "none", ~failed PROVE SamplesInOrder
  BY DEF SamplesInOrder
<1>1. PICK f, n, m \in Nat : InOrder(f, n, m)
  BY DEF EncoderInv
<1>2. BlockSize \in Nat /\ f * BlockSize \in Nat
  BY Blocks, EncoderAssumption
<1>3. FrameCount = f
  BY <1>1, AudioOffsetIs DEF FrameCount, InOrder
<1>4. /\ enc.signal = Samples(f * BlockSize, n) /\ Len(enc.signal) = n
      /\ pcm = Samples(f * BlockSize + n, m) /\ Len(pcm) = m
  <2>1. f * BlockSize + n \in Nat
    BY <1>2
  <2> QED BY <1>1, <1>2, <2>1, SamplesType DEF InOrder, Encoding
<1>5. position = f * BlockSize + n + m
  BY <1>1 DEF InOrder
<1>6. ASSUME NEW k \in 1 .. f
      PROVE  /\ ~ (k * BlockSize > position)
             /\ FrameAt(k).cell = "frame" /\ ~FrameAt(k).torn
             /\ FrameAt(k).number = k - 1
             /\ FrameAt(k).samples = Samples((k - 1) * BlockSize, BlockSize)
  <2>1. ~ (k * BlockSize > position)
    BY <1>2, <1>5, Blocks
  <2>2. PICK size \in FrameSizes :
          FrameAt(k) = Frame(k - 1, Samples((k - 1) * BlockSize, BlockSize), size, FALSE)
    BY <1>1 DEF InOrder, WholeFrame, FrameAt
  <2>3. /\ FrameAt(k).cell = "frame" /\ FrameAt(k).number = k - 1
        /\ FrameAt(k).samples = Samples((k - 1) * BlockSize, BlockSize)
    BY <2>2 DEF Frame
  <2>4. ~FrameAt(k).torn
    BY <2>2 DEF Frame
  <2> QED BY <2>1, <2>3, <2>4
<1> QED BY <1>3, <1>4, <1>5, <1>6 DEF SamplesInOrder

\* There is nothing yet.
LEMMA EncoderInit == ASSUME Init PROVE EncoderInv
<1>1. recorded = 0 /\ position = 0 /\ samplesLeft = 0 /\ failed = FALSE
  BY DEF Init
<1>2. /\ out = [cells |-> [i \in 1 .. Before |-> Field("before", i)], pos |-> Before]
      /\ pc = "none" /\ pcm = <<>>
  BY DEF Init
<1>3. /\ recorded \in Nat /\ position \in Nat /\ samplesLeft \in Nat
      /\ position + samplesLeft <= recorded
  BY <1>1
<1>4. failed \in BOOLEAN
  BY <1>1
<1> QED BY <1>1, <1>2, <1>3, <1>4 DEF EncoderInv

\* The stream is begun: no frame, and no sample.
LEMMA CreateKeeps == ASSUME EncoderInv, Create PROVE EncoderInv'
<1>1. PICK o \in BeginStream(out) : enc' = o.enc /\ out' = o.out /\ failed' = ~o.ok
  BY DEF Create
<1>2. /\ pc = "none" /\ pc' = "idle"
      /\ UNCHANGED <<recorded, position, samplesLeft, pcm, report>>
      /\ failed' \in BOOLEAN
  BY DEF Create
<1>3. ASSUME ~failed' PROVE InOrder(0, 0, 0)'
  <2> DEFINE b == [i \in 1 .. Before |-> Field("before", i)]
             S == {b[i] : i \in 1 .. Before} \cup {Beginning[i] : i \in 1 .. 6}
  <2>1. /\ out = [cells |-> b, pos |-> Before]
        /\ position = 0 /\ pcm = <<>>
    BY <1>2 DEF EncoderInv
  <2>2. b \in Seq(S) /\ Len(b) = Before
    BY DriverAssumption
  <2>3. Beginning \in Seq(S) /\ Len(Beginning) = 6
    <3>1. Beginning \in Seq({Beginning[i] : i \in 1 .. 6})
      BY BeginningLength DEF Beginning, StreamInfo
    <3>2. {Beginning[i] : i \in 1 .. 6} \subseteq S
      OBVIOUS
    <3> HIDE DEF S
    <3> QED BY <3>1, <3>2, BeginningLength
  <2> HIDE DEF b, S
  <2>4. o.ok
    BY <1>1, <1>3
  <2>5. Encoding(enc', 0, <<>>) /\ out' = Appended(out, Beginning)
    BY <1>1, <2>1, <2>4, BeginStreamOk
  <2>6. out' = [cells |-> b \o Beginning, pos |-> Before + 6]
    BY <2>1, <2>3, <2>5 DEF Appended
  <2>7. b \o Beginning \in Seq(S) /\ Len(b \o Beginning) = Before + 6
    <3> DEFINE c == Beginning
    <3> HIDE DEF c
    <3>1. c \in Seq(S) /\ Len(c) = 6
      BY <2>3 DEF c
    <3>2. b \o c \in Seq(S) /\ Len(b \o c) = Before + 6
      <4>1. b \o c \in Seq(S) /\ Len(b \o c) = Len(b) + Len(c)
        BY <2>2, <3>1, ConcatProperties
      <4> QED BY <2>2, <3>1, <4>1
    <3> QED BY <3>2 DEF c
  <2>8. AtEnd(out)' /\ IsSequence(out.cells)' /\ Len(out'.cells) = AudioOffset + 0
    <3> DEFINE d == b \o Beginning
    <3>1. d \in Seq(S) /\ Len(d) = Before + 6
      BY <2>7
    <3>2. out' = [cells |-> d, pos |-> Before + 6]
      BY <2>6
    <3> HIDE DEF d
    <3>3. out'.cells = d /\ out'.pos = Before + 6
      BY <3>2
    <3> QED BY <3>1, <3>2, <3>3, AudioOffsetIs DEF AtEnd, IsSequence
  <2>9. 0 * BlockSize = 0 /\ 0 <= BlockSize
    BY EncoderAssumption
  <2>10. Samples(0, 0) = <<>>
    BY SamplesType
  <2> QED BY <1>2, <2>1, <2>5, <2>8, <2>9, <2>10 DEF InOrder
<1> QED BY <1>2, <1>3 DEF EncoderInv

\* What is recorded is beyond what is read.
LEMMA RecordKeeps == ASSUME EncoderInv, Record PROVE EncoderInv'
<1>1. /\ recorded' \in Nat /\ recorded' > recorded /\ pc \in {"none", "idle"}
      /\ UNCHANGED <<enc, out, position, pc, samplesLeft, pcm, report, failed>>
  <2>1. PICK n \in recorded + 1 .. MaxSamples : recorded' = n
    BY DEF Record
  <2> QED BY <2>1, DriverAssumption DEF Record, EncoderInv
<1>2. \A f, n, m \in Nat : InOrder(f, n, m) => InOrder(f, n, m)'
  BY <1>1 DEF InOrder
<1> QED BY <1>1, <1>2 DEF EncoderInv

\* A chunk is not longer than what is recorded.
LEMMA BeginChunkKeeps == ASSUME EncoderInv, BeginChunk PROVE EncoderInv'
<1>1. /\ pc = "idle" /\ pc' = "chunk"
      /\ samplesLeft' = LesserOf(ChunkSize, recorded - position)
      /\ UNCHANGED <<enc, out, recorded, position, pcm, report, failed>>
  BY DEF BeginChunk
<1>2. samplesLeft' \in Nat /\ position + samplesLeft' <= recorded
  BY <1>1, DriverAssumption DEF EncoderInv, LesserOf
<1>3. \A f, n, m \in Nat : InOrder(f, n, m) => InOrder(f, n, m)'
  BY <1>1 DEF InOrder
<1> QED BY <1>1, <1>2, <1>3 DEF EncoderInv

\* The chunk is done.
LEMMA EndChunkKeeps == ASSUME EncoderInv, EndChunk PROVE EncoderInv'
<1>1. /\ pc = "chunk" /\ pc' = "idle"
      /\ UNCHANGED <<enc, out, recorded, position, samplesLeft, pcm, report, failed>>
  BY DEF EndChunk
<1>2. \A f, n, m \in Nat : InOrder(f, n, m) => InOrder(f, n, m)'
  BY <1>1 DEF InOrder
<1> QED BY <1>1, <1>2 DEF EncoderInv

\* Between the pieces there are no samples but the encoder's.
LEMMA EmptyPiece ==
  ASSUME NEW f \in Nat, NEW n \in Nat, NEW m \in Nat, InOrder(f, n, m), pcm = <<>>
  PROVE  m = 0
<1>1. f * BlockSize + n \in Nat
  <2>1. f * BlockSize \in Nat
    BY Blocks
  <2> QED BY <2>1
<1> QED BY <1>1, SamplesType DEF InOrder

\* A piece is what comes after the encoder's samples.
LEMMA ReadPieceKeeps == ASSUME EncoderInv, ReadPiece PROVE EncoderInv'
<1>1. PICK needed \in Nat :
        needed = LesserOf(ReadSize, samplesLeft) /\ needed <= samplesLeft
  BY DriverAssumption DEF EncoderInv, LesserOf
<1>2. /\ pc = "chunk" /\ pc' = "process" /\ samplesLeft > 0
      /\ pcm' = Samples(position, needed) /\ position' = position + needed
      /\ samplesLeft' = samplesLeft - needed
      /\ UNCHANGED <<enc, out, recorded, report, failed>>
  BY <1>1 DEF ReadPiece
<1>3. /\ position' \in Nat /\ samplesLeft' \in Nat
      /\ position' + samplesLeft' <= recorded'
  BY <1>2, <1>1 DEF EncoderInv
<1>4. ASSUME NEW f \in Nat, NEW n \in Nat, NEW m \in Nat, InOrder(f, n, m)
      PROVE  InOrder(f, n, needed)'
  <2>1. pcm = <<>>
    BY <1>2 DEF EncoderInv
  <2>2. m = 0
    BY <1>4, <2>1, EmptyPiece
  <2>3. position = f * BlockSize + n
    <3>1. f * BlockSize \in Nat
      BY Blocks
    <3> QED BY <1>4, <2>2, <3>1 DEF InOrder
  <2>4. /\ pcm' = Samples(f * BlockSize + n, needed)
        /\ position' = f * BlockSize + n + needed
    BY <1>2, <2>3
  <2>5. /\ AtEnd(out) /\ IsSequence(out.cells) /\ Len(out.cells) = AudioOffset + f
        /\ Encoding(enc, f, Samples(f * BlockSize, n)) /\ n <= BlockSize
        /\ \A k \in 1 .. f : WholeFrame(out.cells, k)
    BY <1>4 DEF InOrder
  <2>6. enc' = enc /\ out' = out
    BY <1>2
  <2> QED BY <2>4, <2>5, <2>6 DEF InOrder
<1>5. ~failed' => \E f, n, m \in Nat : InOrder(f, n, m)'
  BY <1>2, <1>4 DEF EncoderInv
<1> QED BY <1>2, <1>3, <1>5 DEF EncoderInv

\* The first r samples of the piece go to the encoder, with or without a frame.
LEMMA PieceGathered ==
  ASSUME NEW f \in Nat, NEW n \in Nat, NEW m \in Nat, InOrder(f, n, m),
         NEW r \in 0 .. m, n + r <= BlockSize + 1,
         NEW o \in Gather(enc, out, SubSeq(pcm, 1, r)), o.ok,
         enc' = o.enc, out' = o.out, position' = position,
         pcm' = SubSeq(pcm, r + 1, Len(pcm))
  PROVE  InOrder(f, n + r, m - r)' \/ InOrder(f + 1, 1, m - r)'
<1> DEFINE g == f * BlockSize
           all == Samples(g, n + r)
<1>1. /\ BlockSize \in Nat \ {0} /\ g \in Nat /\ g + n \in Nat /\ n + r \in Nat
      /\ r \in Nat /\ (f + 1) * BlockSize = g + BlockSize
  <2>1. BlockSize \in Nat \ {0} /\ g \in Nat /\ (f + 1) * BlockSize = g + BlockSize
    BY Blocks, EncoderAssumption
  <2> QED BY <2>1
<1>2. /\ AtEnd(out) /\ IsSequence(out.cells) /\ Len(out.cells) = AudioOffset + f
      /\ Encoding(enc, f, Samples(g, n))
      /\ pcm = Samples(g + n, m) /\ position = g + n + m
      /\ \A k \in 1 .. f : WholeFrame(out.cells, k)
  BY DEF InOrder
<1>3. enc.signal = Samples(g, n)
  BY <1>2 DEF Encoding
<1> HIDE DEF g
<1>4. /\ SubSeq(pcm, 1, r) = Samples(g + n, r)
      /\ pcm' = Samples(g + n + r, m - r)
  <2>1. Len(pcm) = m
    BY <1>1, <1>2, SamplesType
  <2>2. /\ SubSeq(Samples(g + n, m), 1, r) = Samples(g + n, r)
        /\ SubSeq(Samples(g + n, m), r + 1, m) = Samples(g + n + r, m - r)
    BY <1>1, SamplesSplit
  <2> QED BY <1>2, <2>1, <2>2
<1>5. enc.signal \o Samples(g + n, r) = all
  <2>1. Samples(g, n) \o Samples(g + n, r) = all
    <3>1. g \in Nat /\ n \in Nat /\ r \in Nat
      BY <1>1
    <3> QED BY <3>1, SamplesJoin, Zenon
  <2> QED BY <1>3, <2>1
<1>6. /\ all \in Seq(Int) /\ Len(all) = n + r
      /\ \A i \in 1 .. n + r : all[i] = Pcm(g + i)
  BY <1>1, SamplesType
<1>7. \/ /\ Len(all) <= BlockSize
         /\ Encoding(o.enc, f, all) /\ o.out = out
      \/ /\ Len(all) > BlockSize
         /\ Encoding(o.enc, f + 1, <<all[Len(all)]>>)
         /\ \E size \in FrameSizes :
              o.out = Put(out, Frame(f, SubSeq(all, 1, BlockSize), size, FALSE))
  <2>1. enc.signal \in Seq(Int) /\ Samples(g + n, r) \in Seq(Int)
    BY <1>1, <1>3, SamplesType
  <2>2. Encoding(enc, f, enc.signal)
    BY <1>2, <1>3
  <2>3. o \in Gather(enc, out, Samples(g + n, r))
    BY <1>4
  <2> HIDE DEF all
  <2> QED BY <1>5, <2>1, <2>2, <2>3, GatherOk
<1>8. enc' = o.enc /\ out' = o.out
  OBVIOUS
<1>9. position' = g + n + m
  BY <1>2
<1>10. CASE Len(all) <= BlockSize
  <2>1. ~ (Len(all) > BlockSize)
    BY <1>1, <1>6, <1>10
  <2>2. Encoding(enc', f, all) /\ out' = out /\ n + r <= BlockSize
    <3>1. Encoding(o.enc, f, all) /\ o.out = out
      BY <1>7, <2>1
    <3> QED BY <1>8, <1>6, <1>10, <3>1
  <2>3. position' = g + (n + r) + (m - r) /\ g + n + r = g + (n + r)
    BY <1>1, <1>9
  <2>4. InOrder(f, n + r, m - r)'
    BY <1>2, <1>4, <2>2, <2>3 DEF InOrder, g
  <2> QED BY <2>4
<1>11. CASE Len(all) > BlockSize
  <2>1. ~ (Len(all) <= BlockSize)
    BY <1>1, <1>6, <1>11
  <2>2. /\ Encoding(o.enc, f + 1, <<all[Len(all)]>>)
        /\ \E size \in FrameSizes :
              o.out = Put(out, Frame(f, SubSeq(all, 1, BlockSize), size, FALSE))
    BY <1>7, <2>1
  <2>3. n + r = BlockSize + 1
    BY <1>1, <1>6, <1>11
  <2>4. PICK size \in FrameSizes :
          out' = Put(out, Frame(f, SubSeq(all, 1, BlockSize), size, FALSE))
    BY <1>8, <2>2
  <2>5. Encoding(enc', f + 1, <<all[BlockSize + 1]>>)
    BY <1>8, <1>6, <2>2, <2>3
  <2>6. <<all[BlockSize + 1]>> = Samples(g + BlockSize, 1)
    <3>1. all[BlockSize + 1] = Pcm(g + BlockSize + 1)
      <4>1. BlockSize + 1 \in 1 .. n + r /\ g + (BlockSize + 1) = g + BlockSize + 1
        BY <1>1, <2>3
      <4> QED BY <1>6, <4>1
    <3>2. /\ Samples(g + BlockSize, 1) \in Seq(Int)
          /\ Len(Samples(g + BlockSize, 1)) = 1
          /\ Samples(g + BlockSize, 1)[1] = Pcm(g + BlockSize + 1)
      <4>1. g + BlockSize \in Nat /\ 1 \in Nat /\ 1 \in 1 .. 1
        BY <1>1
      <4> QED BY <4>1, SamplesType
    <3> HIDE DEF all
    <3> QED BY <3>1, <3>2
  <2>7. SubSeq(all, 1, BlockSize) = Samples(g, BlockSize)
    <3>1. BlockSize \in 0 .. n + r
      BY <1>1, <2>3
    <3> QED BY <1>1, <3>1, SamplesSplit
  <2> DEFINE x == Frame(f, Samples(g, BlockSize), size, FALSE)
  <2> HIDE DEF x
  <2>8. out' = Put(out, x)
    BY <2>4, <2>7 DEF x
  <2>9. /\ AtEnd(out') /\ IsSequence(out'.cells)
        /\ Len(out'.cells) = AudioOffset + f + 1
        /\ out'.cells[AudioOffset + f + 1] = x
        /\ \A i \in 1 .. AudioOffset + f : out'.cells[i] = out.cells[i]
    <3>1. /\ AtEnd(Put(out, x)) /\ IsSequence(Put(out, x).cells)
          /\ Len(Put(out, x).cells) = Len(out.cells) + 1
          /\ Put(out, x).cells[Len(out.cells) + 1] = x
          /\ \A i \in 1 .. Len(out.cells) : Put(out, x).cells[i] = out.cells[i]
      BY <1>2, PutAtEnd
    <3> QED BY <1>2, <2>8, <3>1
  <2>10. \A k \in 1 .. f + 1 : WholeFrame(out'.cells, k)
    <3> TAKE k \in 1 .. f + 1
    <3>1. CASE k = f + 1
      <4>1. (k - 1) * BlockSize = g /\ k - 1 = f /\ AudioOffset + k = AudioOffset + f + 1
        BY <3>1, AudioOffsetIs DEF g
      <4> QED BY <2>9, <4>1 DEF WholeFrame, x
    <3>2. CASE k # f + 1
      <4>1. k \in 1 .. f /\ AudioOffset + k \in 1 .. AudioOffset + f
        BY <3>2, AudioOffsetIs
      <4>2. out'.cells[AudioOffset + k] = out.cells[AudioOffset + k]
        BY <2>9, <4>1
      <4> QED BY <1>2, <4>1, <4>2 DEF WholeFrame
    <3> QED BY <3>1, <3>2
  <2>11. /\ position' = g + BlockSize + 1 + (m - r)
        /\ pcm' = Samples(g + BlockSize + 1, m - r)
        /\ 1 <= BlockSize /\ AudioOffset + f + 1 = AudioOffset + (f + 1)
    <3>1. g + n + r = g + BlockSize + 1
      BY <1>1, <2>3
    <3>2. g + n + m = g + n + r + (m - r)
      BY <1>1
    <3>3. 1 <= BlockSize /\ AudioOffset + f + 1 = AudioOffset + (f + 1)
      BY <1>1, AudioOffsetIs
    <3> QED BY <1>4, <1>9, <3>1, <3>2, <3>3
  <2>12. InOrder(f + 1, 1, m - r)'
    <3>1. /\ Encoding(enc', f + 1, Samples((f + 1) * BlockSize, 1))
          /\ pcm' = Samples((f + 1) * BlockSize + 1, m - r)
          /\ position' = (f + 1) * BlockSize + 1 + (m - r)
      BY <1>1, <2>5, <2>6, <2>11
    <3> QED BY <2>9, <2>10, <2>11, <3>1 DEF InOrder
  <2> QED BY <2>12
<1> QED BY <1>7, <1>10, <1>11

\* Once around the loop: samples of the piece are gathered.
LEMMA ProcessKeeps == ASSUME EncoderInv, Process PROVE EncoderInv'
<1> DEFINE taken == LesserOf(Room(enc), Len(pcm))
           rest == SubSeq(pcm, taken + 1, Len(pcm))
<1>1. PICK o \in Gather(enc, out, SubSeq(pcm, 1, taken)) :
        /\ enc' = o.enc /\ out' = o.out /\ failed' = (failed \/ ~o.ok)
        /\ pc' = IF ~o.ok THEN "idle" ELSE IF rest = <<>> THEN "chunk" ELSE pc
        /\ pcm' = IF o.ok THEN rest ELSE <<>>
        /\ samplesLeft' = IF o.ok THEN samplesLeft ELSE 0
  BY DEF Process
<1>2. pc = "process" /\ UNCHANGED <<recorded, position, report>>
  BY DEF Process
<1>3. /\ recorded' \in Nat /\ position' \in Nat /\ samplesLeft' \in Nat
      /\ position' + samplesLeft' <= recorded'
  BY <1>1, <1>2 DEF EncoderInv
<1>4. failed' \in BOOLEAN
  BY <1>1
<1>5. pc' \in {"idle", "chunk", "process"} /\ (pc' \in {"idle", "chunk"} => pcm' = <<>>)
  BY <1>1, <1>2
<1>6. ASSUME ~failed' PROVE \E f, n, m \in Nat : InOrder(f, n, m)'
  <2>1. o.ok /\ ~failed
    BY <1>1, <1>6
  <2>2. PICK f, n, m \in Nat : InOrder(f, n, m)
    BY <1>2, <2>1 DEF EncoderInv
  <2>3. f * BlockSize \in Nat /\ BlockSize \in Nat
    BY Blocks, EncoderAssumption
  <2>4. f * BlockSize + n \in Nat
    BY <2>3
  <2>5. Len(enc.signal) = n /\ Len(pcm) = m /\ enc.blocksize = BlockSize /\ n <= BlockSize
    BY <2>2, <2>3, <2>4, SamplesType DEF InOrder, Encoding
  <2>6. Room(enc) = BlockSize + 1 - n
    BY <2>5 DEF Room, OverRead
  <2>7. PICK r \in 0 .. m : r = taken /\ n + r <= BlockSize + 1
    BY <2>3, <2>5, <2>6 DEF LesserOf
  <2> HIDE DEF taken
  <2>8. /\ o \in Gather(enc, out, SubSeq(pcm, 1, r))
        /\ pcm' = SubSeq(pcm, r + 1, Len(pcm))
    BY <1>1, <2>1, <2>7
  <2>9. InOrder(f, n + r, m - r)' \/ InOrder(f + 1, 1, m - r)'
    BY <1>1, <1>2, <2>1, <2>2, <2>7, <2>8, PieceGathered
  <2>10. n + r \in Nat /\ m - r \in Nat /\ f + 1 \in Nat /\ 1 \in Nat
    OBVIOUS
  <2> QED BY <2>9, <2>10
<1> QED BY <1>3, <1>4, <1>5, <1>6 DEF EncoderInv

\* The last frame holds what the encoder had left.
LEMMA DestroyKeeps == ASSUME EncoderInv, Destroy PROVE EncoderInv'
<1>1. PICK o \in Finish(enc, out) :
        enc' = o.enc /\ out' = o.out /\ failed' = (failed \/ ~o.ok)
  BY DEF Destroy
<1>2. /\ pc = "idle" /\ pc' = "destroyed"
      /\ UNCHANGED <<recorded, position, samplesLeft, pcm>>
  BY DEF Destroy
<1>3. failed' \in BOOLEAN
  BY <1>1
<1>4. ASSUME ~failed'
      PROVE  /\ \A k \in 1 .. FrameCount' :
                  LET size == IF k * BlockSize > position'
                              THEN position' - (k - 1) * BlockSize ELSE BlockSize
                  IN  /\ FrameAt(k).cell' = "frame" /\ ~FrameAt(k).torn'
                      /\ FrameAt(k).number' = k - 1
                      /\ FrameAt(k).samples' = Samples((k - 1) * BlockSize, size)
             /\ FrameCount' * BlockSize >= position'
  <2>1. o.ok /\ ~failed
    BY <1>1, <1>4
  <2>2. PICK f, n, m \in Nat : InOrder(f, n, m)
    BY <1>2, <2>1 DEF EncoderInv
  <2> DEFINE g == f * BlockSize
             more == IF enc.signal = <<>> THEN 0 ELSE 1
  <2>3. g \in Nat /\ BlockSize \in Nat \ {0} /\ (f + 1) * BlockSize = g + BlockSize
    BY Blocks, EncoderAssumption
  <2>4. /\ AtEnd(out) /\ IsSequence(out.cells) /\ Len(out.cells) = AudioOffset + f
        /\ Encoding(enc, f, Samples(g, n)) /\ n <= BlockSize
        /\ position = g + n + m
        /\ \A k \in 1 .. f : WholeFrame(out.cells, k)
    BY <2>2 DEF InOrder
  <2>5. position' = g + n
    <3>1. m = 0
      BY <1>2, <2>2, EmptyPiece DEF EncoderInv
    <3> HIDE DEF g
    <3> QED BY <1>2, <2>3, <2>4, <3>1
  <2>6. enc.signal = Samples(g, n) /\ enc.signal \in Seq(Int) /\ Len(enc.signal) = n
    BY <2>3, <2>4, SamplesType DEF Encoding
  <2>7. /\ Len(out'.cells) = Len(out.cells) + more
        /\ \A i \in AudioOffset + 1 .. Len(out.cells) : out'.cells[i] = out.cells[i]
        /\ more = 1 => \E size \in FrameSizes :
             out'.cells[Len(out.cells) + 1] = Frame(f, enc.signal, size, FALSE)
    <3>1. Encoding(enc, f, enc.signal)
      BY <2>4, <2>6
    <3>2. /\ Len(o.out.cells) = Len(out.cells) + more
          /\ \A i \in AudioOffset + 1 .. Len(out.cells) : o.out.cells[i] = out.cells[i]
          /\ more = 1 => \E size \in FrameSizes :
               o.out.cells[Len(out.cells) + 1] = Frame(f, enc.signal, size, FALSE)
      BY <2>1, <2>4, <2>6, <3>1, FinishOk
    <3> HIDE DEF g, more
    <3> QED BY <1>1, <3>2
  <2>8. more \in {0, 1} /\ (more = 0 => n = 0) /\ (more = 1 => n > 0)
    <3>1. enc.signal = <<>> => n = 0
      BY <2>6
    <3>2. enc.signal # <<>> => n # 0
      BY <2>6
    <3> QED BY <3>1, <3>2
  <2> HIDE DEF more
  <2>9. FrameCount' = f + more
    BY <2>4, <2>7, <2>8, AudioOffsetIs DEF FrameCount
  <2>10. ASSUME NEW k \in 1 .. f + more
         PROVE  \E size \in FrameSizes :
                  FrameAt(k)' =
                    Frame(k - 1, Samples((k - 1) * BlockSize,
                                         IF k * BlockSize > position'
                                         THEN position' - (k - 1) * BlockSize
                                         ELSE BlockSize), size, FALSE)
    <3>1. CASE k \in 1 .. f
      <4>1. k * BlockSize <= g /\ k * BlockSize \in Nat
        BY <2>3, <3>1, Blocks
      <4>2. ~ (k * BlockSize > position')
        <5> HIDE DEF g
        <5> QED BY <2>3, <2>5, <4>1
      <4>3. AudioOffset + k \in AudioOffset + 1 .. Len(out.cells)
        BY <2>4, <3>1, AudioOffsetIs
      <4>4. FrameAt(k)' = out.cells[AudioOffset + k]
        BY <2>7, <4>3 DEF FrameAt
      <4> QED BY <2>4, <3>1, <4>2, <4>4 DEF WholeFrame
    <3>2. CASE k \notin 1 .. f
      <4>1. more = 1 /\ k = f + 1 /\ n > 0
        BY <2>8, <3>2
      <4>2. (k - 1) * BlockSize = g /\ k * BlockSize = g + BlockSize /\ k - 1 = f
        BY <2>3, <4>1
      <4>3. (IF k * BlockSize > position'
             THEN position' - (k - 1) * BlockSize ELSE BlockSize) = n
        <5> HIDE DEF g
        <5> QED BY <2>3, <2>4, <2>5, <4>2
      <4>4. AudioOffset + k = Len(out.cells) + 1
        BY <2>4, <4>1, AudioOffsetIs
      <4>5. PICK size \in FrameSizes :
              out'.cells[Len(out.cells) + 1] = Frame(f, enc.signal, size, FALSE)
        BY <2>7, <4>1
      <4>6. FrameAt(k)' = Frame(f, Samples(g, n), size, FALSE)
        BY <2>6, <4>4, <4>5 DEF FrameAt
      <4> QED BY <4>2, <4>3, <4>6
    <3> QED BY <3>1, <3>2
  <2>11. ASSUME NEW k \in 1 .. FrameCount'
         PROVE  LET size == IF k * BlockSize > position'
                            THEN position' - (k - 1) * BlockSize ELSE BlockSize
                IN  /\ FrameAt(k).cell' = "frame" /\ ~FrameAt(k).torn'
                    /\ FrameAt(k).number' = k - 1
                    /\ FrameAt(k).samples' = Samples((k - 1) * BlockSize, size)
    <3> DEFINE w == Samples((k - 1) * BlockSize,
                            IF k * BlockSize > position'
                            THEN position' - (k - 1) * BlockSize ELSE BlockSize)
    <3>1. PICK size \in FrameSizes : FrameAt(k)' = Frame(k - 1, w, size, FALSE)
      BY <2>9, <2>10
    <3> HIDE DEF w
    <3>2. /\ FrameAt(k).cell' = "frame" /\ FrameAt(k).number' = k - 1
          /\ FrameAt(k).samples' = w
      BY <3>1 DEF Frame
    <3>3. ~FrameAt(k).torn'
      BY <3>1 DEF Frame
    <3> QED BY <3>2, <3>3 DEF w
  <2>12. FrameCount' * BlockSize >= position'
    <3>1. CASE more = 0
      <4>1. FrameCount' = f /\ n = 0
        BY <2>8, <2>9, <3>1
      <4> QED BY <2>3, <2>5, <4>1
    <3>2. CASE more = 1
      <4>1. FrameCount' * BlockSize = g + BlockSize
        BY <2>3, <2>9, <3>2
      <4> HIDE DEF g
      <4> QED BY <2>3, <2>4, <2>5, <4>1
    <3> QED BY <2>8, <3>1, <3>2
  <2> QED BY <2>11, <2>12
<1>5. SamplesInOrder'
  BY <1>2, <1>4 DEF SamplesInOrder
<1> QED BY <1>2, <1>3, <1>5 DEF EncoderInv

\* A stuttering step.
LEMMA UnchangedKeeps == ASSUME EncoderInv, UNCHANGED vars PROVE EncoderInv'
<1>1. UNCHANGED <<enc, out, recorded, position, pc, samplesLeft, pcm, report, failed>>
  BY DEF vars
<1>2. \A f, n, m \in Nat : InOrder(f, n, m) => InOrder(f, n, m)'
  BY <1>1 DEF InOrder
<1>3. SamplesInOrder => SamplesInOrder'
  BY <1>1 DEF SamplesInOrder, FrameCount, FrameAt
<1> QED BY <1>1, <1>2, <1>3 DEF EncoderInv

\* A call that does not return leaves all as it was.
LEMMA CrashKeeps == ASSUME EncoderInv, Crash PROVE EncoderInv'
<1>1. /\ pc' = "crashed" /\ failed' = TRUE
      /\ UNCHANGED <<recorded, position, samplesLeft>>
  BY DEF Crash
<1>2. SamplesInOrder'
  BY <1>1 DEF SamplesInOrder
<1> QED BY <1>1, <1>2 DEF EncoderInv

\* No step loses a sample's place.
LEMMA EncoderStep == EncoderInv /\ [Next]_vars => EncoderInv'
<1> SUFFICES ASSUME EncoderInv, [Next]_vars PROVE EncoderInv'
  OBVIOUS
<1>1. CASE Create BY <1>1, CreateKeeps
<1>2. CASE Record BY <1>2, RecordKeeps
<1>3. CASE BeginChunk BY <1>3, BeginChunkKeeps
<1>4. CASE ReadPiece BY <1>4, ReadPieceKeeps
<1>5. CASE Process BY <1>5, ProcessKeeps
<1>6. CASE EndChunk BY <1>6, EndChunkKeeps
<1>7. CASE Destroy BY <1>7, DestroyKeeps
<1>8. CASE CreateCrashes \/ ReadCrashes \/ ProcessCrashes
  BY <1>8, CrashKeeps DEF CreateCrashes, ReadCrashes, ProcessCrashes
<1>9. CASE UNCHANGED vars BY <1>9, UnchangedKeeps
<1> QED BY <1>1, <1>2, <1>3, <1>4, <1>5, <1>6, <1>7, <1>8, <1>9 DEF Next, Chunk

\* As long as nothing fails, every sample that new_encodeChunckOfRawData has read is
\* once and at its place in the stream, in the encoder or in the piece, and in the
\* stream when new_destroyStaticFlacEncoder has finished it: for every size of a
\* block, a piece and a chunk, and every length of the recording.
THEOREM SamplesAreInOrder == Spec => []SamplesInOrder
<1>1. Init => EncoderInv
  BY EncoderInit
<1>2. EncoderInv /\ [Next]_vars => EncoderInv'
  BY EncoderStep
<1>3. EncoderInv => SamplesInOrder
  BY WhileEncoding DEF EncoderInv
<1> QED BY <1>1, <1>2, <1>3, PTL DEF Spec

-----------------------------------------------------------------------------
(* What the calls of the encoder leave, whether or not they fail.          *)

IsEncoder(e) == DOMAIN e = DOMAIN NewEncoder

\* The output is what it was, and frames after it.
Grown(v, w) ==
  /\ AtEnd(w) /\ IsSequence(w.cells)
  /\ Len(v.cells) \in Nat /\ Len(w.cells) \in Nat /\ Len(v.cells) <= Len(w.cells)
  /\ \A i \in 1 .. Len(v.cells) : w.cells[i] = v.cells[i]
  /\ \A i \in Len(v.cells) + 1 .. Len(w.cells) : w.cells[i].cell = "frame"

\* A call that fails leaves the encoder in error.
Answers(e, o) ==
  /\ IsEncoder(o.enc) /\ o.enc.streaminfo = e.streaminfo
  /\ o.ok \in BOOLEAN
  /\ o.ok => o.enc.state = e.state
  /\ ~o.ok => o.enc.state = "error"

\* Nothing written is no change.
LEMMA GrownNot == ASSUME NEW v, AtEnd(v), IsSequence(v.cells) PROVE Grown(v, v)
<1>1. Len(v.cells) \in Nat
  BY DEF IsSequence
<1> QED BY <1>1 DEF Grown

\* A frame goes to the end.
LEMMA GrownByFrame ==
  ASSUME NEW v, AtEnd(v), IsSequence(v.cells), NEW x, x.cell = "frame"
  PROVE  Grown(v, Put(v, x))
<1>1. Len(v.cells) \in Nat
  BY DEF IsSequence
<1>2. /\ AtEnd(Put(v, x)) /\ IsSequence(Put(v, x).cells)
      /\ Len(Put(v, x).cells) = Len(v.cells) + 1
      /\ Put(v, x).cells[Len(v.cells) + 1] = x
      /\ \A i \in 1 .. Len(v.cells) : Put(v, x).cells[i] = v.cells[i]
  BY PutAtEnd
<1> HIDE DEF AtEnd, IsSequence
<1> DEFINE w == Put(v, x)
<1> HIDE DEF w
<1>3. /\ AtEnd(w) /\ IsSequence(w.cells) /\ Len(w.cells) = Len(v.cells) + 1
      /\ w.cells[Len(v.cells) + 1] = x
      /\ \A i \in 1 .. Len(v.cells) : w.cells[i] = v.cells[i]
  BY <1>2 DEF w
<1>4. \A i \in Len(v.cells) + 1 .. Len(w.cells) : w.cells[i].cell = "frame"
  BY <1>1, <1>3
<1>5. Grown(v, w)
  BY <1>1, <1>3, <1>4 DEF Grown
<1> QED BY <1>5 DEF w

\* An encoder that fails is in error.
LEMMA FailedAnswers ==
  ASSUME NEW e, NEW f, IsEncoder(f), f.streaminfo = e.streaminfo, NEW v
  PROVE  Answers(e, Failed(f, v)) /\ Failed(f, v).out = v
<1> DEFINE g == [f EXCEPT !.state = "error"]
<1>1. IsEncoder(g) /\ g.state = "error" /\ g.streaminfo = e.streaminfo
  BY EncoderFields DEF IsEncoder
<1> HIDE DEF g
<1>2. Failed(f, v) = [enc |-> g, out |-> v, ok |-> FALSE]
  BY DEF Failed, Outcome, g
<1> QED BY <1>1, <1>2 DEF Answers

\* A frame is written, in part or as a whole, or is not.
LEMMA ProcessFrameLeaves ==
  ASSUME NEW e, IsEncoder(e), NEW v, AtEnd(v), IsSequence(v.cells),
         NEW o \in ProcessFrame(e, v)
  PROVE  Answers(e, o) /\ Grown(v, o.out)
<1>1. IsEncoder(Hashed(e)) /\ Hashed(e).streaminfo = e.streaminfo
  BY EncoderFields DEF IsEncoder, Hashed
<1>2. ASSUME NEW b
      PROVE  /\ IsEncoder([Hashed(e) EXCEPT !.leftover = b])
             /\ [Hashed(e) EXCEPT !.leftover = b].streaminfo = e.streaminfo
  BY <1>1, EncoderFields DEF IsEncoder
<1>3. CASE o \in FramesNotMade(e, v)
  <2>1. o = Failed(e, v) \/ \E b : o = Failed([Hashed(e) EXCEPT !.leftover = b], v)
    BY <1>3 DEF FramesNotMade
  <2>2. PICK f : IsEncoder(f) /\ f.streaminfo = e.streaminfo /\ o = Failed(f, v)
    BY <1>2, <2>1
  <2>3. Answers(e, Failed(f, v)) /\ Failed(f, v).out = v
    BY <2>2, FailedAnswers
  <2> QED BY <2>2, <2>3, GrownNot
<1>4. CASE o \in FramesNotWritten(e, v)
  <2> DEFINE x == Frame(e.number, <<>>, 0, TRUE)
  <2>1. x.cell = "frame"
    BY DEF Frame
  <2>2. \E w \in {v, Put(v, x)} : o = Failed([Hashed(e) EXCEPT !.leftover = FALSE], w)
    BY <1>4 DEF FramesNotWritten, Puts
  <2> HIDE DEF x
  <2>3. PICK f, w : /\ IsEncoder(f) /\ f.streaminfo = e.streaminfo
                    /\ w \in {v, Put(v, x)} /\ o = Failed(f, w)
    BY <1>2, <2>2
  <2>4. Answers(e, Failed(f, w)) /\ Failed(f, w).out = w
    BY <2>3, FailedAnswers
  <2>5. Grown(v, w)
    BY <2>1, <2>3, GrownNot, GrownByFrame
  <2> QED BY <2>3, <2>4, <2>5
<1>5. ASSUME NEW size \in FrameSizes,
             o = Outcome(FrameWritten(e, size),
                         Put(v, Frame(e.number, Block(e), size, e.leftover)), TRUE)
      PROVE  Answers(e, o) /\ Grown(v, o.out)
  <2> DEFINE x == Frame(e.number, Block(e), size, e.leftover)
             w == FrameWritten(e, size)
  <2>1. x.cell = "frame"
    BY DEF Frame
  <2>2. IsEncoder(w) /\ w.streaminfo = e.streaminfo /\ w.state = e.state
    BY EncoderFields DEF IsEncoder, FrameWritten, Hashed
  <2> HIDE DEF x, w
  <2>3. o.enc = w /\ o.out = Put(v, x) /\ o.ok = TRUE
    BY <1>5 DEF Outcome, x, w
  <2> QED BY <2>1, <2>2, <2>3, GrownByFrame DEF Answers
<1> QED BY <1>3, <1>4, <1>5 DEF ProcessFrame

\* So it is around the loop of FLAC__stream_encoder_process, whether or not the frame
\* before has failed.
LEMMA GatherLeaves ==
  ASSUME NEW e, IsEncoder(e), NEW v, AtEnd(v), IsSequence(v.cells), NEW samples,
         NEW o \in Gather(e, v, samples)
  PROVE  Answers(e, o) /\ Grown(v, o.out)
<1> DEFINE full == [e EXCEPT !.signal = @ \o samples]
<1>1. IsEncoder(full) /\ full.state = e.state /\ full.streaminfo = e.streaminfo
  BY EncoderFields DEF IsEncoder
<1>2. \/ o = Outcome(full, v, TRUE)
      \/ \E last : \E p \in ProcessFrame(full, v) : o = Kept(p, last)
  BY DEF Gather
<1> HIDE DEF full
<1>3. CASE o = Outcome(full, v, TRUE)
  <2>1. o.enc = full /\ o.out = v /\ o.ok = TRUE
    BY <1>3 DEF Outcome
  <2> QED BY <1>1, <2>1, GrownNot DEF Answers
<1>4. CASE \E last : \E p \in ProcessFrame(full, v) : o = Kept(p, last)
  <2>0. PICK last : \E p \in ProcessFrame(full, v) : o = Kept(p, last)
    BY <1>4
  <2>1. PICK p \in ProcessFrame(full, v) : o = Kept(p, last)
    BY <2>0
  <2>2. Answers(full, p) /\ Grown(v, p.out)
    BY <1>1, ProcessFrameLeaves
  <2>3. CASE ~p.ok
    BY <1>1, <2>1, <2>2, <2>3 DEF Kept, Answers
  <2>4. CASE p.ok
    <3>1. PICK size \in FrameSizes :
            p = Outcome(FrameWritten(full, size),
                        Put(v, Frame(full.number, Block(full), size, full.leftover)), TRUE)
      BY <2>4, ProcessFrameOk
    <3>2. o.enc = [p.enc EXCEPT !.signal = <<last>>] /\ o.out = p.out /\ o.ok = TRUE
      BY <2>1, <2>4, <3>1 DEF Kept, Outcome
    <3>3. IsEncoder(o.enc) /\ o.enc.state = p.enc.state /\ o.enc.streaminfo = p.enc.streaminfo
      BY <2>2, <3>2, EncoderFields DEF Answers, IsEncoder
    <3> QED BY <1>1, <2>2, <2>4, <3>2, <3>3 DEF Answers
  <2> QED BY <2>3, <2>4
<1> QED BY <1>2, <1>3, <1>4

-----------------------------------------------------------------------------
(* STREAMINFO, when the stream is finished.                                *)

\* Only the three fields are written over, each with what the encoder says, ...
Patches(e, v, w) ==
  /\ HasCells(w) /\ Len(w.cells) = Len(v.cells)
  /\ \A i \in 1 .. Len(v.cells) : i \notin Before + 3 .. Before + 5 => w.cells[i] = v.cells[i]
  /\ w.cells[Before + 4].value \in {v.cells[Before + 4].value, e.total}
  /\ w.cells[Before + 5].value \in {v.cells[Before + 5].value, e.md5}

\* ... and all of them, if nothing fails.
Updated(e, w) ==
  /\ w.cells[Before + 3] = Field("framesizes", <<e.min, e.max>>)
  /\ w.cells[Before + 4] = Field("total", e.total)
  /\ w.cells[Before + 5] = Field("md5", e.md5)

PatchedFields == {"md5", "total", "framesizes"}

\* Where the fields are, and what goes there.
LEMMA FieldPlaces ==
  ASSUME NEW e, e.streaminfo = Before + 1
  PROVE  /\ FieldAt(e)["md5"] = Before + 4 /\ InfoOf(e)["md5"] = e.md5
         /\ FieldAt(e)["total"] = Before + 3 /\ InfoOf(e)["total"] = e.total
         /\ FieldAt(e)["framesizes"] = Before + 2
         /\ InfoOf(e)["framesizes"] = <<e.min, e.max>>
BY DriverAssumption DEF FieldAt, InfoOf

\* A field that is written over, in part or as a whole.
LEMMA PatchesOne ==
  ASSUME NEW e, e.streaminfo = Before + 1, NEW v, Len(v.cells) \in Nat,
         Len(v.cells) >= AudioOffset, NEW w, Patches(e, v, w),
         NEW name \in PatchedFields, NEW x, x.value = InfoOf(e)[name]
  PROVE  LET p == FieldAt(e)[name]
             y == Put(At(w, p), x)
         IN  /\ Patches(e, v, At(w, p)) /\ Patches(e, v, y)
             /\ y.cells[p + 1] = x
             /\ \A i \in 1 .. Len(v.cells) : i # p + 1 => y.cells[i] = w.cells[i]
<1> DEFINE p == FieldAt(e)[name]
           y == Put(At(w, p), x)
<1>1. /\ p \in Before + 2 .. Before + 4
      /\ p = Before + 3 => x.value = e.total
      /\ p = Before + 4 => x.value = e.md5
  <2>1. /\ FieldAt(e)["md5"] = Before + 4 /\ InfoOf(e)["md5"] = e.md5
        /\ FieldAt(e)["total"] = Before + 3 /\ InfoOf(e)["total"] = e.total
        /\ FieldAt(e)["framesizes"] = Before + 2
    BY FieldPlaces
  <2>2. Before \in Nat /\ name \in {"md5", "total", "framesizes"}
    BY DriverAssumption DEF PatchedFields
  <2>3. CASE name = "md5"
    BY <2>1, <2>2, <2>3
  <2>4. CASE name = "total"
    BY <2>1, <2>2, <2>4
  <2>5. CASE name = "framesizes"
    BY <2>1, <2>2, <2>5
  <2> QED BY <2>2, <2>3, <2>4, <2>5
<1> HIDE DEF p
<1>2. /\ HasCells(y) /\ Len(y.cells) = Len(w.cells) /\ y.cells[p + 1] = x
      /\ \A i \in 1 .. Len(w.cells) : i # p + 1 => y.cells[i] = w.cells[i]
  <2>1. HasCells(w) /\ Len(w.cells) = Len(v.cells)
    BY DEF Patches
  <2>2. p \in 0 .. Len(w.cells) - 1
    BY <1>1, <2>1, AudioOffsetIs, DriverAssumption
  <2> QED BY <2>1, <2>2, PutWithin
<1>3. At(w, p) = [cells |-> w.cells, pos |-> p] /\ IsSequence(w.cells)
  BY DEF Patches, HasCells, At
<1>4. HasCells(At(w, p)) /\ At(w, p).cells = w.cells
  BY <1>3 DEF HasCells
<1>5. Patches(e, v, At(w, p))
  BY <1>4 DEF Patches
<1> HIDE DEF y
<1>6. Before \in Nat /\ Before + 5 \in 1 .. Len(v.cells) /\ Before + 4 \in 1 .. Len(v.cells)
  BY AudioOffsetIs, DriverAssumption
<1>7. y.cells[Before + 4].value \in {v.cells[Before + 4].value, e.total}
  <2>1. CASE p = Before + 3
    <3>1. p + 1 = Before + 4
      BY <1>6, <2>1
    <3> QED BY <1>1, <1>2, <2>1, <3>1
  <2>2. CASE p # Before + 3
    <3>1. p + 1 # Before + 4
      BY <1>1, <1>6, <2>2
    <3> QED BY <1>2, <1>6, <3>1 DEF Patches
  <2> QED BY <2>1, <2>2
<1>8. y.cells[Before + 5].value \in {v.cells[Before + 5].value, e.md5}
  BY <1>1, <1>2, <1>6 DEF Patches
<1>9. \A i \in 1 .. Len(v.cells) : i \notin Before + 3 .. Before + 5 => y.cells[i] = v.cells[i]
  BY <1>1, <1>2, <1>6 DEF Patches
<1>10. Patches(e, v, y)
  BY <1>2, <1>7, <1>8, <1>9 DEF Patches
<1> QED BY <1>2, <1>5, <1>10 DEF Patches, p, y

\* A field that fails is reported.
LEMMA PatchFailsLeaves ==
  ASSUME NEW e, IsEncoder(e), e.streaminfo = Before + 1, NEW v, Len(v.cells) \in Nat,
         Len(v.cells) >= AudioOffset, NEW w, Patches(e, v, w),
         NEW name \in PatchedFields, NEW o \in PatchFails(e, w, name)
  PROVE  Patches(e, v, o.out) /\ o.ok = FALSE
<1> DEFINE x == Field("torn", InfoOf(e)[name])
           p == FieldAt(e)[name]
<1>1. x.value = InfoOf(e)[name]
  BY DEF Field
<1>2. PICK y \in {w, At(w, p), Put(At(w, p), x)} : o = Failed(e, y)
  BY DEF PatchFails, Puts
<1> HIDE DEF x
<1>3. Patches(e, v, At(w, p)) /\ Patches(e, v, Put(At(w, p), x))
  BY <1>1, PatchesOne
<1> HIDE DEF p
<1>4. Patches(e, v, y)
  BY <1>2, <1>3
<1>5. o.out = y /\ o.ok = FALSE
  BY <1>2 DEF Failed, Outcome
<1> QED BY <1>4, <1>5

\* update_metadata_ reaches the three fields, and all of them if it succeeds.
LEMMA UpdateMetadataLeaves ==
  ASSUME NEW e, IsEncoder(e), e.streaminfo = Before + 1, NEW v, HasCells(v),
         Len(v.cells) \in Nat, Len(v.cells) >= AudioOffset, NEW o \in UpdateMetadata(e, v)
  PROVE  Patches(e, v, o.out) /\ o.ok \in BOOLEAN /\ (o.ok => Updated(e, o.out))
<1> DEFINE one == Patched(e, v, "md5")
           two == Patched(e, one, "total")
           three == Patched(e, two, "framesizes")
<1>1. \/ o = Outcome(e, three, TRUE)
      \/ o \in PatchFails(e, v, "md5") \/ o \in PatchFails(e, one, "total")
      \/ o \in PatchFails(e, two, "framesizes")
  BY DEF UpdateMetadata
<1>2. ASSUME NEW w, Patches(e, v, w), NEW name \in PatchedFields
      PROVE  /\ Patches(e, v, Patched(e, w, name))
             /\ Patched(e, w, name).cells[FieldAt(e)[name] + 1] = Field(name, InfoOf(e)[name])
             /\ \A i \in 1 .. Len(v.cells) :
                  i # FieldAt(e)[name] + 1 => Patched(e, w, name).cells[i] = w.cells[i]
  <2> DEFINE x == Field(name, InfoOf(e)[name])
  <2>1. x.value = InfoOf(e)[name]
    BY DEF Field
  <2>2. Patched(e, w, name) = Put(At(w, FieldAt(e)[name]), x)
    BY DEF Patched
  <2> HIDE DEF x
  <2>3. LET p == FieldAt(e)[name]
            y == Put(At(w, p), x)
        IN  /\ Patches(e, v, At(w, p)) /\ Patches(e, v, y)
            /\ y.cells[p + 1] = x
            /\ \A i \in 1 .. Len(v.cells) : i # p + 1 => y.cells[i] = w.cells[i]
    BY <1>2, <2>1, PatchesOne
  <2> QED BY <2>2, <2>3 DEF x
<1>3. Patches(e, v, v)
  BY DEF Patches
<1>4. {"md5", "total", "framesizes"} = PatchedFields
  BY DEF PatchedFields
<1>5. /\ FieldAt(e)["md5"] = Before + 4 /\ InfoOf(e)["md5"] = e.md5
      /\ FieldAt(e)["total"] = Before + 3 /\ InfoOf(e)["total"] = e.total
      /\ FieldAt(e)["framesizes"] = Before + 2
      /\ InfoOf(e)["framesizes"] = <<e.min, e.max>>
  BY FieldPlaces
<1>6. Before \in Nat /\ Before + 5 \in 1 .. Len(v.cells) /\ Before + 4 \in 1 .. Len(v.cells)
  BY AudioOffsetIs, DriverAssumption
<1>7. /\ Patches(e, v, one)
      /\ one.cells[Before + 5] = Field("md5", e.md5)
  <2>1. Before + 4 + 1 = Before + 5
    BY <1>6
  <2> QED BY <1>2, <1>3, <1>4, <1>5, <2>1
<1> HIDE DEF one
<1>8. /\ Patches(e, v, two)
      /\ two.cells[Before + 4] = Field("total", e.total)
      /\ two.cells[Before + 5] = Field("md5", e.md5)
  <2>1. Before + 3 + 1 = Before + 4 /\ Before + 5 # Before + 3 + 1
    BY <1>6
  <2>2. /\ Patches(e, v, two)
        /\ two.cells[FieldAt(e)["total"] + 1] = Field("total", InfoOf(e)["total"])
        /\ \A i \in 1 .. Len(v.cells) :
             i # FieldAt(e)["total"] + 1 => two.cells[i] = one.cells[i]
    BY <1>2, <1>4, <1>7
  <2> HIDE DEF two
  <2> QED BY <1>5, <1>6, <1>7, <2>1, <2>2
<1> HIDE DEF two
<1>9. Patches(e, v, three) /\ Updated(e, three)
  <2>1. Before + 2 + 1 = Before + 3 /\ Before + 5 # Before + 2 + 1 /\ Before + 4 # Before + 2 + 1
    BY <1>6
  <2>2. /\ Patches(e, v, three)
        /\ three.cells[FieldAt(e)["framesizes"] + 1]
             = Field("framesizes", InfoOf(e)["framesizes"])
        /\ \A i \in 1 .. Len(v.cells) :
             i # FieldAt(e)["framesizes"] + 1 => three.cells[i] = two.cells[i]
    BY <1>2, <1>4, <1>8
  <2> HIDE DEF three
  <2> QED BY <1>5, <1>6, <1>8, <2>1, <2>2 DEF Updated
<1> HIDE DEF three
<1>10. CASE o = Outcome(e, three, TRUE)
  BY <1>9, <1>10 DEF Outcome
<1>11. CASE o \in PatchFails(e, v, "md5")
  BY <1>3, <1>4, <1>11, PatchFailsLeaves
<1>12. CASE o \in PatchFails(e, one, "total")
  BY <1>4, <1>7, <1>12, PatchFailsLeaves
<1>13. CASE o \in PatchFails(e, two, "framesizes")
  BY <1>4, <1>8, <1>13, PatchFailsLeaves
<1> QED BY <1>1, <1>10, <1>11, <1>12, <1>13

\* FLAC__stream_encoder_finish: what is left becomes a frame, and STREAMINFO is brought up
\* to date if the encoder is not in error then.
LEMMA FinishLeaves ==
  ASSUME NEW e, IsEncoder(e), e.state \in {"ok", "error"},
         NEW v, AtEnd(v), IsSequence(v.cells),
         e.state = "ok" => e.streaminfo = Before + 1 /\ Len(v.cells) >= AudioOffset,
         NEW o \in Finish(e, v)
  PROVE  \E l \in LastFrame(e, v) :
           /\ Answers(e, l) /\ Grown(v, l.out) /\ o.ok \in BOOLEAN
           /\ \/ l.enc.state # "ok" /\ o.out = l.out /\ o.ok = l.ok
              \/ /\ l.enc.state = "ok" /\ l.ok
                 /\ Patches(l.enc, l.out, o.out)
                 /\ o.ok => Updated(l.enc, o.out)
<1>1. PICK p \in UNION {AfterLastFrame(l) : l \in LastFrame(e, v)} :
        o.out = p.out /\ o.ok = p.ok
  <2>1. PICK p \in UNION {AfterLastFrame(l) : l \in LastFrame(e, v)} :
          o = Outcome([NewEncoder EXCEPT
                         !.state = IF p.ok THEN "uninitialized" ELSE p.enc.state],
                      p.out, p.ok)
    BY DEF Finish
  <2> QED BY <2>1 DEF Outcome
<1>2. PICK l \in LastFrame(e, v) : p \in AfterLastFrame(l)
  BY <1>1
<1>3. Answers(e, l) /\ Grown(v, l.out)
  <2>1. CASE l = Outcome(e, v, TRUE)
    <3>1. l.enc = e /\ l.out = v /\ l.ok = TRUE
      BY <2>1 DEF Outcome
    <3> QED BY <3>1, GrownNot DEF Answers
  <2>2. CASE e.state = "ok" /\ l \in ProcessFrame([e EXCEPT !.blocksize = Len(e.signal)], v)
    <3> DEFINE f == [e EXCEPT !.blocksize = Len(e.signal)]
    <3>1. IsEncoder(f) /\ f.state = e.state /\ f.streaminfo = e.streaminfo
      BY EncoderFields DEF IsEncoder
    <3> HIDE DEF f
    <3>2. l \in ProcessFrame(f, v)
      BY <2>2 DEF f
    <3>3. Answers(f, l) /\ Grown(v, l.out)
      BY <3>1, <3>2, ProcessFrameLeaves
    <3> QED BY <3>1, <3>3 DEF Answers
  <2> QED BY <2>1, <2>2 DEF LastFrame
<1>4. CASE l.enc.state = "ok"
  <2>1. l.ok /\ e.state = "ok" /\ l.enc.streaminfo = Before + 1 /\ IsEncoder(l.enc)
    BY <1>3, <1>4 DEF Answers
  <2>2. HasCells(l.out) /\ Len(l.out.cells) \in Nat /\ Len(l.out.cells) >= AudioOffset
    BY <1>3, <2>1, AudioOffsetIs DEF Grown, AtEnd, HasCells
  <2>3. p \in UpdateMetadata(l.enc, l.out)
    BY <1>2, <1>4 DEF AfterLastFrame
  <2>4. Patches(l.enc, l.out, p.out) /\ p.ok \in BOOLEAN /\ (p.ok => Updated(l.enc, p.out))
    BY <2>1, <2>2, <2>3, UpdateMetadataLeaves
  <2> QED BY <1>1, <1>3, <1>4, <2>1, <2>4
<1>5. CASE l.enc.state # "ok"
  <2>1. p = l
    BY <1>2, <1>5 DEF AfterLastFrame
  <2> QED BY <1>1, <1>3, <1>5, <2>1 DEF Answers
<1> QED BY <1>4, <1>5

-----------------------------------------------------------------------------
(* What the encoder keeps for STREAMINFO.                                  *)

SizesIn(cells) == {cells[i].size : i \in AudioOffset + 1 .. Len(cells)}

\* The smallest and the largest of some sizes of frames.
Extremes(min, max, S) ==
  /\ S \subseteq FrameSizes
  /\ S = {} => min = NoMinimum /\ max = 0
  /\ S # {} => min \in S /\ max \in S /\ \A s \in S : min <= s /\ s <= max

\* The encoder's MD5 and total are those of the first g samples, and its extremes
\* those of the frames written.
Counted(e, cells, g) ==
  /\ e.md5 = Samples(0, g) /\ e.total = g
  /\ Extremes(e.min, e.max, SizesIn(cells))

\* The sizes of the frames of the stream.
LEMMA AllSizesIs == ASSUME Len(out.cells) \in Nat PROVE AllSizes = SizesIn(out.cells)
<1>1. \A s \in AllSizes : s \in SizesIn(out.cells)
  <2> SUFFICES ASSUME NEW k \in 1 .. FrameCount PROVE FrameAt(k).size \in SizesIn(out.cells)
    BY DEF AllSizes
  <2>1. AudioOffset + k \in AudioOffset + 1 .. Len(out.cells)
    BY AudioOffsetIs DEF FrameCount
  <2> QED BY <2>1 DEF SizesIn, FrameAt
<1>2. \A s \in SizesIn(out.cells) : s \in AllSizes
  <2> SUFFICES ASSUME NEW i \in AudioOffset + 1 .. Len(out.cells)
               PROVE  out.cells[i].size \in AllSizes
    BY DEF SizesIn
  <2>1. i - AudioOffset \in 1 .. FrameCount /\ AudioOffset + (i - AudioOffset) = i
    BY AudioOffsetIs DEF FrameCount
  <2>2. FrameAt(i - AudioOffset) = out.cells[i]
    BY <2>1 DEF FrameAt
  <2> QED BY <2>1, <2>2 DEF AllSizes
<1> QED BY <1>1, <1>2

\* One more frame.
LEMMA ExtremesGrow ==
  ASSUME NEW min, NEW max, NEW S, Extremes(min, max, S), NEW size \in FrameSizes
  PROVE  Extremes(LesserOf(size, min), GreaterOf(size, max), S \cup {size})
<1>1. FrameSizes \subseteq Nat \ {0} /\ NoMinimum \in Nat /\ \A s \in FrameSizes : s <= NoMinimum
  BY EncoderAssumption
<1>2. CASE S = {}
  <2>1. min = NoMinimum /\ max = 0
    BY <1>2 DEF Extremes
  <2>2. LesserOf(size, min) = size /\ GreaterOf(size, max) = size
    BY <1>1, <2>1 DEF LesserOf, GreaterOf
  <2>3. S \cup {size} = {size}
    BY <1>2
  <2> QED BY <1>1, <2>2, <2>3 DEF Extremes
<1>3. CASE S # {}
  <2>1. /\ min \in S /\ max \in S /\ S \subseteq FrameSizes
        /\ \A s \in S : min <= s /\ s <= max
    BY <1>3 DEF Extremes
  <2>2. min \in Nat /\ max \in Nat /\ size \in Nat /\ \A s \in S : s \in Nat
    BY <1>1, <2>1
  <2> QED BY <2>1, <2>2 DEF Extremes, LesserOf, GreaterOf
<1> QED BY <1>2, <1>3

\* A frame that is written counts.
LEMMA FrameCounts ==
  ASSUME NEW e, NEW v, AtEnd(v), IsSequence(v.cells), Len(v.cells) >= AudioOffset,
         NEW g \in Nat, Counted(e, v.cells, g),
         NEW n \in Nat, e.blocksize = n, Block(e) = Samples(g, n), IsEncoder(e),
         NEW o \in ProcessFrame(e, v), o.ok
  PROVE  Counted(o.enc, o.out.cells, g + n)
<1>1. PICK size \in FrameSizes :
        o = Outcome(FrameWritten(e, size),
                    Put(v, Frame(e.number, Block(e), size, e.leftover)), TRUE)
  BY ProcessFrameOk
<1> DEFINE x == Frame(e.number, Block(e), size, e.leftover)
           w == FrameWritten(e, size)
<1>2. /\ w.md5 = e.md5 \o Block(e) /\ w.total = e.total + e.blocksize
      /\ w.min = LesserOf(size, e.min) /\ w.max = GreaterOf(size, e.max)
  BY EncoderFields DEF IsEncoder, FrameWritten, Hashed, Block
<1>3. x.size = size
  BY DEF Frame
<1> HIDE DEF x, w
<1>4. o.enc = w /\ o.out = Put(v, x)
  BY <1>1 DEF Outcome, x, w
<1>5. Len(v.cells) \in Nat
  BY DEF IsSequence
<1>6. /\ Len(o.out.cells) = Len(v.cells) + 1 /\ o.out.cells[Len(v.cells) + 1] = x
      /\ \A i \in 1 .. Len(v.cells) : o.out.cells[i] = v.cells[i]
  BY <1>4, PutAtEnd
<1>7. SizesIn(o.out.cells) = SizesIn(v.cells) \cup {size}
  <2> DEFINE a == v.cells
             b == o.out.cells
  <2> HIDE DEF a, b
  <2>1. /\ Len(a) \in Nat /\ AudioOffset \in Nat /\ Len(a) >= AudioOffset /\ Len(b) = Len(a) + 1
        /\ b[Len(a) + 1].size = size /\ \A i \in 1 .. Len(a) : b[i] = a[i]
    BY <1>3, <1>5, <1>6, AudioOffsetIs DEF a, b
  <2>2. \A s \in SizesIn(b) : s \in SizesIn(a) \cup {size}
    <3> SUFFICES ASSUME NEW i \in AudioOffset + 1 .. Len(b)
                 PROVE  b[i].size \in SizesIn(a) \cup {size}
      BY DEF SizesIn
    <3>1. CASE i = Len(a) + 1
      BY <2>1, <3>1
    <3>2. CASE i # Len(a) + 1
      <4>1. i \in AudioOffset + 1 .. Len(a) /\ i \in 1 .. Len(a)
        BY <2>1, <3>2
      <4>2. b[i] = a[i]
        BY <2>1, <4>1
      <4> QED BY <4>1, <4>2 DEF SizesIn
    <3> QED BY <3>1, <3>2
  <2>3. \A s \in SizesIn(a) : s \in SizesIn(b)
    <3> SUFFICES ASSUME NEW i \in AudioOffset + 1 .. Len(a) PROVE a[i].size \in SizesIn(b)
      BY DEF SizesIn
    <3>1. i \in AudioOffset + 1 .. Len(b) /\ b[i] = a[i]
      BY <2>1
    <3> QED BY <3>1 DEF SizesIn
  <2>4. size \in SizesIn(b)
    <3>1. Len(a) + 1 \in AudioOffset + 1 .. Len(b)
      BY <2>1
    <3> QED BY <2>1, <3>1 DEF SizesIn
  <2> QED BY <2>2, <2>3, <2>4 DEF a, b
<1>8. Samples(0, g) \o Samples(0 + g, n) = Samples(0, g + n)
  BY SamplesJoin
<1>9. w.md5 = Samples(0, g + n) /\ w.total = g + n
  BY <1>2, <1>8 DEF Counted
<1>10. Extremes(w.min, w.max, SizesIn(o.out.cells))
  BY <1>2, <1>7, ExtremesGrow DEF Counted
<1> QED BY <1>4, <1>9, <1>10 DEF Counted

\* So does one of FLAC__stream_encoder_process, and samples that are only gathered do not.
LEMMA GatherCounts ==
  ASSUME NEW e, IsEncoder(e), NEW v, AtEnd(v), IsSequence(v.cells),
         Len(v.cells) >= AudioOffset, e.blocksize = BlockSize,
         NEW g \in Nat, Counted(e, v.cells, g), NEW n \in Nat, NEW samples,
         e.signal \o samples = Samples(g, n), NEW o \in Gather(e, v, samples), o.ok
  PROVE  Counted(o.enc, o.out.cells, IF n <= BlockSize THEN g ELSE g + BlockSize)
<1> DEFINE full == [e EXCEPT !.signal = @ \o samples]
<1>1. /\ IsEncoder(full) /\ full.signal = Samples(g, n) /\ full.blocksize = BlockSize
      /\ full.md5 = e.md5 /\ full.total = e.total /\ full.min = e.min /\ full.max = e.max
  BY EncoderFields DEF IsEncoder
<1>2. Len(full.signal) = n /\ BlockSize \in Nat \ {0}
  BY <1>1, SamplesType, EncoderAssumption
<1>3. \/ n <= BlockSize /\ o = Outcome(full, v, TRUE)
      \/ /\ ~ (n <= BlockSize)
         /\ \E last : \E p \in ProcessFrame(full, v) : o = Kept(p, last)
  <2>1. Gather(e, v, samples) =
          IF Len(full.signal) <= e.blocksize THEN {Outcome(full, v, TRUE)}
          ELSE {Kept(p, full.signal[Len(full.signal)]) : p \in ProcessFrame(full, v)}
    BY DEF Gather
  <2> HIDE DEF full
  <2> QED BY <1>2, <2>1
<1> HIDE DEF full
<1>4. Counted(full, v.cells, g)
  BY <1>1 DEF Counted
<1>5. CASE n <= BlockSize
  <2>1. o.enc = full /\ o.out = v
    BY <1>3, <1>5 DEF Outcome
  <2> QED BY <1>4, <1>5, <2>1
<1>6. CASE ~ (n <= BlockSize)
  <2>0. PICK last : \E p \in ProcessFrame(full, v) : o = Kept(p, last)
    BY <1>3, <1>6
  <2>1. PICK p \in ProcessFrame(full, v) : o = Kept(p, last)
    BY <2>0
  <2>2. p.ok
    BY <2>1 DEF Kept
  <2>3. Block(full) = Samples(g, BlockSize)
    <3>1. BlockSize \in 0 .. n
      BY <1>2, <1>6
    <3>2. SubSeq(Samples(g, n), 1, BlockSize) = Samples(g, BlockSize)
      BY <3>1, SamplesSplit
    <3> QED BY <1>1, <3>2 DEF Block
  <2>4. Counted(p.enc, p.out.cells, g + BlockSize)
    BY <1>1, <1>2, <1>4, <2>2, <2>3, FrameCounts
  <2>5. Answers(full, p)
    BY <1>1, ProcessFrameLeaves
  <2>6. PICK size \in FrameSizes :
          p = Outcome(FrameWritten(full, size),
                      Put(v, Frame(full.number, Block(full), size, full.leftover)), TRUE)
    BY <2>2, ProcessFrameOk
  <2>7. o.enc = [p.enc EXCEPT !.signal = <<last>>] /\ o.out = p.out
    BY <2>1, <2>2, <2>6 DEF Kept, Outcome
  <2>8. o.enc.md5 = p.enc.md5 /\ o.enc.total = p.enc.total /\ o.enc.min = p.enc.min
        /\ o.enc.max = p.enc.max
    BY <2>5, <2>7, EncoderFields DEF Answers, IsEncoder
  <2> QED BY <1>6, <2>4, <2>7, <2>8 DEF Counted
<1> QED BY <1>5, <1>6

\* The last frame counts the samples that were left.
LEMMA LastFrameCounts ==
  ASSUME NEW e, IsEncoder(e), NEW v, AtEnd(v), IsSequence(v.cells),
         Len(v.cells) >= AudioOffset, e.state = "ok",
         NEW g \in Nat, Counted(e, v.cells, g), NEW n \in Nat, e.signal = Samples(g, n),
         NEW l \in LastFrame(e, v), l.ok
  PROVE  Counted(l.enc, l.out.cells, g + n)
<1>1. Len(e.signal) = n /\ e.signal \in Seq(Int)
  BY SamplesType
<1>2. CASE e.signal = <<>>
  <2>1. l.enc = e /\ l.out = v
    BY <1>2 DEF LastFrame, Outcome
  <2>2. g + n = g
    BY <1>1, <1>2
  <2> QED BY <2>1, <2>2
<1>3. CASE e.signal # <<>>
  <2> DEFINE f == [e EXCEPT !.blocksize = Len(e.signal)]
  <2>1. /\ IsEncoder(f) /\ f.signal = e.signal /\ f.blocksize = n
        /\ f.md5 = e.md5 /\ f.total = e.total /\ f.min = e.min /\ f.max = e.max
    BY <1>1, EncoderFields DEF IsEncoder
  <2>2. l \in ProcessFrame(f, v)
    BY <1>3 DEF LastFrame
  <2> HIDE DEF f
  <2>3. Block(f) = Samples(g, n)
    <3>1. SubSeq(e.signal, 1, Len(e.signal)) = e.signal
      BY <1>1
    <3> QED BY <1>1, <2>1, <3>1 DEF Block
  <2>4. Counted(f, v.cells, g)
    BY <2>1 DEF Counted
  <2> QED BY <2>1, <2>2, <2>3, <2>4, FrameCounts
<1> QED BY <1>2, <1>3

-----------------------------------------------------------------------------
(* The header.                                                             *)

\* The output begins with what it had, and with the stream as it was begun; ...
Begun(c) ==
  /\ Len(c) >= AudioOffset
  /\ \A i \in 1 .. AudioOffset :
       c[i] = IF i <= Before THEN Field("before", i) ELSE Beginning[i - Before]

\* ... or it does not, and what is at the place of the comment is no comment.
Unbegun(c) == Len(c) >= AudioOffset => c[AudioOffset].cell = "frame"

Encoded ==
  /\ AtEnd(out) /\ IsSequence(out.cells)
  /\ IsEncoder(enc) /\ enc.state \in {"ok", "error"}
  /\ failed <=> enc.state = "error"
  /\ Begun(out.cells) \/ (failed /\ Unbegun(out.cells))
  /\ ~failed => Counted(enc, out.cells, FrameCount * BlockSize)

HeaderInv ==
  /\ pc # "destroyed" => report = "none"
  /\ pc \in {"idle", "chunk", "process"} => Encoded
  /\ pc \in {"destroyed", "crashed"} => HeaderNeverLies /\ StreamInfoTrue

\* The cells a stream begins with.
LEMMA BeginningIs ==
  /\ Beginning[2] = Field("blocksize", BlockSize) /\ Beginning[4] = Field("total", 0)
  /\ Beginning[5] = Field("md5", <<>>)
  /\ \A i \in 1 .. 6 : Beginning[i].cell # "torn"
<1> DEFINE a == Field("magic", 0)
           b == Field("blocksize", BlockSize)
           c == Field("framesizes", <<0, 0>>)
           d == Field("total", 0)
           e == Field("md5", <<>>)
           f == Field("comment", 0)
           S == {a, b, c, d, e, f}
           p == <<a>> \o <<b, c, d, e>>
<1>1. Beginning = p \o <<f>>
  BY DEF Beginning, StreamInfo
<1>2. \A x \in S : x.cell # "torn"
  BY DEF Field
<1> HIDE DEF a, b, c, d, e, f
<1>3. /\ <<a>> \in Seq(S) /\ Len(<<a>>) = 1 /\ <<b, c, d, e>> \in Seq(S)
      /\ Len(<<b, c, d, e>>) = 4 /\ <<f>> \in Seq(S) /\ Len(<<f>>) = 1
  OBVIOUS
<1> HIDE DEF S
<1>4. /\ p \in Seq(S) /\ Len(p) = 5
      /\ \A i \in 1 .. 5 : p[i] = IF i <= 1 THEN <<a>>[i] ELSE <<b, c, d, e>>[i - 1]
  BY <1>3, ConcatProperties
<1>5. p[2] = b /\ p[4] = d /\ p[5] = e
  BY <1>4
<1> HIDE DEF p
<1>6. /\ Beginning \in Seq(S) /\ Len(Beginning) = 6
      /\ \A i \in 1 .. 6 : Beginning[i] = IF i <= 5 THEN p[i] ELSE <<f>>[i - 5]
  <2> DEFINE q == <<f>>
  <2>1. q \in Seq(S) /\ Len(q) = 1
    BY <1>3
  <2> HIDE DEF q
  <2>2. /\ p \o q \in Seq(S) /\ Len(p \o q) = 6
        /\ \A i \in 1 .. 6 : (p \o q)[i] = IF i <= 5 THEN p[i] ELSE q[i - 5]
    <3>1. /\ p \o q \in Seq(S) /\ Len(p \o q) = Len(p) + Len(q)
          /\ \A i \in 1 .. Len(p) + Len(q) :
               (p \o q)[i] = IF i <= Len(p) THEN p[i] ELSE q[i - Len(p)]
      BY <1>4, <2>1, ConcatProperties
    <3> QED BY <1>4, <2>1, <3>1
  <2>3. Beginning = p \o q
    BY <1>1 DEF q
  <2>4. /\ Beginning \in Seq(S) /\ Len(Beginning) = 6
        /\ \A i \in 1 .. 6 : Beginning[i] = IF i <= 5 THEN p[i] ELSE q[i - 5]
    BY <2>2, <2>3
  <2> QED BY <2>4 DEF q
<1>7. Beginning[2] = b /\ Beginning[4] = d /\ Beginning[5] = e
  BY <1>5, <1>6
<1>8. \A i \in 1 .. 6 : Beginning[i].cell # "torn"
  <2>1. \A i \in 1 .. 6 : Beginning[i] \in S
    <3> DEFINE w == Beginning
    <3> HIDE DEF w
    <3>1. w \in Seq(S) /\ Len(w) = 6
      BY <1>6 DEF w
    <3>2. \A i \in 1 .. Len(w) : w[i] \in S
      BY <3>1, ElementOfSeq, Zenon
    <3> QED BY <3>1, <3>2 DEF w
  <2> QED BY <1>2, <2>1
<1> QED BY <1>7, <1>8 DEF b, d, e

\* What is at the places of STREAMINFO in a stream that is only begun.
LEMMA BegunFields ==
  ASSUME NEW c, Begun(c)
  PROVE  /\ c[Before + 2].value = BlockSize /\ c[Before + 4].value = 0
         /\ c[Before + 5].value = <<>>
         /\ \A i \in 1 .. AudioOffset : c[i].cell # "torn"
<1>1. AudioOffset = Before + 6 /\ Before \in Nat
  BY AudioOffsetIs, DriverAssumption
<1>2. \A i \in 1 .. AudioOffset :
        /\ i <= Before => c[i] = Field("before", i)
        /\ ~ (i <= Before) => c[i] = Beginning[i - Before]
  BY DEF Begun
<1>3. \A j \in 1 .. 6 : c[Before + j] = Beginning[j]
  <2> TAKE j \in 1 .. 6
  <2>1. Before + j \in 1 .. AudioOffset /\ ~ (Before + j <= Before) /\ Before + j - Before = j
    BY <1>1
  <2>2. c[Before + j] = Beginning[Before + j - Before]
    BY <1>1, <1>2, <2>1
  <2> QED BY <2>1, <2>2
<1>4. /\ Beginning[2] = Field("blocksize", BlockSize) /\ Beginning[4] = Field("total", 0)
      /\ Beginning[5] = Field("md5", <<>>)
  BY BeginningIs
<1>5. c[Before + 2].value = BlockSize /\ c[Before + 4].value = 0 /\ c[Before + 5].value = <<>>
  BY <1>3, <1>4 DEF Field
<1>6. ASSUME NEW i \in 1 .. AudioOffset PROVE c[i].cell # "torn"
  <2>1. CASE i <= Before
    <3>1. c[i] = Field("before", i)
      BY <1>1, <1>2, <2>1
    <3>2. Field("before", i).cell = "before"
      BY DEF Field
    <3> QED BY <3>1, <3>2
  <2>2. CASE ~ (i <= Before)
    <3>1. i - Before \in 1 .. 6
      BY <1>1, <2>2
    <3>2. c[i] = Beginning[i - Before]
      BY <1>1, <1>2, <2>2
    <3> QED BY <3>1, <3>2, BeginningIs
  <2> QED BY <2>1, <2>2
<1> QED BY <1>5, <1>6

\* Frames leave what is before them.
LEMMA HeaderStays ==
  ASSUME NEW v, NEW w, Grown(v, w)
  PROVE  /\ Begun(v.cells) => Begun(w.cells)
         /\ Unbegun(v.cells) => Unbegun(w.cells)
<1> DEFINE a == v.cells
           b == w.cells
<1>1. /\ Len(a) \in Nat /\ Len(b) \in Nat /\ Len(a) <= Len(b)
      /\ \A i \in 1 .. Len(a) : b[i] = a[i]
      /\ \A i \in Len(a) + 1 .. Len(b) : b[i].cell = "frame"
  BY DEF Grown
<1>2. AudioOffset \in Nat /\ AudioOffset >= 6
  BY AudioOffsetIs, DriverAssumption
<1> HIDE DEF a, b
<1>3. ASSUME Begun(a) PROVE Begun(b)
  <2>1. Len(b) >= AudioOffset
    BY <1>1, <1>2, <1>3 DEF Begun
  <2>2. \A i \in 1 .. AudioOffset : b[i] = a[i]
    BY <1>1, <1>2, <1>3 DEF Begun
  <2> QED BY <1>3, <2>1, <2>2 DEF Begun
<1>4. ASSUME Unbegun(a), Len(b) >= AudioOffset PROVE b[AudioOffset].cell = "frame"
  <2>1. CASE Len(a) >= AudioOffset
    <3>1. AudioOffset \in 1 .. Len(a)
      BY <1>1, <1>2, <2>1
    <3> QED BY <1>1, <1>4, <2>1, <3>1 DEF Unbegun
  <2>2. CASE ~ (Len(a) >= AudioOffset)
    <3>1. AudioOffset \in Len(a) + 1 .. Len(b)
      BY <1>1, <1>2, <1>4, <2>2
    <3> QED BY <1>1, <3>1
  <2> QED BY <2>1, <2>2
<1> QED BY <1>3, <1>4 DEF a, b, Unbegun

\* Until the end nothing is said of the stream.
LEMMA WhileHeader ==
  ASSUME EncoderInv, HeaderInv
  PROVE  HeaderNeverLies /\ StreamInfoTrue
<1>1. AudioOffset = Before + 6 /\ Before \in Nat /\ AudioOffset \in Nat
  BY AudioOffsetIs, DriverAssumption
<1>2. CASE pc \in {"destroyed", "crashed"}
  BY <1>2 DEF HeaderInv
<1>3. CASE pc \notin {"destroyed", "crashed"}
  <2>1. report = "none"
    BY <1>3 DEF HeaderInv
  <2>2. StreamInfoTrue
    BY <2>1 DEF StreamInfoTrue
  <2>3. CASE pc = "none"
    <3> DEFINE b == [i \in 1 .. Before |-> Field("before", i)]
    <3>1. Len(b) = Before
      BY <1>1
    <3>2. out.cells = b
      BY <2>3 DEF EncoderInv
    <3> HIDE DEF b
    <3>3. ~ (FrameCount >= 0)
      BY <1>1, <3>1, <3>2 DEF FrameCount
    <3> QED BY <2>2, <3>3 DEF HeaderNeverLies
  <2>4. CASE pc # "none"
    <3>1. Encoded
      BY <1>3, <2>4 DEF HeaderInv, EncoderInv
    <3>2. ASSUME FrameCount >= 0, out.cells[AudioOffset].cell = "comment"
          PROVE  Begun(out.cells)
      <4>1. Len(out.cells) \in Nat
        BY <3>1 DEF Encoded, IsSequence
      <4>2. Len(out.cells) >= AudioOffset
        BY <1>1, <3>2, <4>1 DEF FrameCount
      <4> QED BY <3>1, <3>2, <4>2 DEF Encoded, Unbegun
    <3>3. ASSUME FrameCount >= 0, out.cells[AudioOffset].cell = "comment"
          PROVE  InfoField(3) = 0 /\ InfoField(4) = <<>>
      <4>1. Before + 1 + 3 = Before + 4 /\ Before + 1 + 4 = Before + 5
        BY <1>1
      <4>2. out.cells[Before + 4].value = 0 /\ out.cells[Before + 5].value = <<>>
        BY <3>2, <3>3, BegunFields
      <4> QED BY <4>1, <4>2 DEF InfoField
    <3>4. HeaderNeverLies
      BY <2>1, <3>3 DEF HeaderNeverLies
    <3> QED BY <2>2, <3>4
  <2> QED BY <2>3, <2>4
<1> QED BY <1>2, <1>3

\* The beginning of a stream, as far as it is written.
LEMMA BeginStreamLeaves ==
  ASSUME EncoderInv, pc = "none", NEW o \in BeginStream(out)
  PROVE  /\ AtEnd(o.out) /\ IsSequence(o.out.cells) /\ IsEncoder(o.enc)
         /\ o.ok \in BOOLEAN
         /\ o.ok => /\ o.enc.state = "ok" /\ Begun(o.out.cells)
                    /\ Len(o.out.cells) = AudioOffset
                    /\ o.enc.md5 = <<>> /\ o.enc.total = 0
                    /\ o.enc.min = NoMinimum /\ o.enc.max = 0
         /\ ~o.ok => o.enc.state = "error" /\ Len(o.out.cells) < AudioOffset
         /\ \A i \in 1 .. Before : i \in 1 .. Len(o.out.cells) /\ o.out.cells[i] = out.cells[i]
<1> DEFINE b == [i \in 1 .. Before |-> Field("before", i)]
           S == {b[i] : i \in 1 .. Before} \cup {Beginning[i] : i \in 1 .. 6}
           e == [NewEncoder EXCEPT !.state = "ok", !.buffers = TRUE, !.min = NoMinimum,
                                   !.streaminfo = out.pos + 1]
           f(n) == [NewEncoder EXCEPT !.buffers = TRUE,
                                      !.streaminfo = IF n = 0 THEN 0 ELSE out.pos + 1]
           g(n) == Appended(out, SubSeq(Beginning, 1, n))
<1>1. /\ AudioOffset = Before + 6 /\ Before \in Nat /\ Len(Beginning) = 6
  BY AudioOffsetIs, BeginningLength, DriverAssumption
<1>2. out = [cells |-> b, pos |-> Before]
  BY DEF EncoderInv
<1>3. b \in Seq(S) /\ Len(b) = Before /\ \A i \in 1 .. Before : b[i] = Field("before", i)
  BY <1>1
<1>4. Beginning \in Seq(S)
  <2>1. Beginning \in Seq({Beginning[i] : i \in 1 .. 6})
    BY BeginningLength DEF Beginning, StreamInfo
  <2>2. {Beginning[i] : i \in 1 .. 6} \subseteq S
    OBVIOUS
  <2> HIDE DEF S
  <2> QED BY <2>1, <2>2
<1>5. out.cells = b /\ out.pos = Before
  BY <1>2
<1> HIDE DEF b, S
<1>6. ASSUME NEW w \in Seq(S)
      PROVE  LET v == Appended(out, w)
             IN  /\ AtEnd(v) /\ IsSequence(v.cells) /\ Len(v.cells) = Before + Len(w)
                 /\ \A i \in 1 .. Before + Len(w) :
                      v.cells[i] = IF i <= Before THEN b[i] ELSE w[i - Before]
  <2> DEFINE d == b \o w
  <2>1. /\ d \in Seq(S) /\ Len(d) = Len(b) + Len(w)
        /\ \A i \in 1 .. Len(b) + Len(w) :
             d[i] = IF i <= Len(b) THEN b[i] ELSE w[i - Len(b)]
    BY <1>3, ConcatProperties
  <2> HIDE DEF d
  <2>2. Appended(out, w) = [cells |-> d, pos |-> Before + Len(w)]
    BY <1>5 DEF Appended, d
  <2> QED BY <1>3, <2>1, <2>2 DEF AtEnd, IsSequence
<1>7. ASSUME NEW w \in Seq(S), NEW v, v = Appended(out, w)
      PROVE  \A i \in 1 .. Before : i \in 1 .. Len(v.cells) /\ v.cells[i] = out.cells[i]
  <2>1. Len(w) \in Nat
    OBVIOUS
  <2>2. /\ Len(v.cells) = Before + Len(w)
        /\ \A i \in 1 .. Before + Len(w) :
             v.cells[i] = IF i <= Before THEN b[i] ELSE w[i - Before]
    BY <1>6, <1>7
  <2> QED BY <1>1, <1>5, <2>1, <2>2
<1>8. \/ o = Outcome(e, Appended(out, Beginning), TRUE)
      \/ \E n \in 0 .. Len(Beginning) - 1 : o = Failed(f(n), g(n))
      \/ o = Failed(NewEncoder, out)
  <2>1. ASSUME o \in BeginningNotWritten(out)
        PROVE  \E n \in 0 .. Len(Beginning) - 1 : o = Failed(f(n), g(n))
    <3>1. BeginningNotWritten(out) =
            IF "output" \notin Faults THEN {}
            ELSE {Failed(f(n), g(n)) : n \in 0 .. Len(Beginning) - 1}
      BY DEF BeginningNotWritten
    <3> HIDE DEF f, g
    <3> QED BY <2>1, <3>1
  <2>2. o \in NotBegun(out) => o = Failed(NewEncoder, out)
    BY DEF NotBegun
  <2>3. \/ o = Outcome(e, Appended(out, Beginning), TRUE)
        \/ o \in NotBegun(out) \/ o \in BeginningNotWritten(out)
    BY DEF BeginStream
  <2> HIDE DEF e, f, g
  <2> QED BY <2>1, <2>2, <2>3
<1>9. CASE o = Outcome(e, Appended(out, Beginning), TRUE)
  <2>1. /\ IsEncoder(e) /\ e.state = "ok" /\ e.md5 = <<>> /\ e.total = 0
        /\ e.min = NoMinimum /\ e.max = 0
    BY DEF NewEncoder, IsEncoder
  <2> HIDE DEF e
  <2> DEFINE v == Appended(out, Beginning)
  <2> HIDE DEF v
  <2>2. o.enc = e /\ o.out = v /\ o.ok = TRUE
    BY <1>9 DEF Outcome, v
  <2>3. /\ AtEnd(v) /\ IsSequence(v.cells) /\ Len(v.cells) = AudioOffset
        /\ \A i \in 1 .. AudioOffset :
             v.cells[i] = IF i <= Before THEN b[i] ELSE Beginning[i - Before]
    BY <1>1, <1>4, <1>6 DEF v
  <2>4. Begun(v.cells)
    <3>1. Len(v.cells) >= AudioOffset
      BY <1>1, <2>3
    <3>2. ASSUME NEW i \in 1 .. AudioOffset
          PROVE  v.cells[i] = IF i <= Before THEN Field("before", i) ELSE Beginning[i - Before]
      <4>1. CASE i <= Before
        <5>1. i \in 1 .. Before
          BY <1>1, <4>1
        <5> QED BY <1>3, <2>3, <4>1, <5>1
      <4>2. CASE ~ (i <= Before)
        BY <2>3, <4>2
      <4> QED BY <4>1, <4>2
    <3> QED BY <3>1, <3>2 DEF Begun
  <2>5. \A i \in 1 .. Before : i \in 1 .. Len(v.cells) /\ v.cells[i] = out.cells[i]
    BY <1>4, <1>7 DEF v
  <2> QED BY <2>1, <2>2, <2>3, <2>4, <2>5
<1>10. CASE \E n \in 0 .. Len(Beginning) - 1 : o = Failed(f(n), g(n))
  <2>0. \E n \in 0 .. 5 : o = Failed(f(n), g(n))
    <3> HIDE DEF f, g
    <3> QED BY <1>1, <1>10
  <2>1. PICK n \in 0 .. 5 : o = Failed(f(n), g(n))
    BY <2>0
  <2> DEFINE h == f(n)
             v == g(n)
             w == SubSeq(Beginning, 1, n)
  <2>2. IsEncoder(h)
    BY EncoderFields DEF IsEncoder
  <2>3. w \in Seq(S) /\ Len(w) = n
    <3> DEFINE c == Beginning
    <3> HIDE DEF c
    <3>1. c \in Seq(S) /\ Len(c) = 6
      BY <1>1, <1>4 DEF c
    <3>2. SubSeq(c, 1, n) \in Seq(S) /\ Len(SubSeq(c, 1, n)) = n
      <4>1. 1 \in Int /\ n \in Int /\ \A i \in 1 .. n : c[i] \in S
        <5>1. \A i \in 1 .. n : i \in 1 .. Len(c)
          BY <3>1
        <5>2. \A i \in 1 .. Len(c) : c[i] \in S
          BY <3>1, ElementOfSeq, Zenon
        <5> QED BY <5>1, <5>2
      <4>2. /\ SubSeq(c, 1, n) \in Seq(S)
            /\ Len(SubSeq(c, 1, n)) = IF 1 <= n THEN n - 1 + 1 ELSE 0
        BY <3>1, <4>1, SubSeqProperties
      <4> QED BY <4>1, <4>2
    <3> QED BY <3>2 DEF c
  <2>4. v = Appended(out, w)
    OBVIOUS
  <2> HIDE DEF h, v, w
  <2>5. AtEnd(v) /\ IsSequence(v.cells) /\ Len(v.cells) < AudioOffset
    BY <1>1, <1>6, <2>3, <2>4
  <2>6. \A i \in 1 .. Before : i \in 1 .. Len(v.cells) /\ v.cells[i] = out.cells[i]
    BY <1>7, <2>3, <2>4
  <2>7. o = Failed(h, v)
    BY <2>1 DEF h, v
  <2>8. Answers(h, Failed(h, v)) /\ Failed(h, v).out = v
    BY <2>2, FailedAnswers
  <2>9. ~ o.ok
    BY <2>7, FailedIsNotOk
  <2>10. IsEncoder(o.enc) /\ o.enc.state = "error" /\ o.out = v
    BY <2>7, <2>8, <2>9 DEF Answers
  <2>11. o.ok \in BOOLEAN
    BY <2>7, <2>8 DEF Answers
  <2> QED BY <2>5, <2>6, <2>9, <2>10, <2>11
<1>11. CASE o = Failed(NewEncoder, out)
  <2> DEFINE h == NewEncoder
  <2>1. IsEncoder(h)
    BY DEF IsEncoder
  <2> HIDE DEF h
  <2>2. o = Failed(h, out)
    BY <1>11 DEF h
  <2>3. Answers(h, Failed(h, out)) /\ Failed(h, out).out = out
    BY <2>1, FailedAnswers
  <2>4. ~ o.ok
    BY <2>2, FailedIsNotOk
  <2>5. IsEncoder(o.enc) /\ o.enc.state = "error" /\ o.ok \in BOOLEAN /\ o.out = out
    BY <2>2, <2>3, <2>4 DEF Answers
  <2>6. AtEnd(out) /\ IsSequence(out.cells) /\ Len(out.cells) = Before
    BY <1>2, <1>3 DEF AtEnd, IsSequence
  <2> QED BY <1>1, <2>4, <2>5, <2>6
<1> QED BY <1>8, <1>9, <1>10, <1>11

\* What is written stays.
CellsStay == \A i \in 1 .. Len(out.cells) : out'.cells[i] = out.cells[i]

\* A step that leaves the encoder and the output.
LEMMA QuietHeader ==
  ASSUME HeaderInv, UNCHANGED <<enc, out, report, failed>>,
         pc' \notin {"destroyed", "crashed"}, pc # "destroyed",
         pc' \in {"idle", "chunk", "process"} => pc \in {"idle", "chunk", "process"}
  PROVE  HeaderInv' /\ CellsStay
<1>1. Encoded => Encoded'
  BY DEF Encoded, FrameCount
<1> QED BY <1>1 DEF HeaderInv, CellsStay

\* The stream is begun, or fails before its comment.
LEMMA CreateHeader ==
  ASSUME EncoderInv, HeaderInv, Create PROVE HeaderInv' /\ CellsStay
<1>1. PICK o \in BeginStream(out) : enc' = o.enc /\ out' = o.out /\ failed' = ~o.ok
  BY DEF Create
<1>2. pc = "none" /\ pc' = "idle" /\ report' = report /\ report = "none"
  BY DEF Create, HeaderInv
<1>3. /\ AtEnd(o.out) /\ IsSequence(o.out.cells) /\ IsEncoder(o.enc)
      /\ o.ok \in BOOLEAN
      /\ o.ok => /\ o.enc.state = "ok" /\ Begun(o.out.cells)
                 /\ Len(o.out.cells) = AudioOffset
                 /\ o.enc.md5 = <<>> /\ o.enc.total = 0
                 /\ o.enc.min = NoMinimum /\ o.enc.max = 0
      /\ ~o.ok => o.enc.state = "error" /\ Len(o.out.cells) < AudioOffset
      /\ \A i \in 1 .. Before : i \in 1 .. Len(o.out.cells) /\ o.out.cells[i] = out.cells[i]
  BY <1>2, BeginStreamLeaves
<1>4. AtEnd(out)' /\ IsSequence(out.cells)' /\ IsEncoder(enc)'
  BY <1>1, <1>3 DEF AtEnd
<1>5. enc'.state \in {"ok", "error"} /\ (failed' <=> enc'.state = "error")
  BY <1>1, <1>3
<1>6. AudioOffset \in Nat /\ AudioOffset = Before + 6 /\ Before \in Nat
  BY AudioOffsetIs, DriverAssumption
<1>7. Begun(out'.cells) \/ (failed' /\ Unbegun(out'.cells))
  <2>1. CASE o.ok
    BY <1>1, <1>3, <2>1
  <2>2. CASE ~o.ok
    <3>1. Len(out'.cells) < AudioOffset /\ Len(out'.cells) \in Nat
      BY <1>1, <1>3, <1>4, <2>2 DEF IsSequence
    <3>2. Unbegun(out'.cells)
      BY <1>6, <3>1 DEF Unbegun
    <3> QED BY <1>1, <2>2, <3>2
  <2> QED BY <2>1, <2>2
<1>8. ASSUME ~failed' PROVE Counted(enc', out'.cells, FrameCount' * BlockSize)
  <2>1. /\ Len(out'.cells) = AudioOffset /\ enc'.md5 = <<>> /\ enc'.total = 0
        /\ enc'.min = NoMinimum /\ enc'.max = 0
    BY <1>1, <1>3, <1>8
  <2>2. FrameCount' = 0
    BY <1>6, <2>1 DEF FrameCount
  <2>3. 0 * BlockSize = 0 /\ Samples(0, 0) = <<>>
    BY SamplesType, EncoderAssumption
  <2>4. SizesIn(out'.cells) = {}
    BY <1>6, <2>1 DEF SizesIn
  <2> QED BY <2>1, <2>2, <2>3, <2>4 DEF Counted, Extremes
<1>9. HeaderInv'
  BY <1>2, <1>4, <1>5, <1>7, <1>8 DEF HeaderInv, Encoded
<1>10. Len(out.cells) = Before
  <2> DEFINE b == [i \in 1 .. Before |-> Field("before", i)]
  <2>1. Len(b) = Before
    BY <1>6
  <2>2. out = [cells |-> b, pos |-> Before]
    BY <1>2 DEF EncoderInv
  <2> HIDE DEF b
  <2> QED BY <2>1, <2>2
<1> QED BY <1>1, <1>3, <1>9, <1>10 DEF CellsStay

\* Frames come after the header, and each counts.
LEMMA ProcessHeader ==
  ASSUME EncoderInv, HeaderInv, Process PROVE HeaderInv' /\ CellsStay
<1> DEFINE taken == LesserOf(Room(enc), Len(pcm))
           rest == SubSeq(pcm, taken + 1, Len(pcm))
<1>1. PICK o \in Gather(enc, out, SubSeq(pcm, 1, taken)) :
        /\ enc' = o.enc /\ out' = o.out /\ failed' = (failed \/ ~o.ok)
        /\ pc' = IF ~o.ok THEN "idle" ELSE IF rest = <<>> THEN "chunk" ELSE pc
  BY DEF Process
<1>2. pc = "process" /\ report' = report
  BY DEF Process
<1>3. Encoded
  BY <1>2 DEF HeaderInv
<1>4. Answers(enc, o) /\ Grown(out, o.out)
  BY <1>3, GatherLeaves DEF Encoded
<1>5. AtEnd(out)' /\ IsSequence(out.cells)' /\ IsEncoder(enc)'
  BY <1>1, <1>4 DEF AtEnd, Grown, Answers
<1>6. enc'.state \in {"ok", "error"} /\ (failed' <=> enc'.state = "error")
  BY <1>1, <1>3, <1>4 DEF Encoded, Answers
<1>7. Begun(out'.cells) \/ (failed' /\ Unbegun(out'.cells))
  BY <1>1, <1>3, <1>4, HeaderStays DEF Encoded
<1>8. ASSUME ~failed' PROVE Counted(enc', out'.cells, FrameCount' * BlockSize)
  <2>1. o.ok /\ ~failed
    BY <1>1, <1>8
  <2>2. PICK f, n, m \in Nat : InOrder(f, n, m)
    BY <1>2, <2>1 DEF EncoderInv
  <2> DEFINE g == f * BlockSize
  <2>3. g \in Nat /\ BlockSize \in Nat \ {0} /\ (f + 1) * BlockSize = g + BlockSize
    BY Blocks, EncoderAssumption
  <2>4. /\ Len(out.cells) = AudioOffset + f
        /\ Encoding(enc, f, Samples(g, n)) /\ n <= BlockSize
        /\ pcm = Samples(g + n, m)
    BY <2>2 DEF InOrder
  <2>5. FrameCount = f
    BY <2>4, AudioOffsetIs DEF FrameCount
  <2>6. Counted(enc, out.cells, g)
    BY <1>3, <2>1, <2>5 DEF Encoded
  <2> HIDE DEF g
  <2>7. Len(enc.signal) = n /\ Len(pcm) = m /\ g + n \in Nat /\ enc.signal = Samples(g, n)
        /\ enc.blocksize = BlockSize
    BY <2>3, <2>4, SamplesType DEF Encoding
  <2>8. Room(enc) = BlockSize + 1 - n
    BY <2>7 DEF Room, OverRead
  <2>9. PICK r \in 0 .. m : r = taken /\ n + r <= BlockSize + 1
    BY <2>3, <2>4, <2>7, <2>8 DEF LesserOf
  <2>10. n + r \in Nat /\ r \in Nat
    OBVIOUS
  <2> HIDE DEF taken
  <2>11. SubSeq(pcm, 1, r) = Samples(g + n, r)
    BY <2>4, <2>7, SamplesSplit
  <2>12. Samples(g, n) \o Samples(g + n, r) = Samples(g, n + r)
    BY <2>3, <2>10, SamplesJoin
  <2>13. /\ enc.signal \o SubSeq(pcm, 1, r) = Samples(g, n + r)
         /\ o \in Gather(enc, out, SubSeq(pcm, 1, r))
    BY <1>1, <2>7, <2>9, <2>11, <2>12
  <2>14. Len(out.cells) >= AudioOffset
    BY <2>4, AudioOffsetIs
  <2>15. Counted(o.enc, o.out.cells, IF n + r <= BlockSize THEN g ELSE g + BlockSize)
    <3> DEFINE samples == SubSeq(pcm, 1, r)
    <3> HIDE DEF samples
    <3>1. enc.signal \o samples = Samples(g, n + r) /\ o \in Gather(enc, out, samples)
      BY <2>13 DEF samples
    <3>2. IsEncoder(enc) /\ AtEnd(out) /\ IsSequence(out.cells)
      BY <1>3 DEF Encoded
    <3> QED BY <2>1, <2>3, <2>6, <2>7, <2>10, <2>14, <3>1, <3>2, GatherCounts
  <2>16. CASE n + r <= BlockSize
    <3>1. o.out = out
      <4>1. Len(enc.signal \o SubSeq(pcm, 1, r)) = n + r
        BY <2>3, <2>10, <2>13, SamplesType
      <4> DEFINE full == [enc EXCEPT !.signal = @ \o SubSeq(pcm, 1, r)]
      <4>2. Len(full.signal) <= enc.blocksize
        BY <1>3, <2>7, <2>16, <4>1, EncoderFields DEF Encoded, IsEncoder
      <4>3. o = Outcome(full, out, TRUE)
        BY <2>13, <4>2 DEF Gather
      <4> HIDE DEF full
      <4> QED BY <4>3 DEF Outcome
    <3>2. FrameCount' = f
      BY <1>1, <2>5, <3>1 DEF FrameCount
    <3>3. Counted(o.enc, o.out.cells, g)
      BY <2>15, <2>16
    <3> QED BY <1>1, <3>2, <3>3 DEF g
  <2>17. CASE ~ (n + r <= BlockSize)
    <3>1. Len(o.out.cells) = Len(out.cells) + 1
      <4>1. Encoding(enc, f, enc.signal) /\ enc.signal \in Seq(Int)
        BY <2>3, <2>4, <2>7, SamplesType DEF Encoding
      <4> DEFINE all == enc.signal \o SubSeq(pcm, 1, r)
      <4>2. /\ Len(all) = n + r /\ SubSeq(pcm, 1, r) \in Seq(Int)
        <5>1. Samples(g + n, r) \in Seq(Int)
          BY <2>7, <2>10, SamplesType
        <5>2. Len(Samples(g, n + r)) = n + r
          BY <2>3, <2>10, SamplesType
        <5> QED BY <2>11, <2>13, <5>1, <5>2
      <4>3. ~ (Len(all) <= BlockSize)
        BY <2>17, <4>2
      <4> HIDE DEF all
      <4>4. \E size \in FrameSizes :
              o.out = Put(out, Frame(f, SubSeq(all, 1, BlockSize), size, FALSE))
        <5> DEFINE samples == SubSeq(pcm, 1, r)
        <5> HIDE DEF samples
        <5>1. all = enc.signal \o samples /\ samples \in Seq(Int)
              /\ o \in Gather(enc, out, samples)
          BY <2>13, <4>2 DEF all, samples
        <5> QED BY <2>1, <4>1, <4>3, <5>1, GatherOk
      <4>5. PICK x : o.out = Put(out, x)
        BY <4>4
      <4> QED BY <1>3, <4>5, PutAtEnd DEF Encoded
    <3>2. FrameCount' = f + 1
      BY <1>1, <2>4, <3>1, AudioOffsetIs DEF FrameCount
    <3>3. Counted(o.enc, o.out.cells, g + BlockSize)
      BY <2>15, <2>17
    <3> QED BY <1>1, <2>3, <3>2, <3>3
  <2> QED BY <2>16, <2>17
<1>9. HeaderInv'
  <2>1. pc' \in {"idle", "chunk", "process"}
    BY <1>1, <1>2
  <2>2. Encoded'
    BY <1>5, <1>6, <1>7, <1>8 DEF Encoded
  <2> QED BY <1>2, <2>1, <2>2 DEF HeaderInv
<1> QED BY <1>1, <1>4, <1>9 DEF CellsStay, Grown

\* STREAMINFO after new_destroyStaticFlacEncoder, ...
LEMMA DestroyHeader ==
  ASSUME EncoderInv, HeaderInv, Destroy
  PROVE  /\ HeaderInv'
         /\ \A i \in 1 .. Len(out.cells) :
              out'.cells[i] # out.cells[i] => i \in Before + 3 .. Before + 5
<1>1. PICK o \in Finish(enc, out) :
        /\ enc' = o.enc /\ out' = o.out
        /\ report' = IF o.ok THEN "succeeded" ELSE "FAILED"
        /\ failed' = (failed \/ ~o.ok)
  BY DEF Destroy
<1>2. pc = "idle" /\ pc' = "destroyed" /\ position' = position
  BY DEF Destroy
<1>3. Encoded
  BY <1>2 DEF HeaderInv
<1>4. AudioOffset \in Nat /\ AudioOffset = Before + 6 /\ Before \in Nat
  BY AudioOffsetIs, DriverAssumption
<1>5. Len(out.cells) \in Nat
  BY <1>3 DEF Encoded, IsSequence
<1>6. ASSUME enc.state = "ok"
      PROVE  /\ ~failed /\ Begun(out.cells)
             /\ \E f, n \in Nat :
                  /\ Len(out.cells) = AudioOffset + f /\ enc.streaminfo = Before + 1
                  /\ f * BlockSize \in Nat /\ enc.signal = Samples(f * BlockSize, n)
                  /\ position = f * BlockSize + n
                  /\ Counted(enc, out.cells, f * BlockSize)
  <2>1. ~failed
    BY <1>3, <1>6 DEF Encoded
  <2>2. PICK f, n, m \in Nat : InOrder(f, n, m)
    BY <1>2, <2>1 DEF EncoderInv
  <2>3. m = 0
    BY <1>2, <2>2, EmptyPiece DEF EncoderInv
  <2>4. f * BlockSize \in Nat
    BY Blocks
  <2>5. /\ Len(out.cells) = AudioOffset + f /\ enc.streaminfo = Before + 1
        /\ enc.signal = Samples(f * BlockSize, n) /\ position = f * BlockSize + n + m
    BY <2>2 DEF InOrder, Encoding
  <2>6. position = f * BlockSize + n
    BY <2>3, <2>4, <2>5
  <2>7. FrameCount = f
    BY <1>4, <2>5 DEF FrameCount
  <2>8. Counted(enc, out.cells, f * BlockSize) /\ Begun(out.cells)
    BY <1>3, <2>1, <2>7 DEF Encoded
  <2> QED BY <2>1, <2>4, <2>5, <2>6, <2>8
<1>7. PICK l \in LastFrame(enc, out) :
        /\ Answers(enc, l) /\ Grown(out, l.out) /\ o.ok \in BOOLEAN
        /\ \/ l.enc.state # "ok" /\ o.out = l.out /\ o.ok = l.ok
           \/ /\ l.enc.state = "ok" /\ l.ok
              /\ Patches(l.enc, l.out, o.out)
              /\ o.ok => Updated(l.enc, o.out)
  <2>1. enc.state = "ok" => enc.streaminfo = Before + 1 /\ Len(out.cells) >= AudioOffset
    <3> SUFFICES ASSUME enc.state = "ok"
                 PROVE  enc.streaminfo = Before + 1 /\ Len(out.cells) >= AudioOffset
      OBVIOUS
    <3>1. PICK f \in Nat : Len(out.cells) = AudioOffset + f /\ enc.streaminfo = Before + 1
      BY <1>6
    <3> QED BY <1>4, <3>1
  <2> QED BY <1>3, <2>1, FinishLeaves DEF Encoded
<1>8. /\ Len(l.out.cells) \in Nat /\ Len(out.cells) <= Len(l.out.cells)
      /\ \A i \in 1 .. Len(out.cells) : l.out.cells[i] = out.cells[i]
  BY <1>7 DEF Grown
\* ... when it is left as it was begun, ...
<1>9. CASE l.enc.state # "ok"
  <2>1. out' = l.out
    BY <1>1, <1>7, <1>9
  <2>2. \A i \in 1 .. Len(out.cells) : out'.cells[i] = out.cells[i]
    BY <1>8, <2>1
  <2>3. ASSUME FrameCount' >= 0, out'.cells[AudioOffset].cell = "comment"
        PROVE  /\ InfoField(3)' = 0 /\ InfoField(4)' = <<>>
               /\ \A i \in 1 .. AudioOffset : out'.cells[i].cell # "torn"
    <3>1. Len(out'.cells) >= AudioOffset
      BY <1>4, <1>8, <2>1, <2>3 DEF FrameCount
    <3>2. Begun(out'.cells) \/ Unbegun(out'.cells)
      BY <1>3, <1>7, <2>1, HeaderStays DEF Encoded
    <3>3. Begun(out'.cells)
      BY <2>3, <3>1, <3>2 DEF Unbegun
    <3>4. Before + 1 + 3 = Before + 4 /\ Before + 1 + 4 = Before + 5
      BY <1>4
    <3>5. /\ out'.cells[Before + 4].value = 0 /\ out'.cells[Before + 5].value = <<>>
          /\ \A i \in 1 .. AudioOffset : out'.cells[i].cell # "torn"
      BY <3>3, BegunFields
    <3> QED BY <3>4, <3>5 DEF InfoField
  <2>4. HeaderNeverLies'
    BY <2>3 DEF HeaderNeverLies
  <2>5. failed'
    <3>1. CASE l.ok
      <4>1. enc.state # "ok"
        BY <1>7, <1>9, <3>1 DEF Answers
      <4> QED BY <1>1, <1>3, <4>1 DEF Encoded
    <3>2. CASE ~l.ok
      BY <1>1, <1>7, <1>9, <3>2
    <3> QED BY <3>1, <3>2
  <2>6. StreamInfoTrue'
    BY <2>5 DEF StreamInfoTrue
  <2> QED BY <1>2, <2>2, <2>4, <2>6 DEF HeaderInv
\* ... and when it is brought up to date, of a stream in which all is counted.
<1>10. CASE l.enc.state = "ok"
  <2>1. /\ l.ok /\ Patches(l.enc, l.out, out') /\ (o.ok => Updated(l.enc, out'))
    BY <1>1, <1>7, <1>10
  <2>2. enc.state = "ok"
    BY <1>7, <1>10, <2>1 DEF Answers
  <2>3. PICK f, n \in Nat :
          /\ Len(out.cells) = AudioOffset + f
          /\ f * BlockSize \in Nat /\ enc.signal = Samples(f * BlockSize, n)
          /\ position = f * BlockSize + n
          /\ Counted(enc, out.cells, f * BlockSize)
    BY <1>6, <2>2
  <2>4. Len(out.cells) >= AudioOffset
    BY <1>4, <2>3
  <2>5. Counted(l.enc, l.out.cells, position)
    <3> DEFINE g == f * BlockSize
    <3>1. g \in Nat /\ enc.signal = Samples(g, n) /\ position = g + n
          /\ Counted(enc, out.cells, g)
      BY <2>3
    <3> HIDE DEF g
    <3>2. Counted(l.enc, l.out.cells, g + n)
      BY <1>3, <2>1, <2>2, <2>4, <3>1, LastFrameCounts DEF Encoded
    <3> QED BY <3>1, <3>2
  <2>6. /\ l.enc.total = position /\ l.enc.md5 = Samples(0, position)
        /\ Extremes(l.enc.min, l.enc.max, SizesIn(l.out.cells))
    BY <2>5 DEF Counted
  <2>7. /\ Begun(l.out.cells) /\ ~failed
    BY <1>6, <1>7, <2>2, HeaderStays
  <2>8. /\ l.out.cells[Before + 2].value = BlockSize /\ l.out.cells[Before + 4].value = 0
        /\ l.out.cells[Before + 5].value = <<>>
        /\ \A i \in 1 .. AudioOffset : l.out.cells[i].cell # "torn"
    BY <2>7, BegunFields
  <2>9. /\ Len(out'.cells) = Len(l.out.cells) /\ Len(l.out.cells) >= AudioOffset
        /\ \A i \in 1 .. Len(l.out.cells) :
             i \notin Before + 3 .. Before + 5 => out'.cells[i] = l.out.cells[i]
        /\ out'.cells[Before + 4].value \in {l.out.cells[Before + 4].value, l.enc.total}
        /\ out'.cells[Before + 5].value \in {l.out.cells[Before + 5].value, l.enc.md5}
    BY <1>4, <1>5, <1>8, <2>1, <2>4 DEF Patches
  <2>10. /\ Before + 1 + 1 = Before + 2 /\ Before + 1 + 2 = Before + 3
         /\ Before + 1 + 3 = Before + 4 /\ Before + 1 + 4 = Before + 5
    BY <1>4
  <2>11. /\ InfoField(3)' \in {0, position'}
         /\ InfoField(4)' \in {<<>>, Samples(0, position')}
    BY <1>2, <2>6, <2>8, <2>9, <2>10 DEF InfoField
  <2>12. ASSUME o.ok
         PROVE  /\ InfoField(2)' = <<l.enc.min, l.enc.max>>
                /\ InfoField(3)' = position' /\ InfoField(4)' = Samples(0, position')
                /\ \A i \in Before + 3 .. Before + 5 : out'.cells[i].cell # "torn"
    <3>1. /\ out'.cells[Before + 3] = Field("framesizes", <<l.enc.min, l.enc.max>>)
          /\ out'.cells[Before + 4] = Field("total", l.enc.total)
          /\ out'.cells[Before + 5] = Field("md5", l.enc.md5)
      BY <2>1, <2>12 DEF Updated
    <3>2. /\ out'.cells[Before + 3].value = <<l.enc.min, l.enc.max>>
          /\ out'.cells[Before + 4].value = l.enc.total
          /\ out'.cells[Before + 5].value = l.enc.md5
      BY <3>1 DEF Field
    <3>3. /\ out'.cells[Before + 3].cell # "torn" /\ out'.cells[Before + 4].cell # "torn"
          /\ out'.cells[Before + 5].cell # "torn"
      BY <3>1 DEF Field
    <3>4. \A i \in Before + 3 .. Before + 5 :
            i = Before + 3 \/ i = Before + 4 \/ i = Before + 5
      BY <1>4
    <3>5. \A i \in Before + 3 .. Before + 5 : out'.cells[i].cell # "torn"
      BY <3>3, <3>4
    <3>6. InfoField(2)' = <<l.enc.min, l.enc.max>>
      BY <2>10, <3>2 DEF InfoField
    <3>7. InfoField(3)' = position' /\ InfoField(4)' = Samples(0, position')
      BY <1>2, <2>6, <2>10, <3>2 DEF InfoField
    <3> QED BY <3>5, <3>6, <3>7
  <2>13. ASSUME o.ok, NEW i \in 1 .. AudioOffset PROVE out'.cells[i].cell # "torn"
    <3>1. CASE i \in Before + 3 .. Before + 5
      BY <2>12, <2>13, <3>1
    <3>2. CASE i \notin Before + 3 .. Before + 5
      <4>1. i \in 1 .. Len(l.out.cells)
        BY <1>4, <1>8, <2>9
      <4> QED BY <2>8, <2>9, <3>2, <4>1
    <3> QED BY <3>1, <3>2
  <2>14. report' = "succeeded" => o.ok /\ ~failed'
    BY <1>1, <2>7
  <2>15. HeaderNeverLies'
    BY <2>11, <2>13, <2>14 DEF HeaderNeverLies
  <2>16. InfoField(1)' = BlockSize
    <3>1. Before + 2 \in 1 .. Len(l.out.cells) /\ Before + 2 \notin Before + 3 .. Before + 5
      BY <1>4, <1>8, <2>9
    <3> QED BY <2>8, <2>9, <2>10, <3>1 DEF InfoField
  <2>17. AllSizes' = SizesIn(l.out.cells)
    <3>1. SizesIn(out'.cells) = SizesIn(l.out.cells)
      <4>1. \A i \in AudioOffset + 1 .. Len(l.out.cells) :
              i \in 1 .. Len(l.out.cells) /\ i \notin Before + 3 .. Before + 5
        BY <1>4, <1>8
      <4>2. \A i \in AudioOffset + 1 .. Len(l.out.cells) :
              out'.cells[i].size = l.out.cells[i].size
        BY <2>9, <4>1
      <4> QED BY <2>9, <4>2 DEF SizesIn
    <3>2. Len(out.cells)' \in Nat
      BY <1>8, <2>9
    <3>3. (Len(out.cells) \in Nat => AllSizes = SizesIn(out.cells))'
      BY AllSizesIs, PTL
    <3> QED BY <3>1, <3>2, <3>3
  <2>18. ASSUME o.ok, AllSizes' # {}
         PROVE  /\ InfoField(2)'[1] \in AllSizes' /\ InfoField(2)'[2] \in AllSizes'
                /\ \A s \in AllSizes' : InfoField(2)'[1] <= s /\ s <= InfoField(2)'[2]
    <3>1. InfoField(2)'[1] = l.enc.min /\ InfoField(2)'[2] = l.enc.max
      BY <2>12, <2>18
    <3> QED BY <2>6, <2>17, <2>18, <3>1 DEF Extremes
  <2>19. StreamInfoTrue'
    BY <2>12, <2>14, <2>16, <2>18 DEF StreamInfoTrue
  <2>20. \A i \in 1 .. Len(out.cells) :
           i \notin Before + 3 .. Before + 5 => out'.cells[i] = out.cells[i]
    BY <1>5, <1>8, <2>9
  <2> QED BY <1>2, <2>15, <2>19, <2>20 DEF HeaderInv
<1> QED BY <1>9, <1>10

\* A call that does not return leaves the header.
LEMMA CrashHeader ==
  ASSUME EncoderInv, HeaderInv, Crash, pc # "destroyed"
  PROVE  HeaderInv' /\ CellsStay
<1>1. /\ pc' = "crashed"
      /\ out' = out /\ position' = position /\ report' = report
  BY DEF Crash
<1>2. report' = "none"
  BY <1>1 DEF HeaderInv
<1>3. HeaderNeverLies
  BY WhileHeader
<1>4. HeaderNeverLies'
  BY <1>1, <1>2, <1>3 DEF HeaderNeverLies, FrameCount, InfoField
<1>5. StreamInfoTrue'
  BY <1>2 DEF StreamInfoTrue
<1> QED BY <1>1, <1>2, <1>4, <1>5 DEF HeaderInv, CellsStay

\* There is no stream yet.
LEMMA HeaderInit == ASSUME Init PROVE HeaderInv
<1>1. pc = "none" /\ report = "none"
  BY DEF Init
<1> QED BY <1>1 DEF HeaderInv

\* No step breaks the header, and only the last writes over anything.
LEMMA HeaderStep ==
  ASSUME EncoderInv, HeaderInv, [Next]_vars
  PROVE  HeaderInv' /\ (Destroy \/ CellsStay)
<1>1. CASE Create BY <1>1, CreateHeader
<1>2. CASE Record BY <1>2, QuietHeader DEF Record
<1>3. CASE BeginChunk BY <1>3, QuietHeader DEF BeginChunk
<1>4. CASE ReadPiece BY <1>4, QuietHeader DEF ReadPiece
<1>5. CASE Process BY <1>5, ProcessHeader
<1>6. CASE EndChunk BY <1>6, QuietHeader DEF EndChunk
<1>7. CASE Destroy BY <1>7, DestroyHeader
<1>8. CASE CreateCrashes \/ ReadCrashes \/ ProcessCrashes
  <2>1. Crash /\ pc # "destroyed"
    BY <1>8 DEF CreateCrashes, ReadCrashes, ProcessCrashes
  <2> QED BY <2>1, CrashHeader
<1>9. CASE UNCHANGED vars
  <2>1. UNCHANGED <<enc, out, recorded, position, pc, samplesLeft, pcm, report, failed>>
    BY <1>9 DEF vars
  <2>2. Encoded => Encoded'
    BY <2>1 DEF Encoded, FrameCount
  <2>3. HeaderNeverLies => HeaderNeverLies'
    BY <2>1 DEF HeaderNeverLies, FrameCount, InfoField
  <2>4. StreamInfoTrue => StreamInfoTrue'
    BY <2>1 DEF StreamInfoTrue, AllSizes, FrameCount, FrameAt, InfoField
  <2> QED BY <2>1, <2>2, <2>3, <2>4 DEF HeaderInv, CellsStay
<1> QED BY <1>1, <1>2, <1>3, <1>4, <1>5, <1>6, <1>7, <1>8, <1>9 DEF Next, Chunk

\* The header inductive invariant with that of the samples.
LEMMA HeaderInvHolds == Spec => [](EncoderInv /\ HeaderInv)
<1>1. Init => EncoderInv /\ HeaderInv
  BY EncoderInit, HeaderInit
<1>2. EncoderInv /\ HeaderInv /\ [Next]_vars => (EncoderInv /\ HeaderInv)'
  BY EncoderStep, HeaderStep
<1> QED BY <1>1, <1>2, PTL DEF Spec

\* STREAMINFO is true of the stream when FLAC__stream_encoder_finish has succeeded and
\* nothing has failed before it: the block size, the smallest and the largest frame, the
\* number of samples and their MD5.
THEOREM StreamInfoIsTrue == Spec => []StreamInfoTrue
<1>1. EncoderInv /\ HeaderInv => StreamInfoTrue
  BY WhileHeader
<1> QED BY <1>1, HeaderInvHolds, PTL

\* Whatever fails, and wherever a write over STREAMINFO is cut off, it says of the number
\* of samples and their MD5 what is true or what it said before there were any; a field
\* that is torn is reported, and so is a failure if there is an MD5.
THEOREM HeaderTellsTruth == Spec => []HeaderNeverLies
<1>1. EncoderInv /\ HeaderInv => HeaderNeverLies
  BY WhileHeader
<1> QED BY <1>1, HeaderInvHolds, PTL

\* No write goes over a frame, or over what the array had before the stream: the seek
\* and write callbacks of update_metadata_ reach STREAMINFO's last three fields only.
THEOREM FramesAreKept == Spec => OnlyInfoIsRewritten
<1>1. ASSUME EncoderInv, HeaderInv, [Next]_vars
      PROVE  \A i \in 1 .. Len(out.cells) :
               out'.cells[i] # out.cells[i] => Destroy /\ i \in Before + 3 .. Before + 5
  <2>1. CASE Destroy
    BY <1>1, <2>1, DestroyHeader
  <2>2. CASE ~Destroy
    BY <1>1, <2>2, HeaderStep DEF CellsStay
  <2> QED BY <2>1, <2>2
<1>2. EncoderInv /\ HeaderInv /\ [Next]_vars =>
        [\A i \in 1 .. Len(out.cells) :
           out'.cells[i] # out.cells[i] => Destroy /\ i \in Before + 3 .. Before + 5]_vars
  BY <1>1
<1> QED BY <1>2, HeaderInvHolds, PTL DEF Spec, OnlyInfoIsRewritten
=============================================================================
