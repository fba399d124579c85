----------------------- MODULE AudioFileParser_proofs -----------------------
(***************************************************************************)
(* What doIt stores and analyses is the file, for files, blocks and        *)
(* buffers of every size, whichever call fails.                            *)
(*                                                                         *)
(* The block store is part of doIt's module, and so are its proofs; the    *)
(* spectral processor and its proofs are instances: StoreInv and InputInv  *)
(* are known to be kept by their operations, once the pieces and slices    *)
(* are those that the render loop and the results give them.  The parts of *)
(* the invariant:                                                          *)
(*   RenderInv    what has been rendered is what has been added, except    *)
(*                for the piece in hand; a flushed queue has rendered all  *)
(*                that was read, which is the file;                        *)
(*   the store    StoreInv, until a piece overruns the partial store: what *)
(*                does not fit does so at once (AddOverruns), so no store  *)
(*                with frames in the wrong place is analysed;              *)
(*   AnalysisInv  the samples are the blocks read so far, and after the    *)
(*                flush a hop of zeros.  A block being two hops, a hop is  *)
(*                always left unread after a block, so the flush makes one *)
(*                window more and every frame is in two.                   *)
(***************************************************************************)
EXTENDS AudioFileParser, BufferStore_proofs, FiniteSetTheorems

RingFacts == INSTANCE HooSpectralProcessor_proofs WITH
  MaxFrames <- BlockSize, MaxSamples <- MaxFileFrames

-----------------------------------------------------------------------------
(* The instance.                                                           *)

\* The sizes are those the spectral processor assumes.
LEMMA RingSizes == RingFacts!ProcessorAssumption
<1>1. HopSize \in 1 .. FFTSize /\ FFTSize \in Nat \ {0}
  BY ParserAssumption, StoreAssumption
<1> QED BY <1>1, ParserAssumption, StoreAssumption DEF RingFacts!ProcessorAssumption

\* What its proofs call by its names is what is called here.
LEMMA SameRing ==
  /\ Spectral!Init <=> RingFacts!Init
  /\ Spectral!TypeOK <=> RingFacts!TypeOK
  /\ \A data : Spectral!ProcessForwards(data) <=> RingFacts!ProcessForwards(data)
  /\ Spectral!NextWindow <=> RingFacts!NextWindow
  /\ Spectral!Return <=> RingFacts!Return
  /\ Spectral!FlushForward <=> RingFacts!FlushForward
<1> USE DEF Spectral!Ring, Spectral!inVars, Spectral!outVars, Spectral!callVars,
            RingFacts!Ring, RingFacts!inVars, RingFacts!outVars, RingFacts!callVars
<1>1. Spectral!Init <=> RingFacts!Init
  BY Zenon DEF Spectral!Init, RingFacts!Init
<1>2. Spectral!TypeOK <=> RingFacts!TypeOK
  BY Zenon DEF Spectral!TypeOK, RingFacts!TypeOK
<1>3. ASSUME NEW data
      PROVE  Spectral!ProcessForwards(data) <=> RingFacts!ProcessForwards(data)
  BY Zenon DEF Spectral!ProcessForwards, Spectral!Begin, Spectral!CopyInput,
               RingFacts!ProcessForwards, RingFacts!Begin, RingFacts!CopyInput
<1>4. Spectral!NextWindow <=> RingFacts!NextWindow
  BY Zenon DEF Spectral!NextWindow, Spectral!EnoughInput, Spectral!CopyInputToFFT,
               Spectral!OverlapAddOutput, RingFacts!NextWindow, RingFacts!EnoughInput,
               RingFacts!CopyInputToFFT, RingFacts!OverlapAddOutput
<1>5. Spectral!Return <=> RingFacts!Return
  BY Zenon DEF Spectral!Return, Spectral!EnoughInput, Spectral!CopyOutput,
               RingFacts!Return, RingFacts!EnoughInput, RingFacts!CopyOutput
<1>6. Spectral!FlushForward <=> RingFacts!FlushForward
  BY Zenon DEF Spectral!FlushForward, Spectral!Begin, Spectral!CopyInput,
               RingFacts!FlushForward, RingFacts!Begin, RingFacts!CopyInput
<1> QED BY <1>1, <1>2, <1>3, <1>4, <1>5, <1>6, Zenon

-----------------------------------------------------------------------------
(* Rendering.                                                              *)

Rendering == {"setup", "prime", "render", "deliver", "complete"}
Analysing == {"analyse", "check", "done", "raised"}

\* The file is read in order and rendered in order.  The callback is due when all that
\* was read is rendered, so the read that finds nothing is after the last frame.
ReadInv ==
  /\ fileFrames \in 0 .. MaxFileFrames
  /\ mCurrentPacket \in 0 .. fileFrames /\ rendered \in 0 .. mCurrentPacket
  /\ mFlushed \in BOOLEAN /\ mDone \in BOOLEAN /\ callbackDue \in BOOLEAN
  /\ mCurrentPacket > 0 => mNumPacketsToRead > 0
  /\ callbackDue => rendered = mCurrentPacket /\ rendered > 0 /\ ~mFlushed
  /\ mFlushed => mDone /\ rendered = mCurrentPacket /\ (rendered > 0 => rendered = fileFrames)

\* What was rendered has been added, except for the piece in hand.
RenderInv ==
  /\ ReadInv
  /\ pc \in Rendering \cup Analysing \cup {"overrun"}
  /\ captured \in Seq(Frames)
  /\ added \in 0 .. rendered
  /\ pc \in {"setup", "prime"} => mCurrentPacket = 0
  /\ pc \in Rendering \ {"deliver"} => phase = "open" /\ added = rendered
  /\ pc = "deliver" =>
       /\ phase = "open" /\ added + Len(captured) = rendered
       /\ captured = [i \in 1 .. Len(captured) |-> added + i]
  /\ pc = "complete" => added = fileFrames
  /\ phase = "closed" => added = fileFrames

StoreKept == IF pc = "overrun" THEN StoreTypeOK ELSE StoreInv

\* The numbers of frames that are read and asked for.
LEMMA ReadSizes == mNumPacketsToRead \in Nat /\ reqFrames \in Nat
<1>1. bufferByteSize \in Nat
  BY ParserAssumption DEF bufferByteSize
<1>2. ASSUME NEW a \in Nat, NEW b \in Nat \ {0} PROVE a \div b \in Nat
  BY <1>2
<1>3. bufferByteSize \div FrameBytes \in Nat
  BY <1>1, <1>2, ParserAssumption, Zenon
<1>4. bufferByteSize \div 2 \in Nat
  BY <1>1
<1>5. (bufferByteSize \div 2) \div CaptureBytes \in Nat
  BY <1>2, <1>4, ParserAssumption, Zenon
<1> QED BY <1>3, <1>5 DEF mNumPacketsToRead, reqFrames

\* A step that neither reads nor renders, nor adds.
LEMMA RenderQuiet ==
  ASSUME RenderInv, UNCHANGED <<fileFrames, renderVars, added, phase>>,
         pc' = pc \/ pc' \in {"analyse", "check", "done", "raised", "overrun"}
  PROVE  RenderInv'
<1>1. /\ UNCHANGED <<fileFrames, mCurrentPacket, rendered, mFlushed, mDone, callbackDue>>
      /\ captured' = captured /\ added' = added /\ phase' = phase
  BY DEF renderVars
<1>2. ReadInv'
  BY <1>1 DEF RenderInv, ReadInv, mNumPacketsToRead, bufferByteSize
<1> QED BY <1>1, <1>2 DEF RenderInv, Rendering, Analysing, Frames

\* A buffer is read when all there was is rendered: some of the file, or its end.
LEMMA CallbackReads ==
  ASSUME ReadInv, BufferCallback, rendered = mCurrentPacket, UNCHANGED <<fileFrames, rendered>>,
         rendered = 0 \/ callbackDue, callbackDue' = FALSE
  PROVE  ReadInv' /\ mCurrentPacket <= mCurrentPacket'
<1> DEFINE n == Least(mNumPacketsToRead, fileFrames - mCurrentPacket)
<1>1. /\ fileFrames \in 0 .. MaxFileFrames /\ mCurrentPacket \in 0 .. fileFrames
      /\ mNumPacketsToRead \in Nat /\ MaxFileFrames \in Nat
  BY ReadSizes, ParserAssumption DEF ReadInv
<1>2. mNumPacketsToRead' = mNumPacketsToRead
  BY DEF mNumPacketsToRead, bufferByteSize
<1>3. CASE mDone
  <2>1. mCurrentPacket' = mCurrentPacket /\ mFlushed' = mFlushed /\ mDone' = mDone
    BY <1>3 DEF BufferCallback
  <2>2. mFlushed' \in BOOLEAN /\ mDone' \in BOOLEAN
    BY <2>1, Zenon DEF ReadInv
  <2>3. ASSUME mFlushed'
        PROVE  mDone' /\ rendered = mCurrentPacket' /\ (rendered > 0 => rendered = fileFrames)
    BY <2>1, <2>3, Zenon DEF ReadInv
  <2>4. /\ mCurrentPacket' \in 0 .. fileFrames /\ mCurrentPacket <= mCurrentPacket'
        /\ rendered' \in 0 .. mCurrentPacket'
        /\ mCurrentPacket' > 0 => mNumPacketsToRead > 0
    BY <1>1, <2>1 DEF ReadInv
  <2> QED BY <1>1, <1>2, <2>2, <2>3, <2>4 DEF ReadInv
<1>4. CASE ~ mDone
  <2>1. /\ mCurrentPacket' = mCurrentPacket + n
        /\ mFlushed' = (mFlushed \/ n = 0) /\ mDone' = (n = 0)
    BY <1>4 DEF BufferCallback
  <2>2. /\ n \in Nat /\ n <= mNumPacketsToRead /\ n <= fileFrames - mCurrentPacket
        /\ n = 0 => mNumPacketsToRead = 0 \/ mCurrentPacket = fileFrames
    BY <1>1 DEF Least
  <2> HIDE DEF n
  <2>3. mCurrentPacket' \in 0 .. fileFrames /\ mCurrentPacket <= mCurrentPacket'
    BY <1>1, <2>1, <2>2
  <2>4. rendered' \in 0 .. mCurrentPacket'
    BY <1>1, <2>3
  <2>5. mCurrentPacket' > 0 => mNumPacketsToRead > 0
    BY <1>1, <2>1, <2>2 DEF ReadInv
  <2>6. mFlushed' \in BOOLEAN /\ mDone' \in BOOLEAN
    BY <2>1, Zenon DEF ReadInv
  <2>7. ASSUME mFlushed'
        PROVE  mDone' /\ rendered = mCurrentPacket' /\ (rendered > 0 => rendered = fileFrames)
    <3>1. n = 0 /\ mDone'
      BY <1>4, <2>1, <2>7, Zenon DEF ReadInv
    <3> QED BY <1>1, <2>1, <2>2, <3>1 DEF ReadInv
  <2> QED BY <1>1, <1>2, <2>3, <2>4, <2>5, <2>6, <2>7 DEF ReadInv
<1> QED BY <1>3, <1>4

\* A step that does not add.
LEMMA StoreQuiet ==
  ASSUME StoreKept, UNCHANGED <<store, added, phase>>, readIteration' \in Nat,
         pc = "overrun" <=> pc' = "overrun"
  PROVE  StoreKept'
<1>1. CASE pc = "overrun"
  BY <1>1 DEF StoreKept, StoreTypeOK
<1>2. CASE pc # "overrun"
  <2>1. StoreInv
    BY <1>2 DEF StoreKept
  <2>2. StoreInv'
    BY <2>1, ReadStep
  <2> QED BY <1>2, <2>2 DEF StoreKept
<1> QED BY <1>1, <1>2

\* The position to read is a number.
LEMMA ReadIterationIs == ASSUME StoreKept PROVE readIteration \in Nat
BY DEF StoreKept, StoreInv, StoreTypeOK

LEMMA SetUpKeeps ==
  ASSUME RenderInv, StoreKept, SetUp PROVE RenderInv' /\ StoreKept'
<1>1. /\ pc = "setup" /\ pc' \in {"prime", "analyse"}
      /\ UNCHANGED <<fileFrames, renderVars, added, phase>>
      /\ UNCHANGED <<store, readIteration>>
  BY DEF SetUp, Caught, storeVars
<1>2. StoreKept'
  BY <1>1, StoreQuiet, ReadIterationIs
<1>3. RenderInv'
  <2>1. CASE pc' = "analyse"
    BY <1>1, <2>1, RenderQuiet
  <2>2. CASE pc' = "prime"
    <3>1. /\ UNCHANGED <<fileFrames, mCurrentPacket, rendered, mFlushed, mDone, callbackDue>>
          /\ captured' = captured /\ added' = added /\ phase' = phase
      BY <1>1 DEF renderVars
    <3>2. ReadInv'
      BY <3>1 DEF RenderInv, ReadInv, mNumPacketsToRead, bufferByteSize
    <3> QED BY <1>1, <2>2, <3>1, <3>2 DEF RenderInv, Rendering, Analysing, Frames
  <2> QED BY <1>1, <2>1, <2>2
<1> QED BY <1>2, <1>3

\* The direct call, and those of the queue.
LEMMA CallbackKeeps ==
  ASSUME RenderInv, StoreKept, Prime \/ Callback PROVE RenderInv' /\ StoreKept'
<1>1. /\ pc \in {"prime", "render", "deliver"} /\ pc' \in {"render", "deliver", "analyse"}
      /\ UNCHANGED <<fileFrames, rendered, captured>>
      /\ UNCHANGED <<store, added, phase, readIteration>>
      /\ pc' = "deliver" => pc = "deliver"
      /\ pc' = "render" => pc # "deliver"
  BY DEF Prime, Callback, Caught, storeVars
<1>2. StoreKept'
  BY <1>1, StoreQuiet, ReadIterationIs
<1>3. rendered \in Nat /\ mCurrentPacket \in Nat /\ callbackDue \in BOOLEAN
  BY DEF RenderInv, ReadInv
<1>4. rendered = mCurrentPacket /\ (rendered = 0 \/ callbackDue) /\ callbackDue' = FALSE
  <2>1. CASE Prime
    <3>1. pc = "prime" /\ callbackDue' = callbackDue
      BY <2>1 DEF Prime
    <3>2. mCurrentPacket = 0 /\ rendered = 0
      BY <3>1 DEF RenderInv, ReadInv
    <3>3. ~ callbackDue
      BY <3>2 DEF RenderInv, ReadInv
    <3> QED BY <1>3, <3>1, <3>2, <3>3
  <2>2. CASE Callback
    BY <2>2 DEF Callback, RenderInv, ReadInv
  <2> QED BY <2>1, <2>2
<1>5. BufferCallback \/ UNCHANGED <<mCurrentPacket, mFlushed, mDone>>
  BY DEF Prime, Callback
<1>6. ReadInv'
  <2>1. CASE BufferCallback
    <3>1. ReadInv
      BY DEF RenderInv
    <3> QED BY <1>1, <1>4, <2>1, <3>1, CallbackReads
  <2>2. CASE UNCHANGED <<mCurrentPacket, mFlushed, mDone>>
    <3>1. mNumPacketsToRead' = mNumPacketsToRead
      BY DEF mNumPacketsToRead, bufferByteSize
    <3> QED BY <1>1, <1>4, <2>2, <3>1 DEF RenderInv, ReadInv
  <2> QED BY <1>5, <2>1, <2>2
<1> QED BY <1>1, <1>2, <1>6 DEF RenderInv, Rendering, Analysing, Frames

\* The frames the queue gives are the next ones.
LEMMA RenderKeeps ==
  ASSUME RenderInv, StoreKept, Render PROVE RenderInv' /\ StoreKept'
<1> DEFINE n == Least(reqFrames, mCurrentPacket - rendered)
<1>1. /\ pc = "render" /\ pc' = "deliver" /\ captured' = [i \in 1 .. n |-> rendered + i]
      /\ rendered' = rendered + n
      /\ callbackDue' = (n > 0 /\ rendered + n = mCurrentPacket)
      /\ UNCHANGED <<fileFrames, mCurrentPacket, mFlushed, mDone>>
      /\ UNCHANGED <<store, added, phase, readIteration>>
  BY DEF Render, storeVars
<1>2. StoreKept'
  BY <1>1, StoreQuiet, ReadIterationIs
<1>3. /\ rendered \in Nat /\ mCurrentPacket \in 0 .. fileFrames /\ rendered <= mCurrentPacket
      /\ reqFrames \in Nat /\ fileFrames \in Nat
  BY ReadSizes DEF RenderInv, ReadInv
<1>4. n \in Nat /\ n <= mCurrentPacket - rendered
  BY <1>3 DEF Least
<1> HIDE DEF n
<1>5. ReadInv'
  <2>1. mNumPacketsToRead' = mNumPacketsToRead
    BY DEF mNumPacketsToRead, bufferByteSize
  <2>2. rendered' \in 0 .. mCurrentPacket
    BY <1>1, <1>3, <1>4
  <2>3. ASSUME mFlushed' PROVE n = 0 /\ mFlushed
    <3>1. mFlushed
      BY <1>1, <2>3
    <3> QED BY <1>3, <1>4, <3>1 DEF RenderInv, ReadInv
  <2>4. callbackDue' \in BOOLEAN
    BY <1>1
  <2>5. ASSUME callbackDue' PROVE rendered' = mCurrentPacket /\ rendered' > 0 /\ ~ mFlushed'
    <3>1. n > 0 /\ rendered + n = mCurrentPacket
      BY <1>1, <2>5, Zenon
    <3>2. ~ mFlushed'
      BY <1>4, <2>3, <3>1
    <3> QED BY <1>1, <1>3, <1>4, <3>1, <3>2
  <2>6. ASSUME mFlushed'
        PROVE  mDone' /\ rendered' = mCurrentPacket /\ (rendered' > 0 => rendered' = fileFrames)
    <3>1. n = 0 /\ mFlushed /\ mDone'
      BY <1>1, <2>3, <2>6, Zenon DEF RenderInv, ReadInv
    <3>2. rendered' = rendered
      BY <1>1, <1>3, <3>1
    <3> QED BY <3>1, <3>2 DEF RenderInv, ReadInv
  <2>7. mFlushed' \in BOOLEAN /\ mDone' \in BOOLEAN
    BY <1>1, Zenon DEF RenderInv, ReadInv
  <2>8. /\ fileFrames' \in 0 .. MaxFileFrames /\ mCurrentPacket' \in 0 .. fileFrames'
        /\ rendered' \in 0 .. mCurrentPacket' /\ (mCurrentPacket' > 0 => mNumPacketsToRead' > 0)
    BY <1>1, <2>1, <2>2 DEF RenderInv, ReadInv
  <2>9. mCurrentPacket' = mCurrentPacket /\ fileFrames' = fileFrames
    BY <1>1
  <2> HIDE DEF n
  <2> QED BY <2>4, <2>5, <2>6, <2>7, <2>8, <2>9, Zenon DEF ReadInv
<1>6. captured' \in Seq(Frames)' /\ Len(captured') = n
  <2>1. \A i \in 1 .. n : rendered + i \in 1 .. fileFrames
    BY <1>3, <1>4
  <2> QED BY <1>1, <1>4, <2>1 DEF Frames
<1>7. added = rendered /\ phase = "open"
  BY <1>1 DEF RenderInv, Rendering
<1>8. added' \in 0 .. rendered' /\ added' + Len(captured') = rendered'
  BY <1>1, <1>3, <1>4, <1>6, <1>7
<1>9. captured' = [i \in 1 .. Len(captured') |-> added' + i]
  BY <1>1, <1>6, <1>7
<1> QED BY <1>1, <1>2, <1>5, <1>6, <1>7, <1>8, <1>9 DEF RenderInv, Rendering

\* A call that fails.
LEMMA RenderFailsKeeps ==
  ASSUME RenderInv, StoreKept, RenderFails PROVE RenderInv' /\ StoreKept'
<1>1. /\ pc = "render" /\ pc' = "analyse"
      /\ UNCHANGED <<fileFrames, renderVars, added, phase>>
      /\ UNCHANGED <<store, readIteration>>
  BY DEF RenderFails, Caught, storeVars
<1> QED BY <1>1, StoreQuiet, RenderQuiet, ReadIterationIs

\* A piece in hand is the next one for the block store's client.
LEMMA PieceIs ==
  ASSUME RenderInv, StoreKept, pc = "deliver", captured # <<>>
  PROVE  LET n == Len(captured)
         IN  /\ n \in 1 .. MaxFileFrames /\ added + n = rendered /\ rendered <= fileFrames
             /\ fileFrames <= MaxFileFrames /\ captured \in Seq(Nat)
             /\ captured = Piece(n)
             /\ StoreInv /\ phase = "open" /\ added \in Nat
<1> DEFINE n == Len(captured)
<1>1. /\ captured \in Seq(Frames) /\ phase = "open" /\ added \in 0 .. rendered
      /\ added + n = rendered /\ captured = [i \in 1 .. n |-> added + i]
  BY DEF RenderInv
<1>2. /\ fileFrames \in 0 .. MaxFileFrames /\ mCurrentPacket \in 0 .. fileFrames
      /\ rendered \in 0 .. mCurrentPacket /\ MaxFileFrames \in Nat
  BY ParserAssumption DEF RenderInv, ReadInv
<1>3. n \in Nat /\ n # 0
  BY <1>1, EmptySeq
<1>4. captured \in Seq(Nat)
  BY <1>1, <1>2 DEF Frames
<1>5. captured = Piece(n)
  BY <1>1 DEF Piece
<1>6. StoreInv
  BY DEF StoreKept
<1> HIDE DEF n
<1>7. n \in 1 .. MaxFileFrames /\ rendered <= fileFrames /\ fileFrames <= MaxFileFrames
  BY <1>1, <1>2, <1>3
<1> QED BY <1>1, <1>4, <1>5, <1>6, <1>7 DEF n

\* A piece that fits keeps the store in order, and one that does not overruns the partial
\* store, or an assertion fails before it does.
LEMMA PieceKeeps ==
  ASSUME RenderInv, StoreKept, pc = "deliver", captured # <<>>,
         AddFrames(captured) \/ AddFramesRaises(captured)
  PROVE  /\ Overrun' => StoreTypeOK'
         /\ ~ Overrun' => StoreInv'
<1>1. PICK n \in Nat \ {0} : captured = Piece(n)
  <2>1. Len(captured) \in Nat \ {0}
    BY PieceIs
  <2> QED BY <2>1, PieceIs
<1>2. StoreInv /\ phase = "open" /\ AddPiece(n)
  BY <1>1, PieceIs DEF AddPiece
<1>3. StoreInv' => StoreTypeOK'
  BY DEF StoreInv
<1>4. CASE Fits(n)
  <2>1. StoreInv'
    BY <1>2, <1>4, FitKeeps
  <2> QED BY <1>3, <2>1
<1>5. CASE ~ Fits(n)
  BY <1>2, <1>5, MisfitOverruns
<1> QED BY <1>4, <1>5

LEMMA DeliverKeeps ==
  ASSUME RenderInv, StoreKept, Deliver PROVE RenderInv' /\ StoreKept'
<1>1. pc = "deliver" /\ UNCHANGED <<fileFrames, renderVars>>
  BY DEF Deliver
<1>2. CASE captured = <<>> /\ Caught /\ UNCHANGED storeVars
  <2>1. pc' = "analyse" /\ UNCHANGED <<store, readIteration, added, phase>>
    BY <1>2 DEF Caught, storeVars
  <2> QED BY <1>1, <2>1, StoreQuiet, RenderQuiet, ReadIterationIs
<1>3. CASE /\ captured # <<>>
           /\ AddFrames(captured) \/ AddFramesRaises(captured)
  <2> DEFINE n == Len(captured)
  <2>1. /\ Len(store'.partial) > BlockSize => pc' = "overrun"
        /\ ~ (Len(store'.partial) > BlockSize) =>
             pc' \in {"analyse"} \cup (IF mFlushed THEN {"complete"} ELSE {"render"})
        /\ pc' \in {"complete", "render"} => AddFrames(captured)
        /\ pc' # "analyse" => pc' \in {"overrun", "complete", "render"}
    BY <1>3 DEF Deliver, Caught
  <2>2. StoreKept'
    <3>1. /\ Len(store'.partial) > BlockSize => StoreTypeOK'
          /\ ~ (Len(store'.partial) > BlockSize) => StoreInv'
      BY <1>1, <1>3, PieceKeeps DEF Overrun
    <3>2. CASE Len(store'.partial) > BlockSize
      BY <2>1, <3>1, <3>2 DEF StoreKept
    <3>3. CASE ~ (Len(store'.partial) > BlockSize)
      <4>1. pc' # "overrun"
        BY <2>1, <3>3
      <4> QED BY <3>1, <3>3, <4>1 DEF StoreKept
    <3> QED BY <3>2, <3>3
  <2>3. /\ n \in Nat /\ n > 0 /\ added + n = rendered /\ added \in Nat /\ rendered \in Nat
        /\ phase = "open"
    <3>1. n \in 1 .. MaxFileFrames
      BY <1>1, <1>3, PieceIs
    <3> QED BY <1>1, <1>3, <3>1, PieceIs DEF RenderInv, ReadInv
  <2>4. added' = rendered /\ phase' \in {"open", "raised"}
    BY <1>3, <2>3 DEF AddFrames, AddFramesRaises
  <2>5. pc' \in {"complete", "render"} => phase' = "open"
    BY <2>1, <2>3 DEF AddFrames
  <2>6. ASSUME pc' = "complete" PROVE rendered = fileFrames
    <3>1. mFlushed
      <4>1. ~ (Len(store'.partial) > BlockSize)
        BY <2>1, <2>6
      <4> QED BY <2>1, <2>6, <4>1
    <3>2. rendered > 0
      BY <2>3
    <3> QED BY <3>1, <3>2 DEF RenderInv, ReadInv
  <2>7. /\ UNCHANGED <<fileFrames, mCurrentPacket, rendered, mFlushed, mDone, callbackDue>>
        /\ captured' = captured
    BY <1>1 DEF renderVars
  <2>8. ReadInv'
    BY <2>7 DEF RenderInv, ReadInv, mNumPacketsToRead, bufferByteSize
  <2>9. pc' \in {"analyse", "overrun", "complete", "render"}
    BY <2>1
  <2> HIDE DEF n
  <2>10. RenderInv'
    BY <2>3, <2>4, <2>5, <2>6, <2>7, <2>8, <2>9 DEF RenderInv, Rendering, Analysing, Frames
  <2> QED BY <2>2, <2>10
<1> QED BY <1>2, <1>3 DEF Deliver

LEMMA CompleteKeeps ==
  ASSUME RenderInv, StoreKept, Complete PROVE RenderInv' /\ StoreKept'
<1>1. /\ pc = "complete" /\ pc' = "analyse" /\ CloseInput
      /\ UNCHANGED <<fileFrames, renderVars>>
  BY DEF Complete
<1>2. phase = "open" /\ added = fileFrames /\ StoreInv
  BY <1>1 DEF RenderInv, Rendering, StoreKept
<1>3. Close
  BY <1>1, <1>2 DEF Close
<1>4. StoreInv'
  BY <1>2, <1>3, CloseStep
<1>5. phase' = "closed" /\ added' = added
  BY <1>1 DEF CloseInput
<1>6. /\ UNCHANGED <<fileFrames, mCurrentPacket, rendered, mFlushed, mDone, callbackDue>>
      /\ captured' = captured
  BY <1>1 DEF renderVars
<1>7. ReadInv'
  BY <1>6 DEF RenderInv, ReadInv, mNumPacketsToRead, bufferByteSize
<1>8. RenderInv'
  BY <1>1, <1>2, <1>5, <1>6, <1>7 DEF RenderInv, Rendering, Analysing, Frames
<1> QED BY <1>1, <1>4, <1>8 DEF StoreKept


-----------------------------------------------------------------------------
(* Analysing.                                                              *)

\* What there is to analyse, ...
Length == IF phase = "closed" THEN fileFrames ELSE Len(store.blocks) * BlockSize

\* ... frame by frame, zeros following.
Sample(k) == IF k <= Length THEN k ELSE 0

\* The samples are those of the blocks read, and a hop of zeros after the flush.
AnalysisInv ==
  /\ busy \in {"idle", "processForwards"} /\ out = <<>>
  /\ busy # "idle" => pc \in {"analyse", "check"}
  /\ pc \in Rendering \cup {"overrun"} =>
       samples = <<>> /\ windows = <<>> /\ readIteration = 0
  /\ flushed <=> pc \in {"check", "done", "raised"}
  /\ flushed => readIteration = Len(store.blocks)
  /\ pc \in Analysing => readIteration <= Len(store.blocks)
  /\ Len(samples) = readIteration * BlockSize
                      + (IF flushed /\ readIteration > 0 THEN HopSize ELSE 0)
  /\ \A k \in 1 .. Len(samples) : samples[k] = Sample(k)
  /\ pc = "overrun" => phase # "closed"

RingKept == RingFacts!InputInv /\ RingFacts!FlushInv

\* A block holds BlockSize frames.
LEMMA BlockSizes ==
  ASSUME NEW i \in Nat, NEW n \in Nat
  PROVE  /\ BlockSize \in Nat /\ BlockSize > 1 /\ HopSize \in Nat \ {0}
         /\ FFTSize = BlockSize /\ BlockSize = 2 * HopSize
         /\ i * BlockSize \in Nat /\ (i + 1) * BlockSize = i * BlockSize + BlockSize
         /\ i <= n => i * BlockSize <= n * BlockSize
         /\ i < n => i * BlockSize + BlockSize <= n * BlockSize
<1>1. BlockSize \in Nat /\ BlockSize > 1 /\ FFTSize = BlockSize /\ HopSize \in Nat
      /\ BlockSize = 2 * HopSize
  BY ParserAssumption, StoreAssumption
<1>2. HopSize \in Nat \ {0}
  BY <1>1
<1>3. ASSUME NEW b \in Nat
      PROVE  /\ i * b \in Nat /\ (i + 1) * b = i * b + b
             /\ i <= n => i * b <= n * b
             /\ i < n => i * b + b <= n * b
  <2>1. i * b \in Nat /\ (i + 1) * b = i * b + b
    OBVIOUS
  <2>2. ASSUME i <= n PROVE i * b <= n * b
    <3>1. PICK d \in Nat : n = i + d
      BY <2>2
    <3>2. (i + d) * b = i * b + d * b /\ d * b \in Nat /\ i * b \in Nat
      OBVIOUS
    <3> QED BY <3>1, <3>2
  <2>3. ASSUME i < n PROVE i * b + b <= n * b
    <3>1. PICK d \in Nat : n = (i + 1) + d
      BY <2>3
    <3>2. ((i + 1) + d) * b = (i + 1) * b + d * b /\ d * b \in Nat
      OBVIOUS
    <3> QED BY <2>1, <3>1, <3>2
  <2> QED BY <2>1, <2>2, <2>3
<1> QED BY <1>1, <1>2, <1>3

\* What is in the blocks before there is an overrun.
LEMMA BlocksBefore ==
  ASSUME RenderInv, StoreKept, pc # "overrun"
  PROVE  /\ Len(store.blocks) \in Nat /\ fileFrames \in Nat /\ added \in Nat
         /\ phase # "closed" => Len(store.blocks) * BlockSize <= added
         /\ phase = "closed" => fileFrames <= Len(store.blocks) * BlockSize /\ added = fileFrames
         /\ added <= fileFrames
         /\ StoreInv
<1>1. StoreInv
  BY DEF StoreKept
<1>2. /\ store \in [blocks : Seq([1 .. BlockSize -> Nat]), partial : Seq(Nat)]
      /\ added \in Nat
  BY <1>1 DEF StoreInv, StoreTypeOK
<1>3. Len(store.blocks) \in Nat /\ Len(store.partial) \in Nat
  BY <1>2
<1>4. fileFrames \in Nat /\ added <= fileFrames
  BY DEF RenderInv, ReadInv
<1>5. ASSUME phase # "closed" PROVE Len(store.blocks) * BlockSize <= added
  <2>1. Len(store.blocks) * BlockSize + Len(store.partial) <= added
    BY <1>1, <1>5 DEF StoreInv, Filled, InBlocks
  <2>2. Len(store.blocks) * BlockSize \in Nat
    BY <1>3, BlockSizes
  <2> QED BY <1>2, <1>3, <2>1, <2>2
<1>6. ASSUME phase = "closed"
      PROVE  fileFrames <= Len(store.blocks) * BlockSize /\ added = fileFrames
  <2>1. added = fileFrames /\ NothingLost /\ ~ Overrun
    BY <1>1, <1>6 DEF RenderInv, StoreInv
  <2>2. Len(store.blocks) * BlockSize >= added /\ Len(store.blocks) * BlockSize \in Nat
    BY <1>3, <1>6, <2>1, BlockSizes DEF NothingLost
  <2> QED BY <1>4, <2>1, <2>2
<1> QED BY <1>1, <1>2, <1>3, <1>4, <1>5, <1>6

\* What there is to analyse is in the blocks, at its place.
LEMMA BlocksHold ==
  ASSUME RenderInv, StoreKept, pc # "overrun"
  PROVE  /\ Length \in Nat /\ Length <= Len(store.blocks) * BlockSize
         /\ Length <= fileFrames
         /\ \A i \in 1 .. Len(store.blocks) :
              /\ store.blocks[i] \in Seq(Nat) /\ Len(store.blocks[i]) = BlockSize
              /\ \A j \in 1 .. BlockSize :
                   store.blocks[i][j] = Sample((i - 1) * BlockSize + j)
<1>1. /\ Len(store.blocks) \in Nat /\ fileFrames \in Nat /\ added \in Nat
      /\ phase # "closed" => Len(store.blocks) * BlockSize <= added
      /\ phase = "closed" => fileFrames <= Len(store.blocks) * BlockSize /\ added = fileFrames
      /\ added <= fileFrames /\ StoreInv
  BY BlocksBefore
<1> DEFINE b == Len(store.blocks) * BlockSize
<1>2. b \in Nat
  BY <1>1, BlockSizes
<1>3. Length \in Nat /\ Length <= b /\ Length <= fileFrames
  <2>1. CASE phase = "closed"
    BY <1>1, <1>2, <2>1 DEF Length
  <2>2. CASE phase # "closed"
    BY <1>1, <1>2, <2>2 DEF Length
  <2> QED BY <2>1, <2>2
<1>4. ASSUME NEW i \in 1 .. Len(store.blocks), NEW j \in 1 .. BlockSize
      PROVE  store.blocks[i][j] = Sample((i - 1) * BlockSize + j)
  <2> DEFINE k == (i - 1) * BlockSize + j
  <2>1. store.blocks[i][j] = IF k <= added THEN k ELSE 0
    <3>1. BlocksInOrder
      BY <1>1, StoreInvImplies, NoOverrun DEF StoredInOrder
    <3> QED BY <3>1 DEF BlocksInOrder, FrameAt
  <2>2. k \in Nat /\ k <= b
    <3>1. i - 1 \in Nat /\ i - 1 < Len(store.blocks)
      BY <1>1
    <3>2. (i - 1) * BlockSize + BlockSize <= b /\ (i - 1) * BlockSize \in Nat
      BY <1>1, <3>1, BlockSizes
    <3> DEFINE c == (i - 1) * BlockSize
    <3>3. c \in Nat /\ c + BlockSize <= b /\ j \in 1 .. BlockSize /\ BlockSize \in Nat
      BY <3>2, BlockSizeNat
    <3> HIDE DEF c, b
    <3>4. c + j \in Nat /\ c + j <= b
      BY <1>2, <3>3
    <3> QED BY <3>4 DEF c
  <2> HIDE DEF k, b
  <2>3. (k <= added) <=> (k <= Length)
    <3>1. CASE phase = "closed"
      BY <1>1, <3>1 DEF Length
    <3>2. CASE phase # "closed"
      <4>1. Length = b /\ b <= added
        BY <1>1, <3>2 DEF Length, b
      <4> QED BY <1>1, <1>2, <2>2, <4>1
    <3> QED BY <3>1, <3>2
  <2>4. store.blocks[i][j] = Sample(k)
    BY <2>1, <2>3 DEF Sample
  <2> QED BY <2>4 DEF k
<1>5. ASSUME NEW i \in 1 .. Len(store.blocks)
      PROVE  store.blocks[i] \in Seq(Nat) /\ Len(store.blocks[i]) = BlockSize
  <2>1. store.blocks \in Seq([1 .. BlockSize -> Nat])
    BY <1>1 DEF StoreInv, StoreTypeOK
  <2>2. store.blocks[i] \in [1 .. BlockSize -> Nat]
    BY <2>1
  <2>3. BlockSize \in Nat
    BY ParserAssumption
  <2> DEFINE s == store.blocks[i]
  <2>4. s = [j \in 1 .. BlockSize |-> s[j]] /\ \A j \in 1 .. BlockSize : s[j] \in Nat
    BY <2>2
  <2> HIDE DEF s
  <2>5. s \in Seq(Nat) /\ Len(s) = BlockSize
    BY <2>3, <2>4
  <2> QED BY <2>5 DEF s
<1> QED BY <1>3, <1>4, <1>5

\* A step that leaves the samples, and what they are taken from, alone.
LEMMA RingQuiet == ASSUME RingKept, UNCHANGED ringVars PROVE RingKept'
<1>1. UNCHANGED RingFacts!ringVars
  BY DEF ringVars, RingFacts!ringVars, RingFacts!inVars, RingFacts!outVars, RingFacts!callVars
<1> QED BY <1>1, RingSizes, RingFacts!QuietKeeps DEF RingKept

\* While the file is rendered, nothing is analysed.
LEMMA RenderingKeeps ==
  ASSUME RingKept, AnalysisInv, pc \in Rendering, UNCHANGED <<ringVars, readIteration>>,
         pc' \in Rendering \cup {"analyse", "overrun"},
         pc' = "overrun" => phase' # "closed", Len(store.blocks)' \in Nat
  PROVE  RingKept' /\ AnalysisInv'
<1>1. RingKept'
  BY RingQuiet
<1>2. /\ busy' = busy /\ out' = out /\ samples' = samples /\ windows' = windows
      /\ flushed' = flushed /\ readIteration' = readIteration
  BY DEF ringVars
<1>3. samples = <<>> /\ windows = <<>> /\ readIteration = 0 /\ out = <<>>
  BY DEF AnalysisInv
<1>4. busy = "idle"
  BY DEF AnalysisInv, Rendering
<1>5. ~ flushed
  BY Zenon DEF AnalysisInv, Rendering
<1>6. ~ flushed' /\ pc' \notin {"check", "done", "raised"}
  BY <1>2, <1>5 DEF Rendering
<1>7. Len(samples') = 0 /\ readIteration' * BlockSize = 0
  BY <1>2, <1>3, BlockSizes
<1>8. Len(samples') = readIteration' * BlockSize
                        + (IF flushed' /\ readIteration' > 0 THEN HopSize ELSE 0)
  BY <1>6, <1>7
<1> QED BY <1>1, <1>2, <1>3, <1>4, <1>6, <1>7, <1>8 DEF AnalysisInv

\* Two sequences of samples.
LEMMA Joined ==
  ASSUME NEW s \in Seq(Nat), NEW t \in Seq(Nat)
  PROVE  /\ Len(s) \in Nat /\ Len(s \o t) = Len(s) + Len(t)
         /\ \A k \in 1 .. Len(s) : (s \o t)[k] = s[k]
         /\ \A k \in Len(s) + 1 .. Len(s) + Len(t) : (s \o t)[k] = t[k - Len(s)]
OBVIOUS

\* A block is put in behind those before.
LEMMA NextBlockKeeps ==
  ASSUME RenderInv, StoreKept, RingKept, AnalysisInv, NextBlock
  PROVE  RenderInv' /\ StoreKept' /\ RingKept' /\ AnalysisInv'
<1> DEFINE data == store.blocks[readIteration + 1]
           r == readIteration
<1>1. /\ pc = "analyse" /\ busy = "idle" /\ r < Len(store.blocks)
      /\ RingFacts!ProcessForwards(data)
      /\ pc' = pc /\ r' = r + 1 /\ UNCHANGED <<store, added, phase>>
      /\ UNCHANGED <<fileFrames, renderVars>>
  BY SameRing DEF NextBlock, HasMoreSamples, NextSamples
<1>2. r \in Nat /\ Len(store.blocks) \in Nat
  BY <1>1, ReadIterationIs, BlocksBefore
<1>3. RenderInv' /\ StoreKept'
  BY <1>1, <1>2, RenderQuiet, StoreQuiet
<1>4. /\ data \in Seq(Nat) /\ Len(data) = BlockSize
      /\ \A j \in 1 .. BlockSize : data[j] = Sample(r * BlockSize + j)
  <2>1. r + 1 \in 1 .. Len(store.blocks) /\ (r + 1) - 1 = r
    BY <1>1, <1>2
  <2> QED BY <1>1, <2>1, BlocksHold
<1> HIDE DEF data
<1>5. /\ RingFacts!CopyInput(data) /\ slice' = Len(data) /\ UNCHANGED RingFacts!outVars
      /\ busy' = "processForwards" /\ flushed' = flushed
  BY <1>1 DEF RingFacts!ProcessForwards, RingFacts!Begin
<1>6. ~ flushed
  BY <1>1, Zenon DEF AnalysisInv
<1>7. RingFacts!InputInv'
  <2>1. RingFacts!InputInv
    BY DEF RingKept
  <2>2. /\ Len(data) \in Nat /\ Len(data) <= BlockSize /\ Len(data) <= BlockSize + FFTSize
        /\ FFTSize > 0
    BY <1>4, BlockSizeNat, ParserAssumption
  <2>3. mInputSize + Len(data) <= mIOBufSize
    BY <1>1, <2>1, <2>2, RingSizes, RingFacts!RoomForSlice
  <2>4. flushed \in BOOLEAN
    BY <2>1 DEF RingFacts!InputInv, RingFacts!TypeOK
  <2>5. busy' \in {"processForwards", "process"} /\ flushed' \in BOOLEAN
    BY <1>5, <2>4, Zenon
  <2> QED BY <1>1, <1>4, <1>5, <2>1, <2>2, <2>3, <2>5, RingSizes,
            RingFacts!CopyInputKeeps
<1>8. RingKept'
  BY <1>5, <1>6, <1>7 DEF RingKept, RingFacts!FlushInv
<1>9. AnalysisInv'
  <2> DEFINE m == r * BlockSize
  <2>0. m \in Nat /\ (r + 1) * BlockSize = m + BlockSize
    BY <1>2, BlockSizes
  <2>1. samples \in Seq(Nat) /\ Len(samples) = m
    <3>1. samples \in Seq(Nat)
      BY DEF RingKept, RingFacts!InputInv, RingFacts!TypeOK
    <3>2. Len(samples) = m + (IF flushed /\ r > 0 THEN HopSize ELSE 0)
      BY Zenon DEF AnalysisInv
    <3>3. (IF flushed /\ r > 0 THEN HopSize ELSE 0) = 0
      BY <1>6, Zenon
    <3> HIDE DEF m
    <3> QED BY <2>0, <3>1, <3>2, <3>3
  <2>2. samples' = samples \o data /\ out' = out
    BY <1>5 DEF RingFacts!CopyInput, RingFacts!outVars
  <2>3. Length' = Length
    BY <1>1 DEF Length
  <2>4. Len(samples') = m + BlockSize
    <3> HIDE DEF m
    <3>1. Len(samples') = Len(samples) + Len(data)
      BY <1>4, <2>1, <2>2, Joined
    <3> QED BY <1>4, <2>1, <3>1
  <2>5. Len(samples') = r' * BlockSize
    BY <1>1, <2>0, <2>4
  <2>6. ASSUME NEW k \in 1 .. Len(samples') PROVE samples'[k] = Sample(k)
    <3>1. /\ m \in Nat /\ Len(samples) = m /\ BlockSize \in Nat /\ Len(data) = BlockSize
          /\ k \in 1 .. m + BlockSize
          /\ \A j \in 1 .. BlockSize : data[j] = Sample(m + j)
      BY <1>1, <1>4, <2>0, <2>1, <2>4, <2>6, BlockSizes
    <3> HIDE DEF m, r
    <3>2. CASE k <= m
      <4>1. samples'[k] = samples[k] /\ k \in 1 .. Len(samples)
        BY <1>4, <2>1, <2>2, <3>1, <3>2
      <4> QED BY <4>1 DEF AnalysisInv
    <3>3. CASE ~ (k <= m)
      <4>1. k \in m + 1 .. m + BlockSize /\ k - m \in 1 .. BlockSize /\ m + (k - m) = k
        BY <3>1, <3>3
      <4>2. samples'[k] = data[k - m]
        BY <1>4, <2>1, <2>2, <3>1, <4>1, Joined
      <4>3. data[k - m] = Sample(m + (k - m))
        BY <3>1, <4>1
      <4> QED BY <4>1, <4>2, <4>3
    <3> QED BY <3>2, <3>3
  <2>7. \A k \in 1 .. Len(samples') : samples'[k] = Sample(k)'
    BY <2>3, <2>6 DEF Sample
  <2>8. ~ flushed' /\ pc' = "analyse" /\ out' = <<>>
    BY <1>1, <1>5, <1>6, <2>2 DEF AnalysisInv
  <2>9. r' <= Len(store'.blocks)
    BY <1>1, <1>2
  <2> HIDE DEF r
  <2>10. Len(samples') = r' * BlockSize + (IF flushed' /\ r' > 0 THEN HopSize ELSE 0)
    <3>1. r' * BlockSize \in Nat
      BY <1>2, <1>1, BlockSizes DEF r
    <3> QED BY <2>5, <2>8, <3>1
  <2> QED BY <1>5, <2>7, <2>8, <2>9, <2>10 DEF AnalysisInv, Rendering, r
<1> QED BY <1>3, <1>8, <1>9

\* Spectra are made of samples that are there.
LEMMA SpectrumKeeps ==
  ASSUME RenderInv, StoreKept, RingKept, AnalysisInv, Spectrum
  PROVE  RenderInv' /\ StoreKept' /\ RingKept' /\ AnalysisInv'
<1>1. /\ RingFacts!NextWindow \/ RingFacts!Return
      /\ pc' = pc /\ UNCHANGED <<fileFrames, renderVars, store, readIteration, added, phase>>
  BY SameRing DEF Spectrum, storeVars
<1>2. RenderInv' /\ StoreKept'
  BY <1>1, ReadIterationIs, RenderQuiet, StoreQuiet
<1>3. RingKept'
  BY <1>1, RingSizes, RingFacts!NextWindowKeeps, RingFacts!ReturnKeeps DEF RingKept
<1>4. busy = "processForwards" /\ pc \in {"analyse", "check"}
  BY <1>1 DEF AnalysisInv, RingFacts!NextWindow, RingFacts!Return
<1>5. /\ samples' = samples /\ out' = out /\ busy' \in {"idle", "processForwards"}
      /\ flushed' = flushed
  <2>1. CASE RingFacts!NextWindow
    BY <1>4, <2>1 DEF RingFacts!NextWindow, RingFacts!CopyInputToFFT, RingFacts!outVars,
                      RingFacts!callVars
  <2>2. CASE RingFacts!Return
    BY <1>4, <2>2 DEF RingFacts!Return, RingFacts!outVars, RingFacts!inVars
  <2> QED BY <1>1, <2>1, <2>2
<1>6. readIteration' = readIteration /\ store' = store /\ Length' = Length /\ phase' = phase
  BY <1>1 DEF Length
<1>7. flushed' <=> pc' \in {"check", "done", "raised"}
  BY <1>1, <1>5, Zenon DEF AnalysisInv
<1>8. Len(samples') = readIteration' * BlockSize
                        + (IF flushed' /\ readIteration' > 0 THEN HopSize ELSE 0)
  BY <1>5, <1>6, Zenon DEF AnalysisInv
<1>9. \A k \in 1 .. Len(samples') : samples'[k] = Sample(k)'
  BY <1>5, <1>6 DEF AnalysisInv, Sample
<1>10. flushed' => readIteration' = Len(store'.blocks)
  BY <1>5, <1>6, Zenon DEF AnalysisInv
<1>11. /\ pc' \notin Rendering \cup {"overrun"} /\ readIteration' <= Len(store'.blocks)
       /\ out' = <<>>
  BY <1>1, <1>4, <1>5, <1>6 DEF AnalysisInv, Rendering, Analysing
<1>12. busy' # "idle" => pc' \in {"analyse", "check"}
  BY <1>1, <1>4
<1>13. /\ pc' \in Rendering \cup {"overrun"} =>
             samples' = <<>> /\ windows' = <<>> /\ readIteration' = 0
       /\ pc' \in Analysing => readIteration' <= Len(store'.blocks)
       /\ pc' = "overrun" => phase' # "closed"
  BY <1>11
<1>14. AnalysisInv'
  BY <1>5, <1>7, <1>8, <1>9, <1>10, <1>11, <1>12, <1>13, Zenon DEF AnalysisInv
<1> QED BY <1>2, <1>3, <1>14

\* Multiples of a hop.
LEMMA HopsAre ==
  ASSUME NEW x \in Int, x * HopSize >= HopSize, x * HopSize < 2 * HopSize
  PROVE  x = 1
<1>1. HopSize \in Nat \ {0}
  BY BlockSizes
<1>2. SUFFICES ASSUME x - 1 # 0 PROVE FALSE
  OBVIOUS
<1>3. HopSize * (x - 1) >= HopSize \/ HopSize * (x - 1) <= -HopSize
  BY <1>1, <1>2, RingSizes, RingFacts!Multiple
<1>4. x * HopSize = HopSize * (x - 1) + HopSize /\ HopSize * (x - 1) \in Int
  BY <1>1
<1> QED BY <1>1, <1>3, <1>4

\* Between calls what is left of the blocks is a hop.
LEMMA HopIsLeft ==
  ASSUME StoreKept, RingKept, AnalysisInv, busy = "idle", ~ flushed
  PROVE  mInputSize = IF readIteration > 0 THEN HopSize ELSE 0
<1> DEFINE r == readIteration
           w == Len(windows)
           h == w * HopSize
           b == r * BlockSize
<1>1. r \in Nat /\ HopSize \in Nat \ {0} /\ BlockSize = 2 * HopSize /\ FFTSize = BlockSize
  BY ReadIterationIs, BlockSizes
<1>2. w \in Nat /\ mInputSize \in Nat
  BY DEF RingKept, RingFacts!InputInv, RingFacts!TypeOK
<1>3. b \in Nat /\ h \in Nat
  BY <1>1, <1>2, BlockSizes
<1>4. Len(samples) = b
  <2>1. Len(samples) = b + (IF flushed /\ r > 0 THEN HopSize ELSE 0)
    BY Zenon DEF AnalysisInv
  <2>2. (IF flushed /\ r > 0 THEN HopSize ELSE 0) = 0
    BY Zenon
  <2> HIDE DEF b, r
  <2> QED BY <1>3, <2>1, <2>2
<1>5. mInputSize = b - h
  BY <1>4 DEF RingKept, RingFacts!InputInv, RingFacts!Start
<1>6. mInputSize < 2 * HopSize
  <2>1. mInputSize < FFTSize
    BY RingSizes, RingFacts!BetweenCalls DEF RingKept
  <2> QED BY <1>1, <2>1
<1>7. CASE r = 0
  <2>1. b = 0
    BY <1>1, <1>7
  <2> HIDE DEF b, h, r
  <2> QED BY <1>2, <1>3, <1>5, <1>7, <2>1 DEF r
<1>8. CASE r # 0
  <2>1. b >= 2 * HopSize
    <3>1. PICK d \in Nat : r = d + 1
      BY <1>1, <1>8
    <3>2. (d + 1) * BlockSize = d * BlockSize + BlockSize /\ d * BlockSize \in Nat
      BY BlockSizes
    <3> QED BY <1>1, <3>1, <3>2
  <2>2. w # 0
    <3>1. ASSUME w = 0 PROVE FALSE
      <4>1. h = 0
        BY <1>1, <3>1
      <4> HIDE DEF b, h
      <4> QED BY <1>1, <1>3, <1>5, <1>6, <2>1, <4>1
    <3> QED BY <3>1
  <2>3. mInputSize >= HopSize
    <3>1. windows # <<>>
      BY <2>2
    <3>2. mInputSize >= FFTSize - HopSize
      BY <3>1 DEF RingKept, RingFacts!InputInv
    <3> QED BY <1>1, <1>2, <3>2
  <2> DEFINE x == 2 * r - w
  <2>4. x \in Int /\ x * HopSize = b - h
    BY <1>1, <1>2
  <2>5. x * HopSize >= HopSize /\ x * HopSize < 2 * HopSize
    BY <1>5, <1>6, <2>3, <2>4
  <2>6. x = 1
    <3> HIDE DEF x
    <3> QED BY <2>4, <2>5, HopsAre
  <2>7. x * HopSize = HopSize
    BY <1>1, <2>6
  <2> HIDE DEF x, b, h
  <2>8. mInputSize = HopSize
    BY <1>5, <2>4, <2>7
  <2> QED BY <1>1, <1>8, <2>8
<1> QED BY <1>7, <1>8

\* The flush adds a hop of zeros, if there is anything at all.
LEMMA FlushSpectraKeeps ==
  ASSUME RenderInv, StoreKept, RingKept, AnalysisInv, FlushSpectra
  PROVE  RenderInv' /\ StoreKept' /\ RingKept' /\ AnalysisInv'
<1> DEFINE r == readIteration
           zeros == [i \in 1 .. FFTSize - mInputSize |-> 0]
<1>1. /\ pc = "analyse" /\ busy = "idle" /\ ~ (r < Len(store.blocks))
      /\ RingFacts!FlushForward /\ pc' = "check"
      /\ UNCHANGED <<fileFrames, renderVars, store, readIteration, added, phase>>
  BY SameRing DEF FlushSpectra, HasMoreSamples, storeVars
<1>2. RenderInv' /\ StoreKept'
  BY <1>1, ReadIterationIs, RenderQuiet, StoreQuiet
<1>3. ~ flushed /\ out = <<>>
  BY <1>1, Zenon DEF AnalysisInv
<1>4. RingFacts!Flush
  BY <1>1, <1>3 DEF RingFacts!Flush
<1>5. RingKept'
  BY <1>4, RingSizes, RingFacts!FlushKeeps DEF RingKept
<1>6. /\ r \in Nat /\ Len(store.blocks) \in Nat /\ r = Len(store.blocks)
      /\ r * BlockSize \in Nat
      /\ Length \in Nat /\ Length <= r * BlockSize
  <2>1. r \in Nat /\ Len(store.blocks) \in Nat
    BY <1>1, ReadIterationIs, BlocksBefore
  <2>2. r <= Len(store.blocks)
    BY <1>1 DEF AnalysisInv, Analysing
  <2>3. r = Len(store.blocks)
    BY <1>1, <2>1, <2>2
  <2>4. Length \in Nat /\ Length <= r * BlockSize
    BY <1>1, <2>3, BlocksHold
  <2> QED BY <2>1, <2>3, <2>4, BlockSizes
<1>7. mInputSize = IF r > 0 THEN HopSize ELSE 0
  BY <1>1, <1>3, HopIsLeft
<1>8. samples \in Seq(Nat) /\ Len(samples) = r * BlockSize
  <2>1. samples \in Seq(Nat)
    BY DEF RingKept, RingFacts!InputInv, RingFacts!TypeOK
  <2>2. Len(samples) = r * BlockSize + (IF flushed /\ r > 0 THEN HopSize ELSE 0)
    BY Zenon DEF AnalysisInv
  <2>3. (IF flushed /\ r > 0 THEN HopSize ELSE 0) = 0
    BY <1>3, Zenon
  <2> HIDE DEF r
  <2> QED BY <1>6, <2>1, <2>2, <2>3
<1>9. Length' = Length
  BY <1>1 DEF Length
<1>10. /\ flushed' = TRUE /\ out' = out /\ busy' \in {"idle", "processForwards"}
       /\ Len(samples') = r * BlockSize + (IF r > 0 THEN HopSize ELSE 0)
       /\ \A k \in 1 .. Len(samples') : samples'[k] = Sample(k)
  <2>1. flushed' = TRUE
    BY <1>1 DEF RingFacts!FlushForward
  <2>2. CASE r > 0
    <3>1. mInputSize = HopSize /\ HopSize \in Nat \ {0} /\ FFTSize = 2 * HopSize
      BY <1>7, <2>2, BlockSizes
    <3>2. RingFacts!Begin("processForwards", zeros)
      BY <1>1, <3>1 DEF RingFacts!FlushForward
    <3>3. zeros \in Seq(Nat) /\ Len(zeros) = HopSize /\ \A i \in 1 .. HopSize : zeros[i] = 0
      BY <3>1
    <3> HIDE DEF zeros
    <3>4. samples' = samples \o zeros /\ out' = out /\ busy' = "processForwards"
      BY <3>2 DEF RingFacts!Begin, RingFacts!CopyInput, RingFacts!outVars
    <3>5. Len(samples') = Len(samples) + HopSize
      BY <1>8, <3>3, <3>4, Joined
    <3>6. ASSUME NEW k \in 1 .. Len(samples') PROVE samples'[k] = Sample(k)
      <4> DEFINE m == r * BlockSize
      <4>1. m \in Nat /\ Len(samples) = m /\ Length <= m /\ Length \in Nat
            /\ k \in 1 .. m + HopSize
        BY <1>6, <1>8, <3>5
      <4> HIDE DEF m
      <4>2. CASE k <= m
        <5>1. samples'[k] = samples[k] /\ k \in 1 .. Len(samples)
          BY <1>8, <3>3, <3>4, <4>1, <4>2, Joined
        <5> QED BY <5>1 DEF AnalysisInv
      <4>3. CASE ~ (k <= m)
        <5>1. k \in m + 1 .. m + HopSize /\ k - m \in 1 .. HopSize /\ ~ (k <= Length)
          BY <3>1, <4>1, <4>3
        <5>2. samples'[k] = zeros[k - m]
          BY <1>8, <3>3, <3>4, <4>1, <5>1, Joined
        <5> QED BY <3>3, <5>1, <5>2 DEF Sample
      <4> QED BY <4>2, <4>3
    <3> QED BY <1>8, <2>1, <2>2, <3>4, <3>5, <3>6
  <2>3. CASE ~ (r > 0)
    <3>1. mInputSize = 0 /\ r = 0
      BY <1>6, <1>7, <2>3
    <3>2. samples' = samples /\ out' = out /\ busy' = "idle"
      BY <1>1, <3>1 DEF RingFacts!FlushForward, RingFacts!inVars, RingFacts!outVars
    <3>3. \A k \in 1 .. Len(samples) : samples[k] = Sample(k)
      BY DEF AnalysisInv
    <3> HIDE DEF r
    <3>4. Len(samples') = r * BlockSize + (IF r > 0 THEN HopSize ELSE 0)
      BY <1>6, <1>8, <2>3, <3>2
    <3> QED BY <2>1, <3>2, <3>3, <3>4
  <2> QED BY <2>2, <2>3
<1>11. AnalysisInv'
  <2>1. readIteration' = readIteration /\ store' = store
    BY <1>1
  <2>2. flushed'
    BY <1>10, Zenon
  <2>3. Len(samples') = readIteration' * BlockSize
                          + (IF flushed' /\ readIteration' > 0 THEN HopSize ELSE 0)
    BY <1>10, <2>1, <2>2, Zenon
  <2>4. \A k \in 1 .. Len(samples') : samples'[k] = Sample(k)'
    BY <1>9, <1>10 DEF Sample
  <2>5. readIteration' = Len(store'.blocks) /\ readIteration' <= Len(store'.blocks)
    BY <1>6, <2>1
  <2>6. out' = <<>>
    BY <1>3, <1>10
  <2> QED BY <1>1, <1>10, <2>2, <2>3, <2>4, <2>5, <2>6 DEF AnalysisInv, Rendering, Analysing
<1> QED BY <1>2, <1>5, <1>11

\* Nothing follows the assertion.
LEMMA CheckCountKeeps ==
  ASSUME RenderInv, StoreKept, RingKept, AnalysisInv, CheckCount
  PROVE  RenderInv' /\ StoreKept' /\ RingKept' /\ AnalysisInv'
<1>1. /\ pc = "check" /\ busy = "idle" /\ pc' \in {"done", "raised"}
      /\ UNCHANGED <<fileFrames, renderVars, store, readIteration, added, phase, ringVars>>
  BY DEF CheckCount, storeVars
<1>2. RenderInv' /\ StoreKept' /\ RingKept'
  BY <1>1, ReadIterationIs, RenderQuiet, StoreQuiet, RingQuiet
<1>3. /\ busy' = busy /\ out' = out /\ samples' = samples /\ windows' = windows
      /\ flushed' = flushed /\ Length' = Length
  BY <1>1 DEF ringVars, Length
<1>4. flushed
  BY <1>1, Zenon DEF AnalysisInv
<1>5. flushed'
  BY <1>3, <1>4, Zenon
<1>6. \A k \in 1 .. Len(samples') : samples'[k] = Sample(k)'
  BY <1>3 DEF AnalysisInv, Sample
<1>7. Len(samples') = readIteration' * BlockSize
                        + (IF flushed' /\ readIteration' > 0 THEN HopSize ELSE 0)
  BY <1>1, <1>3, Zenon DEF AnalysisInv
<1>8. readIteration' = Len(store'.blocks) /\ readIteration' <= Len(store'.blocks)
  BY <1>1, <1>4 DEF AnalysisInv, Analysing
<1>9. out' = <<>> /\ busy' = "idle"
  BY <1>1, <1>3 DEF AnalysisInv
<1>10. AnalysisInv'
  BY <1>1, <1>5, <1>6, <1>7, <1>8, <1>9 DEF AnalysisInv, Rendering, Analysing
<1> QED BY <1>2, <1>10

-----------------------------------------------------------------------------
(* All of it.                                                              *)

ParserInv == RenderInv /\ StoreKept /\ RingKept /\ AnalysisInv

LEMMA ParserInvInit == Init => ParserInv
<1> SUFFICES ASSUME Init PROVE ParserInv
  OBVIOUS
<1>1. /\ pc = "setup" /\ fileFrames \in 0 .. MaxFileFrames
      /\ mCurrentPacket = 0 /\ rendered = 0 /\ captured = <<>>
      /\ mFlushed = FALSE /\ mDone = FALSE /\ callbackDue = FALSE
      /\ StoreInit /\ RingFacts!Init
  BY SameRing DEF Init
<1>2. added = 0 /\ phase = "open" /\ readIteration = 0 /\ store.blocks = <<>>
  BY <1>1 DEF StoreInit
<1>3. RenderInv
  <2>1. /\ MaxFileFrames \in Nat /\ 0 \in 0 .. fileFrames /\ 0 \in 0 .. 0
        /\ mCurrentPacket \in 0 .. fileFrames /\ rendered \in 0 .. mCurrentPacket
        /\ ~ (mCurrentPacket > 0)
    BY <1>1, ParserAssumption
  <2>2. ReadInv
    BY <1>1, <2>1 DEF ReadInv
  <2>3. captured \in Seq(Frames) /\ added \in 0 .. rendered
    BY <1>1, <1>2
  <2> QED BY <1>1, <1>2, <2>2, <2>3 DEF RenderInv, Rendering, Analysing
<1>4. StoreKept
  BY <1>1, StoreInvInit DEF StoreKept
<1>5. RingKept
  BY <1>1, RingSizes, RingFacts!InputInit DEF RingKept
<1>6. /\ samples = <<>> /\ windows = <<>> /\ out = <<>> /\ busy = "idle" /\ flushed = FALSE
  BY <1>1 DEF RingFacts!Init
<1>7. Len(samples) = readIteration * BlockSize
                       + (IF flushed /\ readIteration > 0 THEN HopSize ELSE 0)
  BY <1>2, <1>6, BlockSizes
<1>8. AnalysisInv
  BY <1>1, <1>2, <1>6, <1>7 DEF AnalysisInv, Rendering, Analysing
<1> QED BY <1>3, <1>4, <1>5, <1>8 DEF ParserInv

\* The steps of the rendering.
RenderingStep ==
  SetUp \/ Prime \/ Callback \/ Render \/ RenderFails \/ Deliver \/ Complete

\* They keep to the rendering until they give up.
LEMMA RenderingStepIs ==
  ASSUME RenderInv, RenderingStep
  PROVE  /\ pc \in Rendering /\ pc' \in Rendering \cup {"analyse", "overrun"}
         /\ UNCHANGED <<fileFrames, ringVars, readIteration>>
         /\ phase' = "closed" => phase = "closed" \/ pc = "complete"
         /\ pc' \in Rendering => phase' = "open"
<1>1. CASE SetUp \/ Prime \/ Callback \/ Render \/ RenderFails
  <2>1. /\ pc \in {"setup", "prime", "render", "deliver"}
        /\ pc' \in Rendering \cup {"analyse"}
        /\ UNCHANGED <<fileFrames, ringVars, storeVars>>
    BY <1>1 DEF SetUp, Prime, Callback, Render, RenderFails, Caught, Rendering
  <2>2. UNCHANGED <<readIteration, phase>>
    BY <2>1 DEF storeVars
  <2> QED BY <2>1, <2>2 DEF RenderInv, Rendering
<1>2. CASE Deliver
  <2>1. /\ pc = "deliver" /\ pc' \in {"analyse", "overrun", "complete", "render"}
        /\ UNCHANGED <<fileFrames, ringVars>>
    BY <1>2 DEF Deliver, Caught
  <2>2. UNCHANGED readIteration /\ phase' \in {phase, "raised"}
        /\ (phase' = "raised" => phase = "raised" \/ pc' \in {"analyse", "overrun"})
    BY <1>2 DEF Deliver, AddFrames, AddFramesRaises, storeVars
  <2>3. phase = "open"
    BY <2>1 DEF RenderInv
  <2> QED BY <2>1, <2>2, <2>3 DEF Rendering
<1>3. CASE Complete
  BY <1>3 DEF Complete, CloseInput, Rendering
<1> QED BY <1>1, <1>2, <1>3 DEF RenderingStep

LEMMA RenderingStepKeeps == ASSUME ParserInv, RenderingStep PROVE ParserInv'
<1>1. RenderInv /\ StoreKept /\ RingKept /\ AnalysisInv
  BY DEF ParserInv
<1>2. RenderInv' /\ StoreKept'
  BY <1>1, SetUpKeeps, CallbackKeeps, RenderKeeps, RenderFailsKeeps, DeliverKeeps,
     CompleteKeeps
  DEF RenderingStep
<1>3. /\ pc \in Rendering /\ pc' \in Rendering \cup {"analyse", "overrun"}
      /\ UNCHANGED <<ringVars, readIteration>>
      /\ phase' = "closed" => phase = "closed" \/ pc = "complete"
  BY <1>1, RenderingStepIs
<1>4. pc' = "overrun" => phase' # "closed"
  <2> SUFFICES ASSUME pc' = "overrun" PROVE phase' # "closed"
    OBVIOUS
  <2>1. Deliver
    BY DEF RenderingStep, SetUp, Prime, Callback, Render, RenderFails, Complete, Caught
  <2>2. pc = "deliver" /\ phase = "open"
    BY <1>1, <2>1 DEF Deliver, RenderInv
  <2> QED BY <1>3, <2>2
<1>5. Len(store.blocks)' \in Nat
  BY <1>2 DEF StoreKept, StoreInv, StoreTypeOK
<1>6. RingKept' /\ AnalysisInv'
  BY <1>1, <1>3, <1>4, <1>5, RenderingKeeps
<1> QED BY <1>2, <1>6 DEF ParserInv

LEMMA ParserInvStutters == ASSUME ParserInv, UNCHANGED vars PROVE ParserInv'
<1>1. /\ pc' = pc /\ UNCHANGED <<fileFrames, renderVars, store, readIteration, added, phase>>
      /\ UNCHANGED ringVars
  BY DEF vars, storeVars
<1>2. RenderInv' /\ StoreKept' /\ RingKept'
  BY <1>1, ReadIterationIs, RenderQuiet, StoreQuiet, RingQuiet DEF ParserInv
<1>3. /\ UNCHANGED <<busy, out, samples, windows, flushed>>
      /\ Length' = Length
  BY <1>1 DEF ringVars, Length
<1>4. AnalysisInv
  BY DEF ParserInv
<1>5. \A k \in 1 .. Len(samples') : samples'[k] = Sample(k)'
  BY <1>3, <1>4 DEF AnalysisInv, Sample
<1>6. AnalysisInv'
  BY <1>1, <1>3, <1>4, <1>5, Zenon DEF AnalysisInv
<1> QED BY <1>2, <1>6 DEF ParserInv

LEMMA ParserInvStep == ParserInv /\ [Next]_vars => ParserInv'
<1> SUFFICES ASSUME ParserInv, [Next]_vars PROVE ParserInv'
  OBVIOUS
<1>1. CASE RenderingStep
  BY <1>1, RenderingStepKeeps
<1>2. CASE NextBlock
  BY <1>2, NextBlockKeeps DEF ParserInv
<1>3. CASE Spectrum
  BY <1>3, SpectrumKeeps DEF ParserInv
<1>4. CASE FlushSpectra
  BY <1>4, FlushSpectraKeeps DEF ParserInv
<1>5. CASE CheckCount
  BY <1>5, CheckCountKeeps DEF ParserInv
<1>6. CASE Ended \/ UNCHANGED vars
  BY <1>6, ParserInvStutters DEF Ended
<1> QED BY <1>1, <1>2, <1>3, <1>4, <1>5, <1>6 DEF Next, RenderingStep

LEMMA ParserInvHolds == Spec => []ParserInv
BY ParserInvInit, ParserInvStep, PTL DEF Spec

\* The sizes and kinds of all that is kept.
THEOREM TypesAreRight == Spec => []TypeOK
<1>1. ASSUME ParserInv PROVE TypeOK
  <2>1. StoreTypeOK
    BY <1>1 DEF ParserInv, StoreKept, StoreInv
  <2>2. RingFacts!TypeOK
    BY <1>1 DEF ParserInv, RingKept, RingFacts!InputInv
  <2>3. StoreTypeOK /\ Spectral!TypeOK
    BY <2>1, <2>2, SameRing
  <2> QED BY <1>1, <2>3 DEF ParserInv, RenderInv, ReadInv, TypeOK, Rendering, Analysing
<1> QED BY <1>1, ParserInvHolds, PTL

\* Reading a second at a time, rendering half a buffer at a time and cutting into blocks
\* lose nothing: when the consumer is told that the file is complete, it is, unless a call
\* failed or an assertion was raised before.
THEOREM FilesAreStoredWhole == Spec => []WholeFileStored
<1>1. ASSUME ParserInv PROVE WholeFileStored
  <2> SUFFICES ASSUME phase = "closed" PROVE added = fileFrames /\ NothingLost
    BY DEF WholeFileStored
  <2>1. pc # "overrun" /\ added = fileFrames
    BY <1>1 DEF ParserInv, AnalysisInv, RenderInv
  <2>2. NothingLost
    BY <1>1, <2>1, StoreInvImplies DEF ParserInv, StoreKept
  <2> QED BY <2>1, <2>2
<1> QED BY <1>1, ParserInvHolds, PTL

-----------------------------------------------------------------------------
(* The spectra.                                                            *)

\* A spectrum is FFTSize samples, and those are the frames, with zeros after them.
LEMMA SpectraAre ==
  ASSUME RingKept, AnalysisInv, NEW w \in 1 .. Len(windows)
  PROVE  /\ (w - 1) * HopSize \in Nat
         /\ windows[w] = [i \in 1 .. FFTSize |-> Sample((w - 1) * HopSize + i)]
<1> DEFINE a == (w - 1) * HopSize
<1>1. /\ samples \in Seq(Nat) /\ windows[w] = SubSeq(samples, a + 1, a + FFTSize)
      /\ a + FFTSize <= Len(samples)
  BY DEF RingKept, RingFacts!InputInv, RingFacts!TypeOK, RingFacts!WindowsOverlap,
         RingFacts!WindowStart
<1>2. a \in Nat /\ FFTSize \in Nat \ {0}
  <2>1. w - 1 \in Nat /\ HopSize \in Nat
    BY BlockSizes DEF RingKept, RingFacts!InputInv, RingFacts!TypeOK
  <2> QED BY <2>1, BlockSizeNat, ParserAssumption
<1> HIDE DEF a
<1>3. windows[w] = [i \in 1 .. FFTSize |-> samples[a + i]]
  BY <1>1, <1>2
<1>4. \A i \in 1 .. FFTSize : a + i \in 1 .. Len(samples)
  BY <1>1, <1>2
<1>5. \A i \in 1 .. FFTSize : samples[a + i] = Sample(a + i)
  BY <1>4 DEF AnalysisInv
<1>6. windows[w] = [i \in 1 .. FFTSize |-> Sample(a + i)]
  BY <1>3, <1>5
<1> QED BY <1>2, <1>6 DEF a

\* After the flush there are two spectra for each block, up to the last frame.
LEMMA SpectraReachTheEnd ==
  ASSUME ParserInv, Processed
  PROVE  /\ Len(windows) \in Nat /\ Len(windows) * HopSize \in Nat
         /\ Length \in Nat /\ Length <= Len(windows) * HopSize
         /\ Length <= fileFrames
         /\ Len(windows) * HopSize = Len(store.blocks) * BlockSize
<1> DEFINE r == readIteration
           h == Len(windows) * HopSize
           b == r * BlockSize
<1>1. RenderInv /\ StoreKept /\ RingKept /\ AnalysisInv
  BY DEF ParserInv
<1>2. flushed /\ pc # "overrun" /\ busy = "idle"
  <2>1. pc \in {"check", "done", "raised"} /\ busy = "idle"
    BY <1>1 DEF Processed, AnalysisInv
  <2>2. flushed
    BY <1>1, <2>1, Zenon DEF AnalysisInv
  <2> QED BY <2>1, <2>2
<1>3. r \in Nat /\ Len(store.blocks) \in Nat /\ r = Len(store.blocks)
  BY <1>1, <1>2, ReadIterationIs, BlocksBefore DEF AnalysisInv
<1>4. Length \in Nat /\ Length <= b /\ Length <= fileFrames
  BY <1>1, <1>2, <1>3, BlocksHold
<1>5. Len(windows) \in Nat /\ samples \in Seq(Nat) /\ mInputSize \in Nat
  BY <1>1 DEF RingKept, RingFacts!InputInv, RingFacts!TypeOK
<1>6. /\ b \in Nat /\ h \in Nat /\ HopSize \in Nat \ {0} /\ FFTSize = 2 * HopSize
      /\ BlockSize = 2 * HopSize
  <2>1. b \in Nat /\ HopSize \in Nat \ {0} /\ FFTSize = 2 * HopSize /\ BlockSize = 2 * HopSize
    BY <1>3, BlockSizes
  <2>2. h \in Nat
    BY <1>5, <2>1
  <2> QED BY <2>1, <2>2
<1>7. Len(samples) = b + (IF r > 0 THEN HopSize ELSE 0)
  BY <1>1, <1>2, Zenon DEF AnalysisInv
<1>8. mInputSize = Len(samples) - h
  BY <1>1 DEF RingKept, RingFacts!InputInv, RingFacts!Start
<1>9. CASE r = 0
  <2>1. b = 0
    BY <1>6, <1>9
  <2>2. Len(samples) = 0
    BY <1>3, <1>7, <1>9, <2>1
  <2> HIDE DEF b, h
  <2>3. h = 0
    BY <1>5, <1>6, <1>8, <2>2
  <2> QED BY <1>3, <1>4, <1>5, <1>6, <2>1, <2>3 DEF b, h
<1>10. CASE r # 0
  <2>1. r > 0
    BY <1>3, <1>10
  <2> HIDE DEF b, h, r
  <2>2. Len(samples) = b + HopSize
    BY <1>7, <2>1
  <2>3. samples # <<>>
    BY <1>6, <2>2
  <2>4. mInputSize = FFTSize - HopSize
    BY <1>1, <1>2, <2>3, Zenon DEF RingKept, RingFacts!FlushInv
  <2>5. b = h
    BY <1>6, <1>8, <2>2, <2>4
  <2> QED BY <1>3, <1>4, <1>5, <1>6, <2>5 DEF b, h, r
<1> QED BY <1>9, <1>10

\* A frame is in the spectra of the hop it is in and of the hop before.
LEMMA FrameIsIn ==
  ASSUME ParserInv, Processed, phase = "closed", NEW f \in Frames
  PROVE  \E h \in 1 .. Len(windows) :
           /\ (h - 1) * HopSize < f /\ f <= (h - 1) * HopSize + HopSize
           /\ WindowsWith(f) = {h, h - 1} \ {0}
<1>1. RingKept /\ AnalysisInv
  BY DEF ParserInv
<1>2. /\ Len(windows) \in Nat /\ Len(windows) * HopSize \in Nat /\ Length = fileFrames
      /\ Length \in Nat /\ Length <= Len(windows) * HopSize
  BY <1>1, SpectraReachTheEnd DEF Length
<1>3. HopSize \in Nat \ {0} /\ FFTSize = 2 * HopSize
  BY BlockSizes
<1>4. f \in Nat /\ 1 <= f /\ f <= Length
  BY <1>2 DEF Frames
<1> DEFINE q == (f - 1) \div HopSize
           h == q + 1
<1>5. q \in Nat /\ q * HopSize <= f - 1 /\ f - 1 < q * HopSize + HopSize
  <2> DEFINE m == (f - 1) % HopSize
  <2>1. m \in 0 .. HopSize - 1 /\ q \in Int /\ f - 1 = HopSize * q + m /\ f - 1 \in Nat
    BY <1>3, <1>4, RingSizes, RingFacts!ModIs
  <2> HIDE DEF q, m
  <2>2. q * HopSize = HopSize * q /\ q * HopSize \in Int
    BY <1>3, <2>1
  <2>3. q * HopSize <= f - 1 /\ f - 1 < q * HopSize + HopSize
    BY <1>3, <2>1, <2>2
  <2>4. ASSUME q < 0 PROVE FALSE
    <3>1. PICK d \in Nat : q = -1 - d
      BY <2>1, <2>4
    <3>2. q * HopSize = -HopSize - d * HopSize /\ d * HopSize \in Nat
      BY <1>3, <3>1
    <3> QED BY <1>3, <1>4, <2>3, <3>2
  <2> QED BY <2>1, <2>3, <2>4
<1> HIDE DEF q
<1>6. h \in Nat /\ h - 1 = q /\ h \in 1 .. Len(windows)
  <2>1. ASSUME Len(windows) <= q PROVE FALSE
    <3>1. Len(windows) * HopSize <= q * HopSize /\ q * HopSize \in Nat
      <4>1. PICK d \in Nat : q = Len(windows) + d
        BY <1>2, <1>5, <2>1
      <4>2. /\ (Len(windows) + d) * HopSize = Len(windows) * HopSize + d * HopSize
            /\ d * HopSize \in Nat
        BY <1>2, <1>3
      <4> QED BY <1>2, <4>1, <4>2
    <3> QED BY <1>2, <1>4, <1>5, <3>1
  <2> QED BY <1>2, <1>5, <2>1
<1>7. ASSUME NEW w \in 1 .. Len(windows)
      PROVE  w \in WindowsWith(f) <=> w = h \/ w = h - 1
  <2> DEFINE a == (w - 1) * HopSize
             c == q * HopSize
  <2>1. /\ a \in Nat
        /\ windows[w] = [i \in 1 .. FFTSize |-> Sample(a + i)]
    BY <1>1, SpectraAre
  <2>2. c \in Nat /\ c <= f - 1 /\ f - 1 < c + HopSize
    BY <1>3, <1>5
  <2> HIDE DEF a, c
  <2>3. ASSUME NEW i \in 1 .. FFTSize
        PROVE  windows[w][i] = f <=> a + i = f
    <3>1. windows[w][i] = Sample(a + i)
      BY <2>1
    <3> QED BY <1>3, <1>4, <2>1, <3>1 DEF Sample
  <2>4. w \in WindowsWith(f) <=> a < f /\ f <= a + FFTSize
    <3>1. w \in WindowsWith(f) <=> \E i \in 1 .. FFTSize : a + i = f
      BY <2>3 DEF WindowsWith
    <3>2. ASSUME NEW i \in 1 .. FFTSize, a + i = f PROVE a < f /\ f <= a + FFTSize
      BY <1>3, <1>4, <2>1, <3>2
    <3>3. ASSUME a < f, f <= a + FFTSize PROVE f - a \in 1 .. FFTSize /\ a + (f - a) = f
      BY <1>3, <1>4, <2>1, <3>3
    <3> QED BY <3>1, <3>2, <3>3
  <2>5. w \in Nat /\ w - 1 \in Nat
    BY <1>2
  <2>6. CASE w - 1 = q
    <3>1. a = c
      BY <2>6 DEF a, c
    <3>2. a < f /\ f <= a + FFTSize
      BY <1>3, <1>4, <2>2, <3>1
    <3> QED BY <1>6, <2>4, <2>5, <2>6, <3>2
  <2>7. CASE w = q
    <3>1. c = a + HopSize
      <4>1. c = ((w - 1) + 1) * HopSize
        BY <2>5, <2>7 DEF c
      <4>2. ((w - 1) + 1) * HopSize = (w - 1) * HopSize + HopSize
        BY <1>3, <2>5
      <4> QED BY <4>1, <4>2 DEF a
    <3>2. a < f /\ f <= a + FFTSize
      BY <1>3, <1>4, <2>1, <2>2, <3>1
    <3> QED BY <1>6, <2>4, <2>5, <2>7, <3>2
  <2>8. CASE w - 1 > q
    <3>1. a >= c + HopSize
      <4>1. PICK d \in Nat : w - 1 = (q + 1) + d
        BY <1>5, <2>5, <2>8
      <4>2. ((q + 1) + d) * HopSize = q * HopSize + HopSize + d * HopSize /\ d * HopSize \in Nat
        BY <1>3, <1>5
      <4>3. a = c + HopSize + d * HopSize
        BY <4>1, <4>2 DEF a, c
      <4> QED BY <1>3, <2>2, <4>2, <4>3
    <3>2. ~ (a < f)
      BY <1>3, <1>4, <2>1, <2>2, <3>1
    <3> QED BY <1>5, <1>6, <2>4, <2>5, <2>8, <3>2
  <2>9. CASE w < q
    <3>1. a + FFTSize <= c
      <4>1. PICK d \in Nat : q = (w + 1) + d
        BY <1>5, <2>5, <2>9
      <4>2. /\ ((w + 1) + d) * HopSize = (w - 1) * HopSize + 2 * HopSize + d * HopSize
            /\ d * HopSize \in Nat
        BY <1>3, <2>5
      <4>3. c = a + 2 * HopSize + d * HopSize
        BY <4>1, <4>2 DEF a, c
      <4> QED BY <1>3, <2>1, <4>2, <4>3
    <3>2. ~ (f <= a + FFTSize)
      BY <1>3, <1>4, <2>1, <2>2, <3>1
    <3> QED BY <1>5, <1>6, <2>4, <2>5, <2>9, <3>2
  <2> QED BY <1>5, <2>5, <2>6, <2>7, <2>8, <2>9
<1>8. WindowsWith(f) = {h, h - 1} \ {0}
  <2>1. WindowsWith(f) \subseteq 1 .. Len(windows)
    BY DEF WindowsWith
  <2>2. \A w \in {h, h - 1} \ {0} : w \in 1 .. Len(windows)
    BY <1>2, <1>6
  <2>3. 0 \notin 1 .. Len(windows)
    BY <1>2
  <2> QED BY <1>7, <2>1, <2>2, <2>3
<1>9. (h - 1) * HopSize < f /\ f <= (h - 1) * HopSize + HopSize
  <2>1. q * HopSize \in Nat
    BY <1>3, <1>5
  <2> QED BY <1>3, <1>4, <1>5, <1>6, <2>1
<1> QED BY <1>6, <1>8, <1>9

\* When processInputData returns each frame of a file that was stored whole is in two
\* spectra.  It is the flush, with half a block still unread, that gives the frames of the
\* last hop their second one; those of the first hop have one.
THEOREM EveryFrameIsAnalysed == Spec => []EveryFrameAnalysed
<1>1. ASSUME ParserInv PROVE EveryFrameAnalysed
  <2> SUFFICES ASSUME Processed, phase = "closed", NEW f \in Frames
               PROVE  Cardinality(WindowsWith(f)) = IF f <= HopSize THEN 1 ELSE 2
    BY DEF EveryFrameAnalysed
  <2>1. PICK h \in 1 .. Len(windows) :
          /\ (h - 1) * HopSize < f /\ f <= (h - 1) * HopSize + HopSize
          /\ WindowsWith(f) = {h, h - 1} \ {0}
    BY <1>1, FrameIsIn
  <2>2. h \in Nat \ {0} /\ HopSize \in Nat \ {0} /\ f \in Nat \ {0}
    <3>1. Len(windows) \in Nat
      BY <1>1 DEF ParserInv, RingKept, RingFacts!InputInv, RingFacts!TypeOK
    <3>2. fileFrames \in Nat
      BY <1>1 DEF ParserInv, RenderInv, ReadInv
    <3>3. HopSize \in Nat \ {0}
      BY BlockSizes
    <3>4. h \in Nat \ {0}
      BY <3>1
    <3>5. f \in Nat \ {0}
      BY <3>2 DEF Frames
    <3> QED BY <3>3, <3>4, <3>5
  <2>3. CASE h = 1
    <3>1. f <= HopSize
      BY <2>1, <2>2, <2>3
    <3>2. WindowsWith(f) = {h}
      BY <2>1, <2>3
    <3>3. Cardinality({h}) = 1
      BY FS_Singleton
    <3> QED BY <3>1, <3>2, <3>3
  <2>4. CASE h # 1
    <3>1. PICK d \in Nat : h = d + 2
      BY <2>2, <2>4
    <3>2. (h - 1) * HopSize = HopSize + d * HopSize /\ d * HopSize \in Nat
      BY <2>2, <3>1
    <3>3. ~ (f <= HopSize)
      BY <2>1, <2>2, <3>2
    <3>4. WindowsWith(f) = {h - 1} \cup {h} /\ h \notin {h - 1}
      BY <2>1, <2>2, <3>1
    <3>5. IsFiniteSet({h - 1}) /\ Cardinality({h - 1}) = 1
      BY FS_Singleton
    <3>6. Cardinality({h - 1} \cup {h}) = Cardinality({h - 1}) + 1
      BY <3>4, <3>5, FS_AddElement, Zenon
    <3>7. Cardinality({h - 1}) + 1 = 2
      BY <3>5
    <3> QED BY <3>3, <3>4, <3>6, <3>7, Zenon
  <2> QED BY <2>3, <2>4
<1> QED BY <1>1, ParserInvHolds, PTL

\* doIt asserts one spectrum less than there are, whatever the file and the sizes, and
\* whatever was stored of it: the assertion never holds.
THEOREM AssertionFails == Spec => [](pc # "done")
<1>1. Init => pc # "done"
  BY DEF Init
<1>2. ASSUME ParserInv, pc # "done", [Next]_vars PROVE pc' # "done"
  <2>1. CASE CheckCount
    <3>1. Processed /\ pc = "check"
      BY <2>1 DEF CheckCount, Processed
    <3>2. /\ Len(windows) \in Nat /\ Len(store.blocks) \in Nat
          /\ Len(windows) * HopSize = Len(store.blocks) * BlockSize
      BY <1>2, <3>1, SpectraReachTheEnd, BlocksBefore DEF ParserInv
    <3>3. PICK w, n \in Nat : w = Len(windows) /\ n = Len(store.blocks)
      BY <3>2
    <3>4. w = 2 * n
      <4>1. HopSize \in Nat \ {0} /\ BlockSize = 2 * HopSize
        BY BlockSizes
      <4>2. PICK d : d = 2 * n - w
        OBVIOUS
      <4>3. d \in Int /\ HopSize * d = 0
        <5>1. w * HopSize = n * BlockSize
          BY <3>2, <3>3
        <5> HIDE <3>2
        <5>2. PICK h \in Nat : h = HopSize
          BY <4>1
        <5>3. d \in Int /\ h * d = n * (2 * h) - w * h
          BY <4>2, <5>2
        <5>4. w * h = n * (2 * h)
          BY <4>1, <5>1, <5>2
        <5>5. w * h \in Nat
          BY <5>2
        <5> QED BY <5>2, <5>3, <5>4, <5>5
      <4>4. d # 0 => HopSize * d >= HopSize \/ HopSize * d <= -HopSize
        BY <4>1, <4>2, RingFacts!Multiple
      <4> QED BY <3>3, <4>1, <4>2, <4>3, <4>4
    <3>5. w # (2 * n - 1) % SizeMod
      <4>1. SizeMod \in Nat /\ SizeMod > 1
        BY StoreAssumption
      <4>2. PICK a : a = 2 * n - 1
        OBVIOUS
      <4>3. PICK k, m : k = a \div SizeMod /\ m = a % SizeMod
        OBVIOUS
      <4>4. a \in Int /\ k \in Int /\ m \in 0 .. SizeMod - 1 /\ a = SizeMod * k + m
        <5>1. a \in Int
          BY <4>2
        <5> QED BY <4>1, <4>3, <5>1, RingFacts!ModIs
      <4>5. ASSUME m = 2 * n PROVE FALSE
        <5>1. SizeMod * k \in Int
          BY <4>1, <4>4
        <5>2. SizeMod * k = -1
          BY <3>3, <4>2, <4>4, <4>5, <5>1
        <5>3. k # 0
          BY <4>1, <5>2
        <5>4. SizeMod * k >= SizeMod \/ SizeMod * k <= -SizeMod
          BY <4>1, <4>4, <5>3, RingFacts!Multiple
        <5> QED BY <4>1, <5>2, <5>4
      <4> QED BY <3>4, <4>2, <4>3, <4>5
    <3> QED BY <2>1, <3>3, <3>5 DEF CheckCount
  <2>2. CASE ~ CheckCount
    <3>1. CASE RenderingStep
      BY <1>2, <3>1, RenderingStepIs DEF ParserInv, Rendering
    <3>2. CASE NextBlock \/ Spectrum \/ FlushSpectra \/ Ended \/ UNCHANGED vars
      BY <1>2, <3>2 DEF NextBlock, Spectrum, FlushSpectra, Ended, vars
    <3> QED BY <1>2, <2>2, <3>1, <3>2 DEF Next, RenderingStep
  <2> QED BY <2>1, <2>2
<1>3. ParserInv /\ (pc # "done") /\ [Next]_vars => (pc # "done")'
  BY <1>2
<1> QED BY <1>1, <1>3, ParserInvHolds, PTL DEF Spec

-----------------------------------------------------------------------------
(* The promise.                                                            *)

\* What is promised to be analysed.
Promised == IF pc \in Analysing /\ phase # "closed"
            THEN Len(store.blocks) * BlockSize ELSE fileFrames

\* What was promised is what there is to analyse, once the analysis has begun.
LEMMA PromisedIsLength == pc \in Analysing => Promised = Length
BY DEF Promised, Length

\* The variables of the promise.
LEMMA PromiseIs ==
  /\ Promise!Init <=> Promised \in Nat /\ windows = <<>> /\ Processed = FALSE
  /\ Promise!GiveUp <=>
       /\ windows = <<>> /\ Promised' \in 0 .. Promised
       /\ UNCHANGED <<windows, Processed>>
  /\ Promise!Analyse <=>
       /\ ~ Processed
       /\ windows' = Append(windows, [i \in 1 .. FFTSize |->
            LET f == ((Len(windows) + 1) - 1) * HopSize + i IN IF f <= Promised THEN f ELSE 0])
       /\ UNCHANGED <<Promised, Processed>>
  /\ Promise!Finish <=>
       /\ Len(windows) * HopSize >= Promised
       /\ Processed' = TRUE
       /\ UNCHANGED <<Promised, windows>>
BY Zenon DEF Promise!Init, Promise!GiveUp, Promise!Analyse, Promise!Window, Promise!Finish,
             Promised, Analysing

\* To begin with, all of the file is to be analysed.
LEMMA PromiseInit == Init => Promise!Init
<1> SUFFICES ASSUME Init PROVE Promise!Init
  OBVIOUS
<1>1. pc = "setup" /\ fileFrames \in 0 .. MaxFileFrames /\ windows = <<>>
  BY DEF Init, Spectral!Init
<1>2. Promised = fileFrames
  BY <1>1 DEF Promised, Analysing
<1>3. Promised \in Nat /\ Processed = FALSE
  BY <1>1, <1>2, ParserAssumption DEF Processed
<1> QED BY <1>1, <1>3, PromiseIs, Zenon

\* What ParserInv says of a spectrum that has just been made, and of what there is to
\* analyse when the rendering has just ended.
SpectraInPlace ==
  /\ \A w \in 1 .. Len(windows) :
       windows[w] = [i \in 1 .. FFTSize |-> Sample((w - 1) * HopSize + i)]
  /\ pc \in Analysing => Length \in 0 .. fileFrames
  /\ Processed => Len(windows) * HopSize >= Promised

LEMMA SpectraArePlaced == ParserInv => SpectraInPlace
<1> SUFFICES ASSUME ParserInv PROVE SpectraInPlace
  OBVIOUS
<1>1. RenderInv /\ StoreKept /\ RingKept /\ AnalysisInv
  BY DEF ParserInv
<1>2. ASSUME NEW w \in 1 .. Len(windows)
      PROVE  windows[w] = [i \in 1 .. FFTSize |-> Sample((w - 1) * HopSize + i)]
  BY <1>1, SpectraAre
<1>3. ASSUME pc \in Analysing PROVE Length \in 0 .. fileFrames
  <2>1. Length \in Nat /\ Length <= fileFrames
    BY <1>1, <1>3, BlocksHold DEF Analysing
  <2>2. fileFrames \in Nat
    BY <1>1 DEF RenderInv, ReadInv
  <2> QED BY <2>1, <2>2
<1>4. ASSUME Processed PROVE Len(windows) * HopSize >= Promised
  <2>1. pc \in Analysing
    BY <1>4 DEF Processed, Analysing
  <2>2. Promised = Length
    BY <2>1, PromisedIsLength
  <2> QED BY <1>4, <2>2, SpectraReachTheEnd
<1> QED BY <1>2, <1>3, <1>4 DEF SpectraInPlace

\* When processInputData returns no frame is left out.
LEMMA ReturnFinishes ==
  ASSUME SpectraInPlace', Promised' = Promised, windows' = windows, ~ Processed
  PROVE  [Promise!Next]_<<Promised, windows, Processed>>
<1>1. Processed \in BOOLEAN /\ Processed' \in BOOLEAN
  BY DEF Processed
<1>2. CASE Processed'
  <2>1. Len(windows) * HopSize >= Promised
    BY <1>2 DEF SpectraInPlace
  <2>2. Processed' = TRUE
    BY <1>1, <1>2
  <2>3. Promise!Finish
    BY <2>1, <2>2, PromiseIs
  <2> QED BY <2>3 DEF Promise!Next
<1>3. CASE ~ Processed'
  BY <1>1, <1>3
<1> QED BY <1>2, <1>3

\* While the file is rendered its analysis may be cut short: to what is in the blocks.
LEMMA RenderingGivesUp ==
  ASSUME ParserInv, SpectraInPlace', RenderingStep
  PROVE  [Promise!Next]_<<Promised, windows, Processed>>
<1>1. /\ pc \in Rendering /\ pc' \in Rendering \cup {"analyse", "overrun"}
      /\ UNCHANGED <<fileFrames, ringVars>>
  BY RenderingStepIs DEF ParserInv
<1>2. windows = <<>> /\ windows' = windows
  BY <1>1 DEF ParserInv, AnalysisInv, ringVars
<1>3. Processed = FALSE /\ Processed' = FALSE
  BY <1>1 DEF Rendering, Processed
<1>4. fileFrames \in Nat /\ Promised = fileFrames /\ fileFrames' = fileFrames
  BY <1>1 DEF ParserInv, RenderInv, ReadInv, Promised, Rendering, Analysing
<1>5. Promised' \in 0 .. fileFrames
  <2>1. CASE pc' = "analyse"
    <3>1. Length' \in 0 .. fileFrames'
      BY <2>1 DEF SpectraInPlace, Analysing
    <3>2. Promised' = Length'
      BY <2>1 DEF Promised, Length, Analysing
    <3> QED BY <1>4, <3>1, <3>2
  <2>2. CASE pc' # "analyse"
    <3>1. Promised' = fileFrames'
      BY <1>1, <2>2 DEF Promised, Rendering, Analysing
    <3> QED BY <1>4, <3>1
  <2> QED BY <2>1, <2>2
<1>6. Promise!GiveUp
  BY <1>2, <1>3, <1>4, <1>5, PromiseIs
<1> QED BY <1>6 DEF Promise!Next

\* A spectrum made is the next one promised.
LEMMA SpectrumAnalyses ==
  ASSUME ParserInv, SpectraInPlace', Spectrum
  PROVE  [Promise!Next]_<<Promised, windows, Processed>>
<1>1. /\ RingFacts!NextWindow \/ RingFacts!Return
      /\ pc' = pc /\ UNCHANGED <<fileFrames, store, phase>>
  BY SameRing DEF Spectrum, storeVars
<1>2. Promised' = Promised /\ Length' = Length
  BY <1>1 DEF Promised, Length
<1>3. CASE RingFacts!NextWindow
  <2>1. busy # "idle" /\ windows \in Seq([1 .. FFTSize -> Nat])
    BY <1>3 DEF RingFacts!NextWindow, ParserInv, RingKept, RingFacts!InputInv,
                RingFacts!TypeOK
  <2>2. pc \in {"analyse", "check"} /\ Processed = FALSE
    BY <2>1 DEF ParserInv, AnalysisInv, Processed
  <2>3. PICK win : windows' = Append(windows, win)
    BY <1>3 DEF RingFacts!NextWindow, RingFacts!CopyInputToFFT
  <2> DEFINE n == Len(windows)
  <2>4. n \in Nat /\ Len(windows') = n + 1 /\ windows'[n + 1] = win
    BY <2>1, <2>3
  <2>5. win = [i \in 1 .. FFTSize |-> Sample(((n + 1) - 1) * HopSize + i)]
    <3> DEFINE Frame(k) == IF k <= Length' THEN k ELSE 0
    <3>1. \A w \in 1 .. Len(windows') :
            windows'[w] = [i \in 1 .. FFTSize |-> Frame((w - 1) * HopSize + i)]
      BY DEF SpectraInPlace, Sample
    <3>2. n + 1 \in 1 .. Len(windows')
      BY <2>4
    <3>3. \A k : Frame(k) = Sample(k)
      BY <1>2 DEF Sample
    <3> HIDE DEF n, Frame
    <3>4. windows'[n + 1] = [i \in 1 .. FFTSize |-> Frame(((n + 1) - 1) * HopSize + i)]
      BY <3>1, <3>2, Zenon
    <3>5. windows'[n + 1] = [i \in 1 .. FFTSize |-> Sample(((n + 1) - 1) * HopSize + i)]
      BY <3>3, <3>4, Zenon
    <3> QED BY <2>4, <3>5, Zenon
  <2>6. Promised = Length
    BY <2>2, PromisedIsLength DEF Analysing
  <2>7. win = [i \in 1 .. FFTSize |->
           LET f == ((n + 1) - 1) * HopSize + i IN IF f <= Promised THEN f ELSE 0]
    BY <2>5, <2>6, Zenon DEF Sample
  <2>8. Processed' = Processed
    BY <1>1, <1>3 DEF Processed, RingFacts!NextWindow, RingFacts!callVars
  <2>9. Promise!Analyse
    BY <1>2, <2>2, <2>3, <2>7, <2>8, PromiseIs
  <2> QED BY <2>9 DEF Promise!Next
<1>4. CASE RingFacts!Return
  <2>1. windows' = windows /\ busy # "idle"
    BY <1>4 DEF RingFacts!Return, RingFacts!inVars
  <2>2. ~ Processed
    BY <2>1 DEF ParserInv, AnalysisInv, Processed
  <2> QED BY <1>2, <2>1, <2>2, ReturnFinishes
<1> QED BY <1>1, <1>3, <1>4

\* The flush may find nothing to make a spectrum of, and processInputData returns.
LEMMA FlushMayFinish ==
  ASSUME ParserInv, SpectraInPlace', FlushSpectra
  PROVE  [Promise!Next]_<<Promised, windows, Processed>>
<1>1. pc = "analyse" /\ pc' = "check" /\ UNCHANGED <<fileFrames, store, phase>>
  BY DEF FlushSpectra, storeVars
<1>2. windows' = windows
  BY DEF FlushSpectra, Spectral!FlushForward, Spectral!Begin, Spectral!CopyInput,
         Spectral!inVars
<1>3. Promised' = Promised /\ ~ Processed
  BY <1>1 DEF Promised, Analysing, Processed
<1> QED BY <1>2, <1>3, ReturnFinishes

\* The other steps are not seen.
LEMMA OthersStutter ==
  ASSUME ParserInv, NextBlock \/ CheckCount \/ UNCHANGED vars
  PROVE  UNCHANGED <<Promised, windows, Processed>>
<1>1. CASE NextBlock
  <2>1. pc = "analyse" /\ pc' = pc /\ UNCHANGED <<fileFrames, store, phase>>
    BY <1>1 DEF NextBlock, NextSamples
  <2>2. windows' = windows
    BY <1>1 DEF NextBlock, Spectral!ProcessForwards, Spectral!Begin, Spectral!CopyInput
  <2> QED BY <2>1, <2>2 DEF Promised, Processed
<1>2. CASE CheckCount
  <2>1. /\ pc = "check" /\ busy = "idle" /\ pc' \in {"done", "raised"}
        /\ UNCHANGED <<fileFrames, store, phase, windows>>
    BY <1>2 DEF CheckCount, storeVars, ringVars
  <2> QED BY <2>1 DEF Promised, Analysing, Processed
<1>3. CASE UNCHANGED vars
  BY <1>3 DEF vars, storeVars, ringVars, Promised, Processed
<1> QED BY <1>1, <1>2, <1>3

\* doIt keeps the promise of module Spectrogram, whatever calls fail: spectra of the frames
\* in order, each half a block after the one before, and none left out when processInputData
\* returns.
THEOREM SpectraAreOfTheFile == Spec => SpectrogramSpec
<1>1. ParserInv /\ SpectraInPlace' /\ [Next]_vars
        => [Promise!Next]_<<Promised, windows, Processed>>
  <2> SUFFICES ASSUME ParserInv, SpectraInPlace', [Next]_vars
               PROVE  [Promise!Next]_<<Promised, windows, Processed>>
    OBVIOUS
  <2>1. CASE RenderingStep
    BY <2>1, RenderingGivesUp
  <2>2. CASE Spectrum
    BY <2>2, SpectrumAnalyses
  <2>3. CASE FlushSpectra
    BY <2>3, FlushMayFinish
  <2>4. CASE NextBlock \/ CheckCount \/ UNCHANGED vars
    BY <2>4, OthersStutter
  <2> QED BY <2>1, <2>2, <2>3, <2>4 DEF Next, RenderingStep, Ended
<1>2. [Promise!Next]_<<Promised, windows, Processed>>
        => [Promise!Next]_<<IF pc \in {"analyse", "check", "done", "raised"} /\ phase # "closed"
                            THEN Len(store.blocks) * BlockSize ELSE fileFrames,
                            windows, Processed>>
  BY DEF Promised, Analysing
<1> QED BY <1>1, <1>2, PromiseInit, ParserInvHolds, SpectraArePlaced, PTL
        DEF Spec, SpectrogramSpec, Promise!Spec
=============================================================================
