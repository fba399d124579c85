--------------------------- MODULE AudioFileParser ---------------------------
(***************************************************************************)
(* AppController's doIt: a WAV file is rendered offline by an audio queue  *)
(* (OfflineAudioQueueWrapper), the frames are regrouped in blocks          *)
(* (BufferStore), and the blocks are turned into spectra                   *)
(* (SpectrumResults, HooSpectralProcessor).                                *)
(*                                                                         *)
(* All of it runs on one thread.  What varies is the file, what the audio  *)
(* queue gives at each call, and which call fails: an exception leaves     *)
(* beginProcessing: at once and doIt goes on without noticing.             *)
(***************************************************************************)
EXTENDS BufferStore, FiniteSets

CONSTANTS
  FFTSize, HopSize, mIOBufSize,   \* see HooSpectralProcessor
  SampleRate,
  FrameBytes,       \* bytes in a frame of the file; a packet is a frame
  CaptureBytes,     \* bytes in a rendered frame
  MaxBufferSize, MinBufferSize,
  MaxFileFrames,    \* bounds the length of the file
  ApiErrors         \* may a call fail?

\* setBlockSize: and the processor are given the same size, and half of it as the hop.
ASSUME ParserAssumption ==
  /\ FFTSize = BlockSize
  /\ HopSize \in Nat /\ FFTSize = 2 * HopSize
  /\ mIOBufSize \in Nat /\ mIOBufSize >= FFTSize + BlockSize
  /\ \E k \in 0 .. mIOBufSize : mIOBufSize = 2 ^ k
  /\ SampleRate \in Nat \ {0}
  /\ FrameBytes \in Nat \ {0} /\ CaptureBytes \in Nat \ {0}
  /\ MinBufferSize \in Nat /\ MaxBufferSize \in Nat
  /\ MinBufferSize <= MaxBufferSize
  /\ MaxFileFrames \in Nat
  /\ ApiErrors \in BOOLEAN

VARIABLES
  pc,
  fileFrames,       \* frames in the file
  mCurrentPacket,   \* frames read from it
  rendered,         \* frames the queue has given back
  mFlushed, mDone,
  callbackDue,      \* the buffer is played; its callback is still to come
  captured,         \* what the last render call returned
  mInputBuf, mInputSize, mInputPos, mInFFTPos,
  mOutputBuf, mOutputPos, mOutFFTPos,
  samples, windows, out, busy, slice, flushed

Spectral == INSTANCE HooSpectralProcessor WITH
  MaxFrames <- BlockSize, MaxSamples <- MaxFileFrames

renderVars ==
  <<mCurrentPacket, rendered, mFlushed, mDone, callbackDue, captured>>
ringVars == <<mInputBuf, mInputSize, mInputPos, mInFFTPos, mOutputBuf,
              mOutputPos, mOutFFTPos, samples, windows, out, busy, slice,
              flushed>>
vars == <<pc, fileFrames, renderVars, storeVars, ringVars>>

Frames == 1 .. fileFrames

TypeOK ==
  /\ pc \in {"setup", "prime", "render", "deliver", "complete", "analyse",
             "check", "done", "raised", "overrun"}
  /\ fileFrames \in 0 .. MaxFileFrames
  /\ mCurrentPacket \in 0 .. fileFrames
  /\ rendered \in 0 .. mCurrentPacket
  /\ mFlushed \in BOOLEAN /\ mDone \in BOOLEAN /\ callbackDue \in BOOLEAN
  /\ captured \in Seq(Frames)
  /\ StoreTypeOK
  /\ Spectral!TypeOK

Init ==
  /\ pc = "setup"
  /\ fileFrames \in 0 .. MaxFileFrames
  /\ mCurrentPacket = 0 /\ rendered = 0
  /\ mFlushed = FALSE /\ mDone = FALSE /\ callbackDue = FALSE
  /\ captured = <<>>
  /\ StoreInit
  /\ Spectral!Init

-----------------------------------------------------------------------------
(* CalculateBytesForTime, for one second, and the sizes that follow.       *)

bufferByteSize ==
  LET bytes == SampleRate * FrameBytes
  IN  IF bytes > MaxBufferSize /\ bytes > FrameBytes THEN MaxBufferSize
      ELSE IF bytes < MinBufferSize THEN MinBufferSize
      ELSE bytes

mNumPacketsToRead == bufferByteSize \div FrameBytes

\* The capture buffer is half the size of the enqueue buffer.
reqFrames == (bufferByteSize \div 2) \div CaptureBytes

Least(m, n) == IF m <= n THEN m ELSE n

-----------------------------------------------------------------------------
(* OfflineAudioQueueWrapper.                                               *)

\* @catch: whatever is raised below, beginProcessing returns.
Caught == pc' = "analyse"

\* Opening the file, the queue and the buffers, and starting the queue.
SetUp ==
  /\ pc = "setup"
  /\ \/ pc' = "prime"
     \/ ApiErrors /\ Caught
  /\ UNCHANGED <<fileFrames, renderVars, storeVars, ringVars>>

\* Mutant: reads past the end of the file.
ReadPastEnd ==
  IF mDone THEN UNCHANGED <<mCurrentPacket, mFlushed, mDone>>
  ELSE /\ mCurrentPacket' = mCurrentPacket + mNumPacketsToRead
       /\ mFlushed' = (mFlushed \/ mCurrentPacket >= fileFrames)
       /\ mDone' = (mCurrentPacket >= fileFrames)

\* Mutant: a short read is taken for the end of the file.
ShortReadIsEnd ==
  LET n == Least(mNumPacketsToRead, fileFrames - mCurrentPacket)
  IN  IF mDone THEN UNCHANGED <<mCurrentPacket, mFlushed, mDone>>
      ELSE /\ mCurrentPacket' = mCurrentPacket + n
           /\ mFlushed' = (mFlushed \/ n < mNumPacketsToRead)
           /\ mDone' = (n < mNumPacketsToRead)

\* AQTestBufferCallback: the next packets are read and enqueued; reading none is
\* the end of the file.
BufferCallback ==
  LET n == Least(mNumPacketsToRead, fileFrames - mCurrentPacket)
  IN  IF mDone THEN UNCHANGED <<mCurrentPacket, mFlushed, mDone>>
      ELSE /\ mCurrentPacket' = mCurrentPacket + n
           /\ mFlushed' = (mFlushed \/ n = 0)
           /\ mDone' = (n = 0)

\* The first buffer is enqueued by a direct call.
Prime ==
  /\ pc = "prime"
  /\ \/ BufferCallback /\ pc' = "render"
     \/ ApiErrors /\ Caught /\ UNCHANGED <<mCurrentPacket, mFlushed, mDone>>
  /\ UNCHANGED <<fileFrames, rendered, callbackDue, captured, storeVars,
                 ringVars>>

\* The callback for the buffer that is played comes within the call that took
\* the last of it, or within the next one.
Callback ==
  /\ pc \in {"render", "deliver"}
  /\ callbackDue
  /\ callbackDue' = FALSE
  /\ \/ BufferCallback /\ UNCHANGED pc
     \/ ApiErrors /\ Caught /\ UNCHANGED <<mCurrentPacket, mFlushed, mDone>>
  /\ UNCHANGED <<fileFrames, rendered, captured, storeVars, ringVars>>

\* AudioQueueOfflineRender gives what it is asked for, or what there is left of
\* the enqueued buffer.
Render ==
  /\ pc = "render" /\ ~callbackDue
  /\ LET n == Least(reqFrames, mCurrentPacket - rendered)
     IN  /\ captured' = [i \in 1 .. n |-> rendered + i]
         /\ rendered' = rendered + n
         /\ callbackDue' = (n > 0 /\ rendered + n = mCurrentPacket)
  /\ pc' = "deliver"
  /\ UNCHANGED <<fileFrames, mCurrentPacket, mFlushed, mDone, storeVars,
                 ringVars>>

\* The render call fails: the consumer is told, which only logs it, and an
\* exception is raised.
RenderFails ==
  /\ pc = "render" /\ ~callbackDue
  /\ ApiErrors
  /\ Caught
  /\ UNCHANGED <<fileFrames, renderVars, storeVars, ringVars>>

\* The frames go to addFrames:.  newHooAudioBuffer_weak asserts that there are
\* some, and addFrames: may fail an assertion of its own.
Deliver ==
  /\ pc = "deliver"
  /\ \/ captured = <<>> /\ Caught /\ UNCHANGED storeVars
     \/ /\ captured # <<>>
        /\ AddFrames(captured)
        /\ pc' = IF Len(store'.partial) > BlockSize THEN "overrun"
                 ELSE IF mFlushed THEN "complete" ELSE "render"
     \/ /\ captured # <<>>
        /\ AddFramesRaises(captured)
        /\ pc' = IF Len(store'.partial) > BlockSize THEN "overrun" ELSE "analyse"
  /\ UNCHANGED <<fileFrames, renderVars, ringVars>>

\* The consumer closes the store.
Complete ==
  /\ pc = "complete"
  /\ CloseInput
  /\ pc' = "analyse"
  /\ UNCHANGED <<fileFrames, renderVars, ringVars>>

-----------------------------------------------------------------------------
(* SpectrumResults.                                                        *)

\* processInputData: one block after another.
NextBlock ==
  /\ pc = "analyse" /\ busy = "idle"
  /\ HasMoreSamples
  /\ Spectral!ProcessForwards(store.blocks[readIteration + 1])
  /\ NextSamples
  /\ UNCHANGED <<pc, fileFrames, renderVars>>

\* _callback_complexOutput: keeps each spectrum.
Spectrum ==
  /\ Spectral!NextWindow \/ Spectral!Return
  /\ UNCHANGED <<pc, fileFrames, renderVars, storeVars>>

FlushSpectra ==
  /\ pc = "analyse" /\ busy = "idle"
  /\ ~HasMoreSamples
  /\ Spectral!FlushForward
  /\ pc' = "check"
  /\ UNCHANGED <<fileFrames, renderVars, storeVars>>

\* doIt asserts two spectra for a block, less one, in NSUInteger: nothing else
\* follows the assertion.
CheckCount ==
  /\ pc = "check" /\ busy = "idle"
  /\ pc' = IF Len(windows) = (2 * Len(store.blocks) - 1) % SizeMod THEN "done"
           ELSE "raised"
  /\ UNCHANGED <<fileFrames, renderVars, storeVars, ringVars>>

\* A write beyond the partial store has no defined outcome: the model ends there.
Ended == pc \in {"done", "raised", "overrun"} /\ UNCHANGED vars

Next ==
  \/ SetUp \/ Prime \/ Callback \/ Render \/ RenderFails \/ Deliver \/ Complete
  \/ NextBlock \/ Spectrum \/ FlushSpectra \/ CheckCount
  \/ Ended

Spec == Init /\ [][Next]_vars
-----------------------------------------------------------------------------
(* Properties.                                                             *)

\* When the store is closed, nothing of the file is missing from it.
WholeFileStored ==
  phase = "closed" => added = fileFrames /\ NothingLost

WindowsWith(f) ==
  {w \in 1 .. Len(windows) : \E i \in 1 .. FFTSize : windows[w][i] = f}

\* processInputData has returned.
Processed == pc \in {"done", "raised"} \/ (pc = "check" /\ busy = "idle")

\* Every frame of a file that was stored whole is in one spectrum if it is among
\* the first HopSize, and in two otherwise, when processInputData returns.
EveryFrameAnalysed ==
  Processed /\ phase = "closed" =>
    \A f \in Frames :
      Cardinality(WindowsWith(f)) = IF f <= HopSize THEN 1 ELSE 2

\* The promise of module Spectrogram, kept by the time processInputData returns.
\* Once something is raised before, what is analysed is the blocks stored till
\* then.
Promise == INSTANCE Spectrogram WITH
  length <- IF pc \in {"analyse", "check", "done", "raised"} /\ phase # "closed"
            THEN Len(store.blocks) * BlockSize ELSE fileFrames,
  finished <- Processed

SpectrogramSpec == Promise!Spec

-----------------------------------------------------------------------------
(* What comments and assertions of the code say, and the code does not do. *)

\* "Copy the right amount of frames from inputBuffer to partial store"
\* (BufferStore.m:75): it never gets more than a block.
PartialStoreHolds == Len(store.partial) <= BlockSize

\* "NSAssert( [_spectroResults frameCount]==([bufferStore numberOfWholeBuffers]*2
\* - 1), nil)" (AppController.m:97): for a file that was stored whole there are
\* as many spectra as doIt expects.
CountAsAsserted == phase = "closed" => pc # "raised"
=============================================================================
