------------------------ MODULE HooSpectralProcessor ------------------------
(***************************************************************************)
(* AudioFileParser's HooSpectralProcessor: samples come in slices, are     *)
(* cut into overlapping windows of FFTSize samples, HopSize apart, and     *)
(* each window is handed to the delegate.  process: also overlap-adds what *)
(* comes back and returns as many samples as it was given.                 *)
(*                                                                         *)
(* Both directions go through ring buffers of mIOBufSize samples.  The     *)
(* transforms and the sine window are left out: a spectrum is the samples  *)
(* it was made of, and a cell of the output ring is the set of window      *)
(* samples that were added to it.  `samples', `windows' and `out' are what *)
(* was put in, handed to the delegate and returned, in order.              *)
(***************************************************************************)
EXTENDS Integers, Sequences

CONSTANTS
  FFTSize, HopSize,
  MaxFrames,      \* inMaxFrames, the longest slice
  mIOBufSize,     \* NextPowerOfTwo(mFFTSize + mMaxFrames), of CABitOperations.h
  MaxSamples      \* bounds the samples the client below puts in

ASSUME ProcessorAssumption ==
  /\ FFTSize \in Nat \ {0}
  /\ HopSize \in 1 .. FFTSize
  /\ MaxFrames \in Nat \ {0}
  /\ mIOBufSize \in Nat /\ mIOBufSize >= FFTSize + MaxFrames
  /\ \E k \in 0 .. mIOBufSize : mIOBufSize = 2 ^ k
  /\ MaxSamples \in Nat

Ring == 0 .. mIOBufSize - 1

VARIABLES
  mInputBuf, mInputSize, mInputPos, mInFFTPos,
  mOutputBuf, mOutputPos, mOutFFTPos,
  samples, windows, out,
  busy,           \* "idle", or the method that is running
  slice,          \* the length of the slice it was given
  flushed         \* flushForward has been called

inVars == <<mInputBuf, mInputSize, mInputPos, mInFFTPos, samples, windows>>
outVars == <<mOutputBuf, mOutputPos, mOutFFTPos, out>>
callVars == <<busy, slice, flushed>>
ringVars == <<inVars, outVars, callVars>>

TypeOK ==
  /\ mInputBuf \in [Ring -> Nat]
  /\ mInputSize \in 0 .. mIOBufSize
  /\ mInputPos \in Ring /\ mInFFTPos \in Ring
  /\ mOutputBuf \in [Ring -> SUBSET (Nat \X Nat)]
  /\ mOutputPos \in Ring /\ mOutFFTPos \in Ring
  /\ samples \in Seq(Nat)
  /\ windows \in Seq([1 .. FFTSize -> Nat])
  /\ out \in Seq(SUBSET (Nat \X Nat))
  /\ busy \in {"idle", "processForwards", "process"}
  /\ slice \in 0 .. MaxFrames + FFTSize
  /\ flushed \in BOOLEAN

\* Reading and writing begin at the same place, output FFTSize samples before.
Init ==
  /\ mInputBuf = [p \in Ring |-> 0]
  /\ mInputSize = 0 /\ mInputPos = 0 /\ mInFFTPos = 0
  /\ mOutputBuf = [p \in Ring |-> {}]
  /\ mOutputPos = -FFTSize % mIOBufSize
  /\ mOutFFTPos = 0
  /\ samples = <<>> /\ windows = <<>> /\ out = <<>>
  /\ busy = "idle" /\ slice = 0
  /\ flushed = FALSE

-----------------------------------------------------------------------------
(* Input.                                                                  *)

\* Mutant: the part after the end of the ring is left out.
CopyInputToEnd(data) ==
  /\ mInputBuf' = [p \in Ring |->
       IF p >= mInputPos /\ p < mInputPos + Len(data)
       THEN data[p - mInputPos + 1] ELSE mInputBuf[p]]
  /\ mInputSize' = mInputSize + Len(data)
  /\ mInputPos' = (mInputPos + Len(data)) % mIOBufSize
  /\ samples' = samples \o data
  /\ UNCHANGED <<mInFFTPos, windows>>

\* copyInput: in one or two parts, around the end of the ring.
CopyInput(data) ==
  /\ mInputBuf' = [p \in Ring |->
       LET i == (p - mInputPos) % mIOBufSize
       IN  IF i < Len(data) THEN data[i + 1] ELSE mInputBuf[p]]
  /\ mInputSize' = mInputSize + Len(data)
  /\ mInputPos' = (mInputPos + Len(data)) % mIOBufSize
  /\ samples' = samples \o data
  /\ UNCHANGED <<mInFFTPos, windows>>

\* Mutant: a window that is just full is left for later.
MoreThanEnough == mInputSize > FFTSize

EnoughInput == mInputSize >= FFTSize

\* Mutant: the next window starts where this one ends.
FFTBufferWithoutOverlap ==
  /\ windows' = Append(windows, [i \in 1 .. FFTSize |->
                  mInputBuf[(mInFFTPos + i - 1) % mIOBufSize]])
  /\ mInputSize' = mInputSize - FFTSize
  /\ mInFFTPos' = (mInFFTPos + FFTSize) % mIOBufSize
  /\ UNCHANGED <<mInputBuf, mInputPos, samples>>

\* copyInputToFFT, and the spectrum of it handed to the delegate.
CopyInputToFFT ==
  /\ windows' = Append(windows, [i \in 1 .. FFTSize |->
                  mInputBuf[(mInFFTPos + i - 1) % mIOBufSize]])
  /\ mInputSize' = mInputSize - HopSize
  /\ mInFFTPos' = (mInFFTPos + HopSize) % mIOBufSize
  /\ UNCHANGED <<mInputBuf, mInputPos, samples>>

-----------------------------------------------------------------------------
(* Output.                                                                 *)

\* overlapAddOutput: the window just made comes back and is added.  A sample of
\* it is known by its window and by its value.
OverlapAddOutput ==
  LET w == windows'[Len(windows')]
  IN  /\ mOutputBuf' = [p \in Ring |->
           LET i == (p - mOutFFTPos) % mIOBufSize
           IN  IF i < FFTSize
               THEN mOutputBuf[p] \cup {<<Len(windows'), w[i + 1]>>}
               ELSE mOutputBuf[p]]
      /\ mOutFFTPos' = (mOutFFTPos + HopSize) % mIOBufSize
      /\ UNCHANGED <<mOutputPos, out>>

\* Mutant: the cells read are not zeroed.
CopyOutputKeeping(n) ==
  /\ out' = out \o [i \in 1 .. n |->
                      mOutputBuf[(mOutputPos + i - 1) % mIOBufSize]]
  /\ mOutputPos' = (mOutputPos + n) % mIOBufSize
  /\ UNCHANGED <<mOutFFTPos, mOutputBuf>>

\* copyOutput: the cells read are zeroed for the next turn.
CopyOutput(n) ==
  /\ out' = out \o [i \in 1 .. n |->
                      mOutputBuf[(mOutputPos + i - 1) % mIOBufSize]]
  /\ mOutputBuf' = [p \in Ring |->
       IF (p - mOutputPos) % mIOBufSize < n THEN {} ELSE mOutputBuf[p]]
  /\ mOutputPos' = (mOutputPos + n) % mIOBufSize
  /\ UNCHANGED mOutFFTPos

-----------------------------------------------------------------------------
(* The methods.                                                            *)

\* processForwards: and process: begin by copying the slice in ...
Begin(method, data) ==
  /\ busy = "idle"
  /\ CopyInput(data)
  /\ busy' = method
  /\ slice' = Len(data)
  /\ UNCHANGED outVars

\* ... then make windows while there is enough input ...
NextWindow ==
  /\ busy # "idle"
  /\ EnoughInput
  /\ CopyInputToFFT
  /\ IF busy = "process" THEN OverlapAddOutput ELSE UNCHANGED outVars
  /\ UNCHANGED callVars

\* ... and return.
Return ==
  /\ busy # "idle"
  /\ ~EnoughInput
  /\ IF busy = "process" THEN CopyOutput(slice) ELSE UNCHANGED outVars
  /\ busy' = "idle"
  /\ UNCHANGED <<inVars, slice, flushed>>

ProcessForwards(data) ==
  Begin("processForwards", data) /\ UNCHANGED flushed

Process(data) == Begin("process", data) /\ UNCHANGED flushed

\* Mutant: nothing is flushed.
FlushNothing ==
  /\ busy = "idle"
  /\ flushed' = TRUE
  /\ UNCHANGED <<inVars, outVars, busy, slice>>

\* flushForward: zeros up to a whole window, if any input is left.
FlushForward ==
  /\ \/ /\ mInputSize > 0
        /\ Begin("processForwards", [i \in 1 .. FFTSize - mInputSize |-> 0])
     \/ /\ mInputSize = 0 /\ busy = "idle"
        /\ UNCHANGED <<inVars, outVars, busy, slice>>
  /\ flushed' = TRUE

-----------------------------------------------------------------------------
(* A client, for the processor alone: it uses one of the two methods, with *)
(* slices of any length up to MaxFrames.                                   *)

Slice(n) == [i \in 1 .. n |-> Len(samples) + i]

Input ==
  \E n \in 1 .. MaxFrames :
    /\ ~flushed
    /\ Len(samples) + n <= MaxSamples
    /\ \/ Len(out) = 0 /\ ProcessForwards(Slice(n))
       \/ Len(out) = Len(samples) /\ Process(Slice(n))

Flush == Len(out) = 0 /\ ~flushed /\ FlushForward

Next == Input \/ Flush \/ NextWindow \/ Return

Spec == Init /\ [][Next]_ringVars

-----------------------------------------------------------------------------
(* Properties.                                                             *)

WindowStart(w) == (w - 1) * HopSize

\* Each window is the FFTSize samples that begin HopSize after the one before:
\* the ring neither loses a sample nor overwrites one that is still to be read.
WindowsOverlap ==
  \A w \in 1 .. Len(windows) :
    windows[w] = SubSeq(samples, WindowStart(w) + 1, WindowStart(w) + FFTSize)

\* Between calls less than a window is left unread, and after the flush every
\* sample has been in a window.
EverySampleSeen ==
  busy = "idle" =>
    /\ mInputSize < FFTSize
    /\ flushed /\ Len(samples) > 0 =>
         WindowStart(Len(windows)) + FFTSize = Len(samples)

Covering(f) ==
  {w \in 1 .. Len(windows) : WindowStart(w) < f /\ f <= WindowStart(w) + FFTSize}

\* What process: returns is the input FFTSize samples later, each sample having
\* received its share of every window that covers it, and of no other.
OverlapAdded ==
  \A i \in 1 .. Len(out) :
    out[i] = IF i <= FFTSize THEN {}
             ELSE {<<w, samples[i - FFTSize]>> : w \in Covering(i - FFTSize)}
=============================================================================
