----------------------------- MODULE BufferStore -----------------------------
(***************************************************************************)
(* AudioFileParser's BufferStore: frames come in pieces of any length and  *)
(* leave in blocks of BlockSize.  What does not fill a block waits in the  *)
(* partial store; closeInput pads it with zeros.                           *)
(*                                                                         *)
(* A frame is its number in the rendered audio, 0 being a padding zero.    *)
(* `added' and `phase' are the history of the calls, kept for the          *)
(* properties: they guard nothing the code does not.                       *)
(***************************************************************************)
EXTENDS Integers, Sequences

CONSTANTS
  BlockSize,     \* _blockSize
  SizeMod        \* 2^(width of NSUInteger)

ASSUME StoreAssumption ==
  /\ BlockSize \in Nat \ {0, 1}
  /\ SizeMod \in Nat /\ SizeMod > BlockSize

VARIABLES
  store,          \* .blocks: _allBuffers, .partial: the frames in _partialStore
  readIteration,
  added,          \* how many frames addFrames: was called with
  phase           \* "open", "closed", or "raised" by an assertion

storeVars == <<store, readIteration, added, phase>>

StoreTypeOK ==
  /\ store \in [blocks : Seq([1 .. BlockSize -> Nat]), partial : Seq(Nat)]
  /\ readIteration \in Nat
  /\ added \in Nat
  /\ phase \in {"open", "closed", "raised"}

\* init, then setBlockSize: before anything is added.
StoreInit ==
  /\ store = [blocks |-> <<>>, partial |-> <<>>]
  /\ readIteration = 0
  /\ added = 0
  /\ phase = "open"

-----------------------------------------------------------------------------
(* addFrames:                                                              *)

\* framesNeededToCompletePartialStore, in NSUInteger.
Needed == (BlockSize - Len(store.partial)) % SizeMod

\* Of n frames, how many go to the partial store first.
Donation(n) ==
  IF store.partial = <<>> THEN 0
  ELSE IF n > Needed THEN n - Needed ELSE n

\* _donateFramesToPartialStore: and _checkPartialStoreComplete.
Donated(s, data) ==
  LET p == s.partial \o data
  IN  IF Len(p) = BlockSize
      THEN [blocks |-> Append(s.blocks, p), partial |-> <<>>]
      ELSE [s EXCEPT !.partial = p]

\* The whole blocks of data are stored.
WithBlocks(s, data) ==
  LET Block(i) == [j \in 1 .. BlockSize |-> data[(i - 1) * BlockSize + j]]
  IN  [s EXCEPT !.blocks =
         @ \o [i \in 1 .. Len(data) \div BlockSize |-> Block(i)]]

\* Splitting data: the donation, the rest, and what is over after whole blocks.
First(data) == SubSeq(data, 1, Donation(Len(data)))
Rest(data) == SubSeq(data, Donation(Len(data)) + 1, Len(data))

\* Mutant: the whole blocks are not skipped.
OverFromStart(data) ==
  LET r == Rest(data) IN SubSeq(r, 1, Len(r) % BlockSize)

Over(data) ==
  LET r == Rest(data)
  IN  SubSeq(r, (Len(r) \div BlockSize) * BlockSize + 1, Len(r))

StoreFirst(data) ==
  IF First(data) = <<>> THEN store ELSE Donated(store, First(data))

AddFrames(data) ==
  /\ store' = Donated(WithBlocks(StoreFirst(data), Rest(data)), Over(data))
  /\ added' = added + Len(data)
  /\ UNCHANGED <<readIteration, phase>>

\* _donateFramesToPartialStore: checks that two frames were copied.  When it is
\* given one, it compares whatever follows it in the two buffers, and the
\* assertion fails unless they happen to be alike: at either of its calls.
AddFramesRaises(data) ==
  /\ \/ Len(First(data)) = 1 /\ store' = store
     \/ Len(Over(data)) = 1 /\ store' = WithBlocks(StoreFirst(data), Rest(data))
  /\ added' = added + Len(data)
  /\ phase' = "raised"
  /\ UNCHANGED readIteration

-----------------------------------------------------------------------------
(* closeInput and reading.                                                 *)

CloseInput ==
  /\ IF store.partial = <<>> THEN UNCHANGED store
     ELSE store' = Donated(store, [i \in 1 .. BlockSize - Len(store.partial)
                                        |-> 0])
  /\ phase' = "closed"
  /\ UNCHANGED <<readIteration, added>>

ResetReading == readIteration' = 0 /\ UNCHANGED <<store, added, phase>>

HasMoreSamples == readIteration < Len(store.blocks)

\* nextSamples returns the block at the old index.
NextSamples ==
  /\ readIteration' = readIteration + 1
  /\ UNCHANGED <<store, added, phase>>

-----------------------------------------------------------------------------
(* A client that adds pieces of any length, closes and reads.  What is     *)
(* written beyond the partial store has no defined outcome: the client     *)
(* stops there.                                                            *)

Overrun == Len(store.partial) > BlockSize

Piece(n) == [i \in 1 .. n |-> added + i]

Add ==
  /\ phase = "open"
  /\ \E n \in Nat \ {0} : AddFrames(Piece(n)) \/ AddFramesRaises(Piece(n))

Close == phase = "open" /\ CloseInput

Read ==
  \/ HasMoreSamples /\ NextSamples
  \/ ResetReading

StoreNext == ~Overrun /\ (Add \/ Close \/ Read)

StoreSpec == StoreInit /\ [][StoreNext]_storeVars

-----------------------------------------------------------------------------
(* Properties.                                                             *)

\* The frame the store should hold at position k.
FrameAt(k) == IF k <= added THEN k ELSE 0

BlocksInOrder ==
  \A i \in 1 .. Len(store.blocks), j \in 1 .. BlockSize :
    store.blocks[i][j] = FrameAt((i - 1) * BlockSize + j)

PartialInOrder ==
  /\ Len(store.partial) < BlockSize
  /\ \A j \in 1 .. Len(store.partial) :
       store.partial[j] = Len(store.blocks) * BlockSize + j

\* The blocks hold the frames in the order they came in, each once, and the
\* partial store the ones that follow, without ever being full between calls,
\* as long as nothing was written beyond it.
StoredInOrder == ~Overrun => BlocksInOrder /\ PartialInOrder

\* No frame is left behind: while the input is open all frames added are in the
\* blocks or the partial store; once it is closed they are all in the blocks,
\* with less than a block of padding.
NothingLost ==
  ~Overrun =>
    /\ phase = "open" =>
         Len(store.blocks) * BlockSize + Len(store.partial) = added
    /\ phase = "closed" =>
         /\ Len(store.blocks) * BlockSize >= added
         /\ Len(store.blocks) * BlockSize < added + BlockSize
         /\ store.partial = <<>>

\* The lengths for which the donation is right: a piece that starts a block, or
\* ends in the one it starts in, or goes on beyond it for just as much again.
Fits(n) == store.partial = <<>> \/ n <= Needed \/ n = 2 * Needed

\* Every other piece overruns the partial store as it is added, and none of
\* these does.
OverrunByMisfit ==
  [][phase' = "open" =>
       (Overrun' <=> added' # added /\ ~Fits(added' - added))]_storeVars
=============================================================================
