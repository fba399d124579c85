# HooleyBits: models and proofs

HooleyBits is one repository of many small Mac and iPhone programs, most of
them experiments.  The programs with a logic worth checking are the few that
move audio between threads or buffers: `MP3Play Test` (an MP3 streamer and its
screen), `AudioFileParser` (a WAV file rendered offline and turned into
spectra), `HooFlac` (FLAC made a library of a Flash movie) and `iphonePlay` (a
synthesiser with a touch keyboard).  This directory holds TLA+ models of them,
the TLC configurations that check the models, and TLAPS proofs.

`PROJECT.json` maps every definition to its source lines and lists the runs,
the mutants that show each property can fail, the hazards and the theorems.

## Inventory

| Part | State it keeps | Operations | What is hard |
|---|---|---|---|
| MP3Play: `HooAudioStreamer` | three audio queue buffers with `_inuse`, the fill position, `userRequestStop`, `started`, `stopped`, `failed`; a mutex and a condition that are never initialised | start, stop, parse data, copy a packet, enqueue a buffer, end of stream, the two audio queue callbacks | three threads over state nothing locks; stop at any moment; calls that fail |
| MP3Play: `MP3Downloader` | the delegate, `_streamShouldFinish`, the failure flag | a run loop on its own thread, `stopIfNeeded` from the main thread | the delegate goes away under the running thread |
| MP3Play: player screen | the current player, `isPlaying`, `isBuffering`, the buttons, the spinner | play, stop, and the observers' messages to the main thread | a message does not say whose it is, and may come after its player was replaced |
| AudioFileParser: offline render | the read position, the one buffer, flushed and done flags | read and enqueue, render until flushed | exceptions that skip the completion callback |
| AudioFileParser: `BufferStore` | whole blocks, a partial block, a read position | add frames, close, read | arithmetic of the partial block |
| AudioFileParser: `HooSpectralProcessor`, `SpectrumResults` | a ring buffer with a write and a read position; the spectra | process, flush | overlap, wrap-around, the last window |
| HooFlac: `bitwriter.c`, `bitreader.c` | an accumulator and a buffer of words; the words consumed and bits of the next, a CRC | write raw, unary, Rice and blocks, pad, get the buffer; read the same, skip, refill | every alignment; a buffer that grows or is refused memory; input that comes a few bytes at a time |
| HooFlac: `stream_encoder.c`, `AS3_main.c` | the samples gathered, counters and MD5, the place of STREAMINFO; the movie's two byte arrays | create, encode a chunk, destroy; process a frame, update the metadata | three lengths (chunk, piece, block) that do not divide each other; a failure anywhere |
| iphonePlay: synthesiser | sixteen channels with status, amplitude and age; pending turn-offs | turn a sine on and off, the delayed turn-off, the render callback | the audio thread reads and writes channels without a lock |
| iphonePlay: keyboard | open touches, key layers, pressed keys, the channel of each frequency | touch began, moved, ended, cancelled | touches that cross on a key; all channels taken |
| everything else | see `PROJECT.json` | drawing, parsing, drivers, vendored code | sequential, or other people's code |

How they interact.  In MP3Play the screen creates a streamer, observes its
`started` and `stopped` and bounces what it observes to the main thread.  The
streamer detaches a thread, on which its downloader runs a run loop; the
downloader calls the streamer (`parseAudioBytes:`, `connectionFinishedLoading`,
`failWithError:`), whose `AudioFileStream` callbacks fill buffers and hand them
to the audio queue; the audio queue calls back on a thread of its own.  The
main thread stops the streamer and then the downloader.  In AudioFileParser
everything runs on one thread: the render loop calls the block store through
an `NSInvocation`, then the blocks are read into the spectral processor, which
calls the results with each spectrum.  In HooFlac the movie calls the driver,
the driver the encoder, the encoder its bit writer and, when a frame is done,
the driver's write, seek and tell callbacks.  In iphonePlay touches go to the
tracker and the keyboard widget, from there to the keyboard, the sine player
and the generator; the audio unit graph calls `renderInput` for each active
channel on the audio thread; the generator sends itself a delayed message on
the main run loop until a released note has ended.

## The streamer

Modules: `AudioQueue` (the audio queue, external: modelled from how the
streamer uses it), `HooAudioStreamer` (the streamer, its downloader and the
threads), `Playback` (what a listener is promised), `MCHooAudioStreamer` (the
packet sizes for TLC).

`wpc` is where the download thread is; `mpc` the main thread inside
`stopPlayingAudio` and `stopIfNeeded`; `cpc` the audio queue's thread inside
`MyAudioQueueOutputCallback`.  The other variables are the instance variables
of the two classes under (nearly) their names.  Actions are as long as the code
between two places where another thread could interfere: a handler that only
touches its own thread's state is one action, `enqueueBuffer` is five
(`MarkInUse`, `SubmitBuffer`, `StartQueue`, `AdvanceBuffer`, `AwaitBuffer`), and
the callback is two.  `_buffersUsed`, on which only a log depends, is left out.

The class declares a mutex and a condition (`HooAudioStreamer.h:95-96`) and
locks, waits and signals, but no `pthread_mutex_init`, `pthread_cond_init` or
static initialiser is anywhere.  On Darwin, calls with such zeroed objects return
`EINVAL` at once, and no caller looks at what they return.  The model therefore
has neither: no section of the code excludes another, and the wait at the end of
`enqueueBuffer` is a loop that reads `_inuse` until it is cleared.  What the
properties say holds without the lock.

A packet is its number in the stream; only its size matters.  A buffer on the
audio queue carries the packets it was filled with, so `heard` is what the
listener hears.  `AudioToolbox` calls may fail when `ApiErrors` holds, and the
connection when `NetErrors` does.  The C arithmetic of the free space in a
buffer is modulo `SizeMod`.  An assertion that fails, or a copy through a null
pointer, ends the program (`wpc = "aborted"`).

| Run | Question | Properties |
|---|---|---|
| `streamer` | does the protocol of the three buffers hold with a user who may stop at any moment, and does the streamer implement `Playback`? | `TypeOK`, `BufferOwnership`, `CopyIntoIdleBuffer`, `PacketFits`, `HeardInOrder`, `OnlyEarlyStopAborts`, `ListenerSpec` |
| `streamer_live` | when any AudioToolbox call may fail: does the awaited buffer come back, is a stop prompt, does `enqueueBuffer` return unless it fills a queue that a failure has stopped, does a stop end the thread, is the end reported? | `AwaitedComesBack`, `AtMostOneLateBuffer`, `EnqueueReturns`, `StopEndsWorker`, `EndIsReported` |
| `stop_before_start` | violation: a stop between creating and starting the queue is never reported to the observers | `StopIsReported` |

Bounds.  `NumBufs` is the code's three in `streamer`, two elsewhere (the
smallest number with a next buffer).  `BufSize = 2` and `MaxDescs = 2` with
packets of size 1 and 2 give all cases of `handleAudioPackets:`: the packet
fits, it does not fit a partly filled buffer, it fills it exactly, the
descriptions run out first.  The streams (`MixedPackets`, `FewPackets`) are long
enough to use every buffer and come back to the first one, so that the worker
must wait.  `FewPackets` has four packets for two buffers: after an enqueue that
failed both are filled and marked once more, and the worker comes to wait for one
that nobody will play.  `MaxBatch` bounds the packets of one parse call (three in
`streamer`, two elsewhere), two being enough for a call that enqueues in its
middle.  `SizeMod` only has to exceed every fill
level.  A user stops at most once: the screen forgets the player when it does.

Fairness.  `Fairness` is weak fairness of each thread (the system schedules a
thread that can run), of the audio queue's callbacks and of the hardware that
plays what it is given.  A run loop turn ends within a second whatever the
network does, so the turn itself is fair, but no particular event in it is:
nothing makes data arrive, the stream end or the user stop.  A worker that waits
reads the flag again and again, so it finds one that stays cleared.

## The player screen

`PlayerScreen` is `ActorKitTestViewController` with several players one after
the other.  Of a player only what it reports is kept: started once, stopped
once on its own, and once more from within `stopPlayingAudio` when it has no
queue.  Reports come from threads of their own at any moment after
`startPlayingAudio` (`PlayerStarts`, `PlayerStops`); while the screen observes
the player each becomes a message on the main run loop (`Bounced`), handled in
order, one at a time, by `AudioIsReady` and `StopMessage`.  `playAudio` and
`stopAudio` are two steps each (`PlayTapped`, `ShowPlaying`; `StopPlaying`,
`Forget`), because the player's threads may report between them.  `whose`,
`asked` and `over` are history.

| Run | Question | Properties |
|---|---|---|
| `screen` | with three players, each reporting before, during or after the handler that starts or stops it: do flags, buttons and spinner agree between handlers, is no player left playing without the screen, is an end that is reported shown? | `ScreenAgrees`, `OnlyScreenPlays`, `EndIsShown` |

`MaxPlayers = 3` lets a message of the first player meet the second, and what it
makes of the second meet a third.  Deadlock checking is off: the user may stop
tapping.  Fairness is that of `Handler`: the main thread goes on with the
handler it is in and takes the next message; nobody has to tap, and no player
has to report.

## The file parser

Modules: `BufferStore` (frames in, blocks out), `HooSpectralProcessor` (blocks
in, overlapping windows out), `AudioFileParser` (the whole of `doIt`, which
extends the first and has the second as an instance), `Spectrogram` (what is
promised for a file).

`pc` is the line of `doIt` or `beginProcessing:` that runs.  Everything is on
one thread, so what varies is the length of the file, when the audio queue
calls back, and which call fails.  A frame is its number in the file.

`BufferStore` keeps `_allBuffers` and `_partialStore` as `store.blocks` and
`store.partial`, where the code's write position is the length of the latter.
`AddFrames` is `addFrames:` with all it calls: the donation to the partial
store, the whole blocks, the remainder.  The length of the donation is taken as
the code computes it, which is the wrong one of two numbers when a piece runs
over the end of a partly filled store; `AddFramesRaises` is the assertion in
`_donateFramesToPartialStore:`, which compares two frames even when one was
copied, at the first donation or at the one of the remainder.  The module's own
specification, `StoreSpec`, has a client that adds pieces of any length; it is
for the proofs.

`HooSpectralProcessor` has both rings cell by cell, with the code's positions
and masks (`& mask` is `%` for a power of two).  A window made from the input
ring is appended to `windows`; a cell of the output ring is the set of window
samples that have been added to it, so a cell that was not zeroed, or added to
twice, is seen.  `process:` and `processForwards:` are a beginning, one
step per window and a return.

`AudioFileParser` adds the render loop.  `AQTestBufferCallback` is
`BufferCallback`: it is called directly for the first buffer and by the queue
afterwards.  The queue is external: `Render` gives as many frames as asked for,
or what is left of the buffer it has, and its callback comes within the call
that took the last frame or within the next one, both of which the code must
live with.  An exception anywhere in `beginProcessing:` goes to its `@catch`
and from there to the analysis (`Caught`).  `doIt` ends with the assertion of
`AppController.m:97` on the number of spectra (`CheckCount`), which goes to
`"done"` if it holds and to `"raised"` if it does not.  `Processed`, the end of
`processInputData`, is before it: that is where `EveryFrameAnalysed` and
`Spectrogram` take the file to be finished.

| Run | Question | Properties |
|---|---|---|
| `spectra` | do the rings lose, overwrite or repeat a sample, in either direction, for slices of any length? | `WindowsOverlap`, `EverySampleSeen`, `OverlapAdded` |
| `parser` | for 16-bit files of every length, with any call failing: are the frames stored in order, is what is stored the file, is every frame in its one or two spectra, and is `Spectrogram` implemented? | `TypeOK`, `StoredInOrder`, `WholeFileStored`, `EveryFrameAnalysed`, `SpectrogramSpec` |
| `eight_bit_file` | violation: with 8-bit files `addFrames:` writes beyond the partial store | `PartialStoreHolds` |
| `wrong_count` | violation: there is one spectrum more than `doIt` asserts | `CountAsAsserted` |

Bounds.  `BlockSize = FFTSize = 4` and `HopSize = 2` stand for 1024, 1024 and
512: the code takes the hop as half the window and a block as one window.  The
sizes of `CalculateBytesForTime` are scaled with them (`MaxBufferSize`,
`MinBufferSize`, `SampleRate`, and `FrameBytes`, `CaptureBytes` for the two
formats) so that, as in the code, a 16-bit file fills the largest buffer and a
render call returns whole blocks (two of them) while an 8-bit file's does not.
A file of up to `MaxFileFrames = 70` frames needs two refills of the 32-frame
buffer and ends everywhere within a block and within a buffer.  The ring of
`mIOBufSize = 8` cells wraps several times in `MaxSamples = 19` samples.  `eight_bit_file` and `wrong_count` need files of a few
frames only (`MaxFileFrames = 12`).  `spectra` turns deadlock checking off because its client
stops after `MaxSamples`.  A write beyond the partial store ends the model
(`overrun`), whether an assertion follows it or not: what memory it hits is not
the code's to say.  The relations between the sizes (`ParserAssumption`) are
those of the code and hold of these numbers too.

## HooFlac: bits

Modules: `BitWriter` (`bitwriter.c`), `BitReader` (`bitreader.c`), `BitStream`
(what is written goes to a file and is read back).

A value is the sequence of its bits.  The writer's record has the buffer's
words, the accumulator with the garbage left of its last bits, and the
capacity; a call is a function of it, `Memory` the words the allocator may give
during the call, and `ok` what it returns.  The reader's record has the words
and the incomplete one at the tail, `words_read` and `bits_read` (the code's
`consumed_words`, `consumed_bits`), and the CRC as the bits that went into it.
A call of the reader is several steps, since it asks the callback for more when
it runs out: each turn of a scan, each piece of a raw read and each refill is
one (`ScanZeros`, `StopRice`, `ReadRaw`, `Refill`, ...), and a refill gives any
number of bytes there is room and input for, none among them.

A refill that fails leaves the incomplete word at the tail as the shifting and
swapping of its bytes had made it (`bitreader.c:154-155`, and the return at
165-166 before they are swapped back).  `Fail` puts any bits in its place
(`TailLost`): how they come to lie depends on the machine.  What the reader would
give after that is not what was written, so the client does after a failed call
what the decoder does, and clears the reader before the next
(`stream_decoder.c:744`, `834-836`; the seeking code, which goes on reading, is
commented out).  A callback that aborts is not modelled.

| Run | Question | Properties |
|---|---|---|
| `bits` | whatever is written, with whatever calls, alignment and refused memory: do buffer and accumulator hold it, is every store inside the buffer; is it read back by any calls however the bytes come, does the CRC cover each bit once, does a call fail only where the input ends, and return? | `TypeOK`, `WrittenIntact`, `InBuffer`, `CrcCovers`, `FailsOnlyAtEnd`, `ReadBack`, `CallsReturn` |
| `unary_short_read` | violation: a unary scan over a partly consumed tail of zeros counts the consumed part twice, and the reader loses its place | `PlaceKept` |

Where the reader has lost its place (`astray`), `bits` says nothing of its
answers until it is cleared: that is the finding `unary_short_read`, in
`read_unary_unsigned` and `read_rice_signed_block` alike.

Bounds.  Words of `WordBits = 4` and bytes of `ByteBits = 2` stand for 32 and 8:
there are values longer, as long and shorter than a word, two bytes in a word,
and every alignment of each.  `MaxWritten = 8` bits is two words, four bytes;
with `WriterCapacity = 1` and `WriterIncrement = 2` the writer must grow, and
`Memory` has a size that is refused, one that is just enough and one that
always is.  `ReaderCapacity = 2` is the least the reader works with
(`ReaderAssumption`): its buffer is full and shifted again and again.
`RawSizes` (a whole word in `bits`, and less than one in `unary_short_read`),
`RiceParameters` (with and without a binary part), `SkipSizes` and `BlockLength`
are the calls made.  Fairness is that of `ReadStep`, a call, once made, runs on,
and that of `Fetch`: a callback that is asked again and again does not give
nothing for ever, but bytes or the end (the callback for files fails when it has
read none, `stream_decoder.c:2566-2577`).  No call has to be made.

## HooFlac: the encoder

Modules: `StreamEncoder` (the encoder's calls as sets of outcomes),
`AlchemyEncoder` (the movie and the driver in `AS3_main.c`).

The output array is a sequence of fields and frames with a position at which
the next write goes.  A frame is its number, its samples, any size of
`FrameSizes`, and whether something else is in it; what a subframe is made of is
left out.  `Gather` is one turn of the loop in `FLAC__stream_encoder_process`,
with `ProcessFrame` when a block and one sample more is there; `Finish` is the
last frame and the three patches of STREAMINFO, each with its seek.  With
`Faults` any request for memory, any write or any seek may fail, having written
a part or nothing.  `BeginStream` fails for want of memory before anything is
written (`NotBegun`: the encoder is left without its arrays), or in the
midst of writing (`BeginningNotWritten`); the requests of the bit writer at
`stream_encoder.c:937`, `967` and `1005` cannot fail for want of memory, since the
writer begins with room for far more than the metadata.  `AlchemyEncoder` has one
action for a piece of a chunk (`ReadPiece`), one for a turn of the encoder's loop
(`Process`), and one each for the beginning and end of a stream and of a chunk.
The driver ignores that `init` failed and that its own two arrays were not to be
had (`inBuffers`), and writes through the null pointers: `CreateCrashes`,
`ReadCrashes` and `ProcessCrashes` end the model (`pc = "crashed"`), each where the
code does so.

| Run | Question | Properties |
|---|---|---|
| `flac` | with chunks, pieces and blocks of three lengths and any failure: is every sample once and in its place, does STREAMINFO say what is in the stream or nothing, is nothing else written over, does a call for a chunk return, unless there was no memory when the encoder was made? | `SamplesInOrder`, `StreamInfoTrue`, `HeaderNeverLies`, `OnlyInfoIsRewritten`, `ChunkReturns` |

Bounds.  `BlockSize = 2`, `ReadSize = 3` and `ChunkSize = 5` do not divide each
other, so that a block ends within a piece, at its end and after it;
`MaxSamples = 7` is more than a chunk and three blocks.  `Before = 1` puts
something before the stream.  `FrameSizes` has two sizes for a smallest and a
largest.  `PcmMax` and `Loudest` make the seven samples different numbers.
Deadlock checking is off since the movie stops recording, and the encoder is
destroyed once.  Fairness is that of `Chunk`: the call runs on.

## The synthesiser and its keyboard

Modules: `CoreAudioSineGenerator` (the channels, the delayed turn-off and the
render callback), `Keyboard_Simplest` (touches, key layers, keys and the sine
player, composed with the channels).

Each touch of a set of touches is one step of the main thread; a move from one
key to another is two (`TouchMovedOff`, `TouchMovedOn`), with nothing else of
the main thread between.  `TurnOffLater` is `_delayedTurnOff:`, which takes the
channel back (`TakeBack`) or sends itself again (`TryAgain`).  A render callback
reads the channel when it begins (`RenderBegins`), goes through the frames of a
release one by one, where finding that the note has faded (`FrameOfRelease`) and
writing `NOTE_ENDED` (`EndNote`) are two steps, and writes back what it kept in
registers (`RenderEnds`).  The main thread may run between any of these.
Amplitudes and durations are a few steps; phase and waveform are left out.  The
key layers are those `_setupKeys` makes, although in this commit its only call
(`Widget_Keyboard_Simplest.m:208`) is commented out.

| Run | Question | Properties |
|---|---|---|
| `keyboard` | when touches come, cross, leave and are cancelled while the audio thread renders: has each pressed key its own channel, each released note exactly one turn-off, is a note silenced only by a callback that outlived its channel, is no key down for nobody? | `OwnChannel`, `TurnOffIsOwn`, `NoteSounds`, `KeyUnderTouch` |

Bounds.  Two touches on two keys cross in all ways (`Keys`, `Touches`), and one
of them may be cancelled (`MaxCancelled = 1`).  `MaxInputs = 2` channels run out
as soon as a released note still fades.  `MaxAmp = 1`, `MinimumSustain = 0` and
`Frames = 2` leave a note that fades within one callback, or needs two.
`StopsWhenSilent` is the debugging build, where the graph is stopped with the
last channel.  No fairness is assumed and no liveness claimed: whether a
released note's channel comes back depends on the graph calling `renderInput`.
`TurnOffIsOwn` is the safety side of it: the note is on its way, it is rendered,
and one message will find it ended.

## What the code does otherwise than it says

Four disagreements with the code's own words have a run and are the `findings`
of `PROJECT.json`: `stop_before_start`, `eight_bit_file`, `wrong_count` and
`unary_short_read`.
The models show these too, without a run of their own:

* Streamer.  The mutex and the condition are never initialised and do nothing.
  After a failed enqueue on a started queue the comment at
  `HooAudioStreamer.m:219-222` has the worker stopped, but the queue is stopped
  and the worker goes on filling it, until it waits for a buffer that nobody will
  play: for ever, unless the user stops it (the exception in `EnqueueReturns`).
  A stop before the new thread runs makes the assertion at the head
  of `downloadURL:` fail (`OnlyEarlyStopAborts` says nothing else does).  After a
  failed enqueue packets are copied behind the end of the buffer, and through a
  null pointer when the buffers could not be made, which is why `PacketsFit` and
  `CopiesAreSafe` assume that no AudioToolbox call fails.  A failure before the
  start, or an open that fails (`MP3Downloader.m:57`), neither stops the player
  nor tells anyone.  The queue is started after the first buffer, where the
  comment at `HooAudioStreamer.m:254` says all are filled first.
* Screen.  The `stopAudio` of an earlier player may stop a later one, and its
  `audioIsReady` may clear the later one's spinner (`OnlyScreenPlays`,
  `ScreenAgrees` and `EndIsShown` say that nothing worse comes of it); a player
  that is stopped before it has a queue leaves such a message itself.
* File parser.  After an exception in the render loop the store is analysed
  without having been flushed.  A remainder of one frame fails the assertion at
  `BufferStore.m:82` unless what follows in memory is alike (`AddFramesRaises`).
* Encoder.  A chunk's failure is forgotten: the next chunk is encoded with the
  encoder in its error state, which the assertion at `stream_encoder.c:1549`, empty
  in this build, excludes, and `finish` leaves out what is left and reports
  success.  `HeaderNeverLies` says what is true of such a stream all the same.
  An encoder that could not be begun is used all the same, through null pointers
  (the exception in `ChunkReturns`).  The STREAMINFO of a stream without a sample
  keeps the frame sizes the counters begin with.
* Keyboard.  A callback that is still running when its channel has been taken
  back and given to a new note may end that note at its birth (the exception in
  `NoteSounds`).  A cancelled touch is never ended: its key stays down and its
  note on, for as long as the tracker has it open (`KeyUnderTouch`).  A second
  finger on a key that is down is not heard (`Widget_Keyboard_Simplest.m:118`),
  and the note ends with the first one.

## Proofs

Each `*_proofs` module holds the theorems about the module it is named after and
the lemmas they rest on.

| Module | Theorem | For every | Argument |
|---|---|---|---|
| `HooAudioStreamer_proofs` | `TypeCorrect` | constants | `TypeOK` is inductive with `BatchInv`; one step per action |
| | `Ownership` | constants, no failing AudioToolbox call | `BufferOwnership` is inductive with the types: a buffer in use has one holder (the queue, the callback on its way, or the worker between marking and submitting), and each action moves a buffer from one holder to the next |
| | `WaitIsForABuffer` | constants and failures | until a call has failed: a buffer in use has a holder (`HolderInv`), which is not the worker that waits for it; the queue is started with the first buffer it gets (`ReadyInv`), runs from then on while there is something to play (`PlaysInv`), and a queue that runs no more has finished what it holds, or been stopped (`DoneInv`) |
| | `StopIsPrompt` | constants and failures | after the stop is announced only a worker already past the test may enqueue, and it meets the test again first (`LateInv`) |
| | `PacketsFit` | constants, no failing AudioToolbox call | `FitInv`: the fill is within the buffer, so the free space does not wrap, and the test before the copy is meaningful |
| | `CopiesAreSafe` | the same | from `Ownership`, and `AllocInv`: packets are only delivered once the buffers exist |
| | `PlayedInOrder`, `AbortsEarlyOnly` | the same | `PlaybackInv`: besides the two above, where the worker may be before and after the beginning, the end and a stop (`WorkInv`), and that what was heard, what is on the queue, in the worker's hand and in the buffer are, one after the other, the packets before `next` (`OrderInv`) |
| | `KeepsPromise` | the same | the streamer implements `Playback`: each action is a step of the promise (`Deliver`, `Play`, `End`, `Abandon`) or changes nothing it sees; `EndInv` has the reasons for which an end may be reported |
| `BufferStore_proofs` | `InOrder`, `NoneLost` | block size and sequence of pieces of any length, until one is written beyond the partial store | `StoreInv`: until it is closed the store is `Ordered` (the j-th frame of block i is number `(i - 1) * BlockSize + j`, the partial store goes on from there); `DonatedOrdered` and `WithBlocksOrdered` say that frames that follow on keep it so, `AddKeepsOrder` that `addFrames:` splits a piece into such parts, `PaddedBlock` what `closeInput` adds |
| | `MisfitsOverrun` | block size and piece | which pieces those are: exactly those that go on beyond the block they start in, and not for just as much again as they fill of it (`FitKeeps`, `MisfitOverruns`); `AddOverruns` says that a misfit is written beyond the store at once, so no store with frames in the wrong place goes unseen |
| `HooSpectralProcessor_proofs` | `WindowsAreOverlapping`, `NoSampleIsLeft` | window, hop, longest slice and ring | `InputInv`: the cells from `mInFFTPos` up to `mInputPos` are the samples not yet read, at the places that samples and windows already counted give, and a window leaves `FFTSize - HopSize` of them; `FlushInv`: after a flush that is all that is left |
| | `SharesAreAdded` | the same | `OutputInv`: all around the ring from `mOutputPos` on, a cell is what has been added at the one place between `Unread` and a ring further that it can stand for (`Returning`); a window is added where nothing was returned yet, and what is returned leaves an empty cell where the next turn begins |
| `AudioFileParser_proofs` | `TypesAreRight`, `FilesAreStoredWhole` | file, block, ring and buffer sizes, and whichever call fails | `ParserInv`: `RenderInv` (the callback that reads nothing comes after the last frame was rendered, and what was rendered was added, except for the piece in hand), `StoreInv` until an overrun, `InputInv` and `FlushInv`, and `AnalysisInv` (the samples are the blocks read so far) |
| | `EveryFrameIsAnalysed` | the same | a block is two hops, so one hop is left between calls (`HopIsLeft`) and the flush makes one window more: the windows end where the blocks do (`SpectraReachTheEnd`), and a frame is in those of its hop and of the hop before (`FrameIsIn`) |
| | `AssertionFails` | the same | by `EveryFrameIsAnalysed`'s argument there are two spectra for each block, where the assertion of `AppController.m:97` wants one less: `doIt` never gets beyond it |
| | `SpectraAreOfTheFile` | the same | `doIt` implements `Spectrogram`: rendering may only shorten what is analysed (`RenderingGivesUp`), a window made is the next promised (`SpectrumAnalyses`), and `processInputData` returns when none is left out (`FlushMayFinish`) |
| `PlayerScreen_proofs` | `ScreenIsRight`, `OneAtATime` | number of players | `ScreenInv`: besides the two properties, what the main thread knows in the middle of a handler (`HandlerInv`) and that every player but the current one has been told to stop (`AskedInv`); a message of any player keeps it, since what it does depends on `isPlaying` alone |
| `Keyboard_Simplest_proofs` | `ChannelsAreOwn`, `ReleasedNotesEnd`, `KeysUnderTouches` | channels, keys, touches, lengths of notes and callbacks | `KeyboardInv`: the types, `SoundInv` (the graph runs while a channel is active), which the audio thread's steps keep because they write nothing that says whose a channel is, and `TouchInv` (no two keys have the same touch, a touch between two keys has none); `NextFreeChannelIsFree` takes the least free channel from the well-foundedness of the naturals |
| | `PressedNotesSound` | the same | `SilenceInv`: a callback that may still write `NOTE_ENDED` began on a released note, so if the note is pressed the channel has changed hands since |
| `AlchemyEncoder_proofs` | `SamplesAreInOrder` | block, piece and chunk sizes, recordings, what the output had before | `EncoderInv`: while nothing has failed the recording up to `position` is f whole frames, n samples of the encoder and m of the piece (`InOrder`), the writes go to the end and the bit writer is empty; `SamplesJoin` and `SamplesSplit` are about samples, `PutAtEnd` and `PutWithin` about the output, and `BeginStreamOk`, `GatherOk` and `FinishOk` say what the encoder's calls leave when they do not fail; a crash writes nothing (`CrashKeeps`) |
| | `StreamInfoIsTrue`, `HeaderTellsTruth`, `FramesAreKept` | the same, and failures | `HeaderInv`: what is at the header's place, also when its beginning has failed and frames come there; that the encoder is in error exactly if something failed; that otherwise its MD5, total and extremes are those of the frames written; and where a crash leaves the stream (`CrashHeader`) |
| `BitStream_proofs` | `BitsAreIntact`, `StoresAreInside`, `WriterIsRight` | word, byte and buffer sizes, calls and refused memory | `WriterInv`: the words and the accumulator are as full as the counts say (`Good`), and hold what was written; a put appends its bits at any alignment (`Followed`) and stores inside if there is room (`HasRoom`); the size checks, which compare words with bits, are never too short (`RoomIs`, `RiceRoomIs`) |
| | `TypesAreRight`, `CrcIsOfTheFrame` | word, byte and reader buffer sizes, calls, and number of bytes the callback gives | `ReaderInv`: the buffer and what the CRC was taken of are two slices of the file (`Buffered`, `Summed`), which is of whole bytes because the writer was byte aligned when it was written (`FileIs`) |
| | `FailuresAreHonest`, `ReadsBack`, `PlaceIsLostOnlySo` | the same | `ReaderInv` again: what a running call has behind it is zeros and perhaps the stop bit (`Counted`), and every step, refills included, keeps the reader at the bit for which the answers and that much stand (`InPlace`); a call that wants more has less than a word left (`WantsMoreIs`), so that there is room for a byte in any buffer of two words (`SpaceIs`) and only the end of the file makes it fail; after a failed call the reader is where it would be with a buffer that was not scrambled (`Intact`), which is all that is known of it, and no step of a call is made until the reader is cleared (`StepIs`) |

The invariants the runs check are not inductive alone: `AwaitedComesBack`
needs to know that a buffer in use is with somebody, which is `HolderInv`; `PacketFits`
needs to know at every step of the worker between the test and the copy what
the test found; `HeardInOrder` speaks of what was heard and not of the packets
still on their way; `OwnChannel` and `TurnOffIsOwn` need each other and a graph
that runs; `SamplesInOrder` says nothing of where the next write goes, nor
`StreamInfoTrue` of a stream that is not finished; `WindowsOverlap` and
`OverlapAdded` say nothing of what is in the rings, `WholeFileStored` of a
store still open, nor `ReadBack` of a buffer or of a call that is not finished.

`AudioFileParser_proofs` extends the proofs about the block store, and takes
those about the spectral processor as an instance: `RingSizes` shows that the
sizes `doIt` gives it meet what those proofs assume, and `SameRing` that they are
about the same operations.

Assumptions.  They are those the modules state for their constants.  For the
streamer `ConstantsAssumption` (at least two buffers, positive sizes, packets
that fit a buffer, `SizeMod` larger than a buffer) and, where said, `~ApiErrors`,
which is needed: with failing calls TLC finds each of these properties violated
(`HeardInOrder` by a packet whose enqueue failed, `OnlyEarlyStopAborts` by a copy
through a null pointer).  For the block store `StoreAssumption` (blocks of at
least two frames, and fewer than `SizeMod`, so that the difference in `Needed`
does not wrap).  For the spectral processor `ProcessorAssumption` (a hop
within a window, and a ring, whose size is a power of two, with room for a
window and a slice: `NextPowerOfTwo` of their sum).  For the file parser
`ParserAssumption` (a block is a window is two hops, as `AppController` and
`SpectrumResults` have it, and such a ring).  For the bit writer
`WriterAssumption` (a word is a whole number of bytes; positive sizes), for the
bit reader `ReaderAssumption` (a buffer of two words or more; raw reads of at
most a word, Rice parameters of less, which the code asserts).  For the
screen, the keyboard and the encoder only positive numbers, and that the
special values are not members of the sets.

Only model-checked: the liveness properties (`EnqueueReturns`, `StopEndsWorker`,
`EndIsReported`, `EndIsShown`, `CallsReturn`, `ChunkReturns`): fairness and
`ENABLED` are beyond the proof system used.

## Not modelled

* Streamer: `dealloc` (whether its `AudioQueueDispose` waits for a callback in
  flight is the library's business); the magic cookie; `currentPlayTime` and the
  other accessors; `_buffersUsed`.  `AudioQueueStop(true)` is taken not to wait for
  the callbacks, as its callers take it (they believe they hold the mutex the
  callbacks lock, `HooAudioStreamer.m:104`).
* File parser: `processBackwards:` and the floating-point transforms;
  `setReadSize:overlap:`, which sets two variables nothing reads.
* Bit writer and reader: UTF-8 coded numbers and little-endian values, which are
  several raw calls; the dump functions.
* Encoder: prediction and coding of a block, several channels and mid/side, the
  verifying decoder and its FIFO, `process_interleaved`, the seek table, Ogg,
  settings that `init` refuses, and the driver's one-shot encoders, which make
  the same calls in one go.
* Synthesiser: `setUpGraph` and `tearDownGraph` with `turnOffAllInputs`, which
  only the beginning and end of the application call; `AmplitudeCurve`, the
  waveform and its phase (whose lock-free write-back has the form of that of the
  amplitude, and no consequence but a click); the scroll controller in front of
  the widget and all drawing.
* The rest of the repository, listed in `PROJECT.json` with a reason each:
  drawing and layout, sequential parsers, drivers and demonstrations of one
  system call, code for frameworks the repository does not hold, and code by
  others.  By lines that is nearly all of it.  FLAC alone is there twice and
  with its tools, FreeType's rasteriser, FFT codes and the headers of Quartz
  Composer follow, while the programs modelled here are a few thousand lines,
  most of them Objective-C.

## Plan

Done: the streamer and its downloader, the screen, the file parser, the bit
writer and reader, the encoder with its driver, the synthesiser with its
keyboard; the proofs above, which are of every safety property the passing runs
check.  Left, in this order: the encoder's verifying decoder, whose FIFO is the
one queue of HooFlac; `FolderWatcher` and `AudioQueueFilePlayer`, whose own code
keeps little state.
