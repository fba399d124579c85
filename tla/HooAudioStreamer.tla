-------------------------- MODULE HooAudioStreamer --------------------------
(***************************************************************************)
(* One HooAudioStreamer with its MP3Downloader, from startPlayingAudio on. *)
(*                                                                         *)
(* Three threads meet in it:                                               *)
(*   worker    the thread startPlayingAudio detaches.  It runs the         *)
(*             downloader's run loop, parses what arrives, fills buffers   *)
(*             and hands them to the audio queue (wpc);                    *)
(*   main      the user interface, which may call stopPlayingAudio at any  *)
(*             moment, once: the view controller then forgets the player   *)
(*             (mpc);                                                      *)
(*   callback  the audio queue's thread, which gives buffers back and      *)
(*             reports that the queue started or stopped (cpc).            *)
(* They share inuse and a few flags under nothing.  The class has a mutex  *)
(* and a condition (HooAudioStreamer.h:95), and locks, waits and signals,  *)
(* but nothing ever initialises the two: they are the zeros they were      *)
(* allocated as, for which Darwin's pthread_mutex_lock, pthread_cond_wait  *)
(* and pthread_cond_signal return EINVAL at once, and no caller looks at   *)
(* what they return.  So nobody excludes anybody, and enqueueBuffer's wait *)
(* is a loop that reads _inuse until it finds it cleared.                  *)
(***************************************************************************)
EXTENDS AudioQueue

CONSTANTS
  NumBufs,      \* kNumAQBufs
  BufSize,      \* kAQBufSize, in units of the packet sizes
  MaxDescs,     \* kAQMaxPacketDescs
  SizeMod,      \* 2^(width of size_t), in the same units
  PacketSizes,  \* the sizes of the packets of the longest stream served
  MaxBatch,     \* most packets one parse call delivers
  ApiErrors,    \* may AudioToolbox calls return an error?
  NetErrors     \* may the connection fail?

NumPackets == Len(PacketSizes)
Bufs == 0 .. NumBufs - 1

ASSUME ConstantsAssumption ==
  /\ NumBufs \in Nat \ {0, 1}
  /\ BufSize \in Nat \ {0}
  /\ MaxDescs \in Nat \ {0}
  /\ SizeMod \in Nat /\ SizeMod > BufSize
  /\ PacketSizes \in Seq(1 .. BufSize)
  /\ MaxBatch \in Nat \ {0}
  /\ ApiErrors \in BOOLEAN
  /\ NetErrors \in BOOLEAN

VARIABLES
  \* HooAudioStreamer
  userRequestStop, started, stopped, failed,
  allocated,           \* how many of _audioQueueBuffers are allocated
  fill,                \* _fillBufferIndex
  inuse,
  bytesFilled,
  descs,               \* _packetDescs[0 .. _packetsFilled - 1]
  \* MP3Downloader
  delegate,            \* is the delegate still set?
  streamShouldFinish, dlFailed,
  \* the threads
  wpc, ret,            \* the worker, and where enqueueBuffer returns to
  ending,              \* the data being parsed is the last (EndEncountered)
  ready,               \* the file stream has produced ReadyToProducePackets
  next, batch,         \* the next packet to copy, and how many of the parse
                       \* call are left
  mpc,
  cpc, cbuf,           \* the callback and its buffer
  late                 \* buffers enqueued since stopPlayingAudio was called

statusVars == <<started, stopped, failed>>
fillVars == <<allocated, fill, bytesFilled, descs>>
streamerVars == <<statusVars, fillVars, inuse>>
endVars == <<streamShouldFinish, dlFailed>>
readVars == <<ending, ready, next, batch>>
enqVars == <<ret, late>>
workerVars == <<wpc, readVars, enqVars>>
uiVars == <<mpc, userRequestStop, delegate>>
cbVars == <<cpc, cbuf>>
others == <<uiVars, cbVars>>   \* what the worker never changes
vars == <<aqVars, streamerVars, endVars, workerVars, others>>

WorkerPCs ==
  {"opening", "asserting", "connecting", "looping", "eventWait", "parsing",
   "property", "delivering", "packet", "copy", "enqueue", "submit",
   "start", "advance", "waiting", "finishing", "drain", "exited", "aborted"}
Returns == {"copy", "packet", "drain"}
MainPCs == {"playing", "stopping", "detaching", "finishing", "released"}
CallbackPCs == {"idle", "returning"}

QueueTypeOK ==
  /\ aq \in {"none", "idle", "running", "draining"}
  /\ queue \in Seq([buf : Bufs, pkts : Seq(1 .. NumPackets)])
  /\ finished \in 0 .. Len(queue)
  /\ listener \in BOOLEAN /\ notify \in BOOLEAN
  /\ heard \in Seq(1 .. NumPackets)

PositionTypeOK ==
  /\ next \in 1 .. NumPackets + 1
  /\ batch \in 0 .. NumPackets
  /\ next + batch <= NumPackets + 1

TypeOK ==
  /\ QueueTypeOK
  /\ userRequestStop \in BOOLEAN /\ started \in BOOLEAN
  /\ stopped \in BOOLEAN /\ failed \in BOOLEAN
  /\ allocated \in 0 .. NumBufs
  /\ fill \in Bufs
  /\ inuse \in [Bufs -> BOOLEAN]
  /\ bytesFilled \in Nat
  /\ descs \in Seq(1 .. NumPackets)
  /\ delegate \in BOOLEAN /\ streamShouldFinish \in BOOLEAN
  /\ dlFailed \in BOOLEAN
  /\ wpc \in WorkerPCs /\ ret \in Returns
  /\ ending \in BOOLEAN /\ ready \in BOOLEAN
  /\ PositionTypeOK
  /\ mpc \in MainPCs
  /\ cpc \in CallbackPCs /\ cbuf \in Bufs
  /\ late \in Nat

\* initWithURL: then startPlayingAudio: the thread exists and has not run yet.
\* initWithURL: makes no mutex and no condition.
Init ==
  /\ AQInit
  /\ userRequestStop = FALSE /\ started = FALSE
  /\ stopped = FALSE /\ failed = FALSE
  /\ allocated = 0
  /\ fill = 0
  /\ inuse = [b \in Bufs |-> FALSE]
  /\ bytesFilled = 0
  /\ descs = <<>>
  /\ delegate = TRUE /\ streamShouldFinish = FALSE /\ dlFailed = FALSE
  /\ wpc = "opening" /\ ret = "copy"
  /\ ending = FALSE /\ ready = FALSE
  /\ next = 1 /\ batch = 0
  /\ mpc = "playing"
  /\ cpc = "idle" /\ cbuf = 0
  /\ late = 0

-----------------------------------------------------------------------------
(* Helpers.                                                                *)

Goto(pc) == wpc' = pc

\* An assertion that fails on the worker ends the program, every thread of it.
Alive == wpc # "aborted"

\* Where the worker goes when didReceiveData: has returned: an EndEncountered
\* event goes on to connectionDidFinishLoading:.
AfterParse == IF ending THEN "finishing" ELSE "looping"

\* Mutant: wraps one buffer too late.
NextBufferLate(b) == IF b + 1 > NumBufs THEN 0 ELSE b + 1

\* _fillBufferIndex of the buffer after b.
NextBuffer(b) == IF b + 1 >= NumBufs THEN 0 ELSE b + 1

\* Mutant: one unit too many.
SpaceOffByOne == (BufSize + 1 - bytesFilled) % SizeMod

\* bufSpaceRemaining, computed in size_t.
SpaceRemaining == (BufSize - bytesFilled) % SizeMod

\* failWithError:string: only the first failure counts.
FailWithError ==
  \/ failed /\ UNCHANGED <<aqVars, failed>>
  \/ ~failed /\ failed' = TRUE /\ started /\ StopNow
  \/ ~failed /\ failed' = TRUE /\ ~started /\ UNCHANGED aqVars

-----------------------------------------------------------------------------
(* The worker: opening the file stream and the connection.                 *)

\* _startInternalPlayingAudio
OpenFileStream ==
  /\ wpc = "opening"
  /\ \/ Goto("asserting")
     \/ ApiErrors /\ Goto("exited")
  /\ UNCHANGED <<aqVars, streamerVars, endVars, readVars, enqVars, others>>

\* downloadURL: asserts that it has a delegate; NSAssert is compiled in, and
\* nothing on this thread catches the exception.
AssertDelegate ==
  /\ wpc = "asserting"
  /\ Goto(IF delegate THEN "connecting" ELSE "aborted")
  /\ UNCHANGED <<aqVars, streamerVars, endVars, readVars, enqVars, others>>

\* CFReadStreamOpen, and scheduling the stream on the thread's run loop.
OpenConnection ==
  /\ wpc = "connecting"
  /\ \/ Goto("looping")
     \/ NetErrors /\ Goto("exited")
  /\ UNCHANGED <<aqVars, streamerVars, endVars, readVars, enqVars, others>>

\* The head of the download loop; leaving it closes the stream and ends the
\* thread.  A message to the nil delegate does nothing.
LoopTop ==
  /\ wpc = "looping"
  /\ \/ streamShouldFinish /\ Goto("exited") /\ UNCHANGED <<aqVars, failed>>
     \/ /\ ~streamShouldFinish /\ dlFailed
        /\ Goto("exited")
        /\ IF delegate THEN FailWithError ELSE UNCHANGED <<aqVars, failed>>
     \/ /\ ~streamShouldFinish /\ ~dlFailed
        /\ Goto("eventWait")
        /\ UNCHANGED <<aqVars, failed>>
  /\ UNCHANGED <<started, stopped, fillVars, inuse, endVars, readVars,
                 enqVars, others>>

-----------------------------------------------------------------------------
(* The worker: run loop events.                                            *)

\* One turn of the run loop, at most a second long.  Any prefix of the packets
\* may be all there is: the server decides when the stream ends.
RunLoopTurn ==
  /\ wpc = "eventWait"
  /\ \/ Goto("looping") /\ UNCHANGED <<dlFailed, ending>>        \* no event
     \/ \E last \in BOOLEAN :                                    \* data
          Goto("parsing") /\ ending' = last /\ UNCHANGED dlFailed
     \/ Goto("finishing") /\ ending' = TRUE /\ UNCHANGED dlFailed \* bare end
     \/ /\ NetErrors                                             \* error
        /\ Goto("looping") /\ dlFailed' = TRUE /\ UNCHANGED ending
  /\ UNCHANGED <<aqVars, streamerVars, streamShouldFinish, ready, next, batch,
                 enqVars, others>>

\* didReceiveData: and parseAudioBytes:, up to the first callback that
\* AudioFileStreamParseBytes makes.
ParseAudioBytes ==
  /\ wpc = "parsing"
  /\ \/ /\ ~delegate
        /\ Goto(AfterParse)
        /\ UNCHANGED <<aqVars, failed, endVars, ready>>
     \/ /\ delegate /\ userRequestStop        \* error 16
        /\ Goto(AfterParse)
        /\ streamShouldFinish' = TRUE
        /\ UNCHANGED <<aqVars, failed, dlFailed, ready>>
     \/ /\ delegate /\ ~userRequestStop
        /\ \/ ready /\ Goto("delivering") /\ UNCHANGED ready
           \/ ~ready /\ Goto(AfterParse) /\ UNCHANGED ready  \* header not whole
           \/ ~ready /\ Goto("property") /\ ready' = TRUE
        /\ UNCHANGED <<aqVars, failed, endVars>>
     \/ /\ delegate /\ ~userRequestStop /\ ApiErrors
        /\ Goto(AfterParse)
        /\ FailWithError
        /\ dlFailed' = TRUE
        /\ UNCHANGED <<streamShouldFinish, ready>>
  /\ UNCHANGED <<started, stopped, fillVars, inuse, ending, next, batch,
                 enqVars, others>>

\* handlePropertyChangeForFileStream: for ReadyToProducePackets.  Each call that
\* fails leaves what the calls before it made, and parsing goes on.
ReadyToProducePackets ==
  /\ wpc = "property"
  /\ Goto("delivering")
  /\ \/ userRequestStop /\ UNCHANGED <<aqVars, failed, allocated>>
     \/ /\ ~userRequestStop
        /\ NewQueue(TRUE)
        /\ allocated' = NumBufs
        /\ UNCHANGED failed
     \/ /\ ~userRequestStop /\ ApiErrors      \* no queue
        /\ failed' = TRUE
        /\ UNCHANGED <<aqVars, allocated>>
     \/ /\ ~userRequestStop /\ ApiErrors      \* no listener, or too few buffers
        /\ \E l \in BOOLEAN, n \in 0 .. NumBufs - 1 :
             /\ l \/ n = 0
             /\ NewQueue(l)
             /\ allocated' = n
        /\ failed' = TRUE
  /\ UNCHANGED <<started, stopped, fill, bytesFilled, descs, inuse,
                 endVars, readVars, enqVars, others>>

\* MyPacketsProc: AudioFileStreamParseBytes delivers the next n packets.
DeliverPackets ==
  /\ wpc = "delivering"
  /\ \E n \in 0 .. MaxBatch :
       /\ next + n <= NumPackets + 1
       /\ \/ n > 0 /\ ~userRequestStop
             /\ Goto("packet") /\ batch' = n /\ UNCHANGED next
          \/ (n = 0 \/ userRequestStop)
             /\ Goto(AfterParse) /\ batch' = 0 /\ next' = next + n
  /\ UNCHANGED <<aqVars, streamerVars, endVars, ending, ready, enqVars,
                 others>>

-----------------------------------------------------------------------------
(* The worker: handleAudioPackets:, one packet after another.              *)

\* handleAudioPackets: returns and the rest of the packets is dropped.
LeavePackets ==
  /\ Goto(AfterParse)
  /\ next' = next + batch
  /\ batch' = 0

\* Before a packet: leave if stopped; enqueue the buffer if the packet does not
\* fit.
CheckPacket ==
  /\ wpc = "packet"
  /\ \/ (batch = 0 \/ userRequestStop) /\ LeavePackets /\ UNCHANGED ret
     \/ /\ batch > 0 /\ ~userRequestStop
        /\ SpaceRemaining < PacketSizes[next]
        /\ Goto("enqueue") /\ ret' = "copy"
        /\ UNCHANGED <<next, batch>>
     \/ /\ batch > 0 /\ ~userRequestStop
        /\ SpaceRemaining >= PacketSizes[next]
        /\ Goto("copy")
        /\ UNCHANGED <<next, batch, ret>>
  /\ UNCHANGED <<aqVars, streamerVars, endVars, ending, ready, late,
                 others>>

\* memcpy and the packet description.  Copying into a buffer that was never
\* allocated dereferences a null pointer.
CopyPacket ==
  /\ wpc = "copy"
  /\ \/ userRequestStop /\ LeavePackets /\ UNCHANGED <<bytesFilled, descs,
                                                       ret>>
     \/ /\ ~userRequestStop /\ fill >= allocated
        /\ Goto("aborted")
        /\ UNCHANGED <<bytesFilled, descs, next, batch, ret>>
     \/ /\ ~userRequestStop /\ fill < allocated
        /\ bytesFilled' = bytesFilled + PacketSizes[next]
        /\ descs' = Append(descs, next)
        /\ next' = next + 1
        /\ batch' = batch - 1
        /\ \/ Len(descs) + 1 = MaxDescs /\ Goto("enqueue") /\ ret' = "packet"
           \/ Len(descs) + 1 # MaxDescs /\ Goto("packet") /\ UNCHANGED ret
  /\ UNCHANGED <<aqVars, statusVars, allocated, fill, inuse, endVars,
                 ending, ready, late, others>>

-----------------------------------------------------------------------------
(* The worker: enqueueBuffer.                                              *)

\* The buffer is marked in use, which the callback undoes.  _buffersUsed, which
\* both of them count with, is left out: it is only printed.
MarkInUse ==
  /\ wpc = "enqueue"
  /\ \/ userRequestStop /\ Goto(ret) /\ UNCHANGED inuse
     \/ /\ ~userRequestStop
        /\ inuse' = [inuse EXCEPT ![fill] = TRUE]
        /\ Goto("submit")
  /\ UNCHANGED <<aqVars, statusVars, fillVars, endVars, readVars, enqVars,
                 others>>

\* AudioQueueEnqueueBuffer.  An error leaves the buffer marked and still filled;
\* the callers go on as if it had been enqueued.
SubmitBuffer ==
  /\ wpc = "submit"
  /\ \/ /\ Enqueue(fill, descs)
        /\ Goto(IF started THEN "advance" ELSE "start")
        /\ late' = IF mpc # "playing" THEN late + 1 ELSE late
        /\ UNCHANGED failed
     \/ /\ ApiErrors
        /\ FailWithError
        /\ Goto(ret)
        /\ UNCHANGED late
  /\ UNCHANGED <<started, stopped, fillVars, inuse, endVars, readVars,
                 ret, others>>

\* AudioQueueStart, after the first buffer.
StartQueue ==
  /\ wpc = "start"
  /\ \/ Start /\ started' = TRUE /\ Goto("advance") /\ UNCHANGED failed
     \/ ApiErrors /\ FailWithError /\ Goto(ret) /\ UNCHANGED started
  /\ UNCHANGED <<stopped, fillVars, inuse, endVars, readVars, enqVars,
                 others>>

\* Mutant: _packetsFilled is not reset.
AdvanceKeepingPackets ==
  /\ wpc = "advance"
  /\ fill' = NextBuffer(fill)
  /\ bytesFilled' = 0
  /\ Goto("waiting")
  /\ UNCHANGED <<aqVars, statusVars, allocated, descs, inuse, endVars,
                 readVars, enqVars, others>>

\* On to the next buffer.
AdvanceBuffer ==
  /\ wpc = "advance"
  /\ fill' = NextBuffer(fill)
  /\ bytesFilled' = 0
  /\ descs' = <<>>
  /\ Goto("waiting")
  /\ UNCHANGED <<aqVars, statusVars, allocated, inuse, endVars, readVars,
                 enqVars, others>>

\* Mutant: enqueueBuffer returns without waiting for the buffer.
ReturnAtOnce ==
  /\ wpc = "waiting"
  /\ Goto(ret)
  /\ UNCHANGED <<aqVars, streamerVars, endVars, readVars, enqVars, others>>

\* The loop around pthread_cond_wait, which returns at once, ends when it finds
\* _inuse cleared.  A turn of it that does not is no step.
AwaitBuffer ==
  /\ wpc = "waiting"
  /\ ~inuse[fill]
  /\ Goto(ret)
  /\ UNCHANGED <<aqVars, streamerVars, endVars, readVars, enqVars, others>>

-----------------------------------------------------------------------------
(* The worker: connectionDidFinishLoading: and connectionFinishedLoading.  *)

\* Mutant: the partly filled buffer is forgotten.
FinishWithoutLastBuffer ==
  /\ wpc = "finishing"
  /\ IF delegate THEN Goto("drain") /\ UNCHANGED streamShouldFinish
     ELSE Goto("looping") /\ streamShouldFinish' = TRUE
  /\ UNCHANGED <<aqVars, streamerVars, dlFailed, readVars, enqVars, others>>

\* A partly filled buffer is enqueued.
FinishLoading ==
  /\ wpc = "finishing"
  /\ \/ /\ ~delegate
        /\ streamShouldFinish' = TRUE
        /\ Goto("looping")
        /\ UNCHANGED ret
     \/ /\ delegate /\ bytesFilled > 0
        /\ Goto("enqueue") /\ ret' = "drain"
        /\ UNCHANGED streamShouldFinish
     \/ /\ delegate /\ bytesFilled = 0
        /\ Goto("drain")
        /\ UNCHANGED <<streamShouldFinish, ret>>
  /\ UNCHANGED <<aqVars, streamerVars, dlFailed, readVars, late,
                 others>>

\* Mutant: flushes and does not stop.
DrainWithoutStop ==
  /\ wpc = "drain"
  /\ stopped' = (stopped \/ aq = "none")
  /\ streamShouldFinish' = TRUE
  /\ Goto("looping")
  /\ UNCHANGED <<aqVars, started, failed, fillVars, inuse, dlFailed,
                 readVars, enqVars, others>>

\* The queue is told to stop when it has played everything.
DrainQueue ==
  /\ wpc = "drain"
  /\ \/ aq = "none" /\ stopped' = TRUE /\ UNCHANGED <<aqVars, failed>>
     \/ aq # "none" /\ StopWhenDrained /\ UNCHANGED <<stopped, failed>>
     \/ aq # "none" /\ ApiErrors /\ FailWithError /\ UNCHANGED stopped
  /\ streamShouldFinish' = TRUE
  /\ Goto("looping")
  /\ UNCHANGED <<started, fillVars, inuse, dlFailed, readVars, enqVars,
                 others>>

-----------------------------------------------------------------------------
(* The main thread: stopPlayingAudio, then the downloader's stopIfNeeded.  *)

\* Mutant: userRequestStop is not set.
StopUnannounced ==
  /\ Alive
  /\ mpc = "playing"
  /\ mpc' = "stopping"
  /\ UNCHANGED <<aqVars, streamerVars, endVars, workerVars,
                 userRequestStop, delegate, cbVars>>

UserStop ==
  /\ Alive
  /\ mpc = "playing"
  /\ userRequestStop' = TRUE
  /\ mpc' = "stopping"
  /\ UNCHANGED <<aqVars, streamerVars, endVars, workerVars, delegate,
                 cbVars>>

StopQueue ==
  /\ Alive
  /\ mpc = "stopping"
  /\ \/ aq # "none" /\ StopNow /\ UNCHANGED stopped
     \/ aq = "none" /\ stopped' = TRUE /\ UNCHANGED aqVars
  /\ mpc' = "detaching"
  /\ UNCHANGED <<started, failed, fillVars, inuse, endVars, workerVars,
                 userRequestStop, delegate, cbVars>>

ClearDelegate ==
  /\ Alive
  /\ mpc = "detaching"
  /\ delegate' = FALSE
  /\ mpc' = "finishing"
  /\ UNCHANGED <<aqVars, streamerVars, endVars, workerVars,
                 userRequestStop, cbVars>>

\* Mutant: only the delegate is cleared.
FinishNothing ==
  /\ Alive
  /\ mpc = "finishing"
  /\ mpc' = "released"
  /\ UNCHANGED <<aqVars, streamerVars, endVars, workerVars,
                 userRequestStop, delegate, cbVars>>

FinishStream ==
  /\ Alive
  /\ mpc = "finishing"
  /\ streamShouldFinish' = TRUE
  /\ mpc' = "released"
  /\ UNCHANGED <<aqVars, streamerVars, dlFailed, workerVars,
                 userRequestStop, delegate, cbVars>>

-----------------------------------------------------------------------------
(* The audio queue's thread.                                               *)

\* MyAudioQueueOutputCallback is called with the oldest finished buffer.
BufferComplete ==
  /\ Alive
  /\ cpc = "idle"
  /\ TakeFinished
  /\ cbuf' = Head(queue).buf
  /\ cpc' = "returning"
  /\ UNCHANGED <<streamerVars, endVars, workerVars, uiVars>>

\* Mutant: MyFindQueueBuffer: looks through all but the last buffer.
FreeAllButLast ==
  /\ Alive
  /\ cpc = "returning"
  /\ inuse' = [b \in Bufs |-> inuse[b] /\ (b # cbuf \/ b = NumBufs - 1)]
  /\ cpc' = "idle"
  /\ UNCHANGED <<aqVars, statusVars, fillVars, endVars, workerVars, uiVars,
                 cbuf>>

\* handleBufferCompleteForQueue: frees the buffer.
FreeBuffer ==
  /\ Alive
  /\ cpc = "returning"
  /\ inuse' = [inuse EXCEPT ![cbuf] = FALSE]
  /\ cpc' = "idle"
  /\ UNCHANGED <<aqVars, statusVars, fillVars, endVars, workerVars, uiVars,
                 cbuf>>

\* handlePropertyChangeForQueue: reads IsRunning when it is called, not when
\* the change happened.
IsRunningChanged ==
  /\ Alive
  /\ cpc = "idle"
  /\ NotificationDelivered(~Running)
  /\ stopped' = ~Running
  /\ UNCHANGED <<started, failed, fillVars, inuse, endVars, workerVars,
                 others>>

\* The queue plays and, once drained, stops.
QueueRuns ==
  /\ Alive
  /\ PlayBuffer \/ DrainEnds
  /\ UNCHANGED <<streamerVars, endVars, workerVars, others>>

-----------------------------------------------------------------------------
EnqueueBuffer ==
  \/ MarkInUse \/ SubmitBuffer \/ StartQueue \/ AdvanceBuffer
  \/ AwaitBuffer

Worker ==
  \/ OpenFileStream \/ AssertDelegate \/ OpenConnection \/ LoopTop
  \/ RunLoopTurn \/ ParseAudioBytes \/ ReadyToProducePackets
  \/ DeliverPackets \/ CheckPacket \/ CopyPacket
  \/ EnqueueBuffer
  \/ FinishLoading \/ DrainQueue

StopPlayingAudio == StopQueue \/ ClearDelegate \/ FinishStream

Callback == BufferComplete \/ FreeBuffer \/ IsRunningChanged

\* Nothing is left to do: the worker is gone, the player released and every
\* callback delivered; or an assertion failed.
Terminated ==
  /\ \/ ~Alive
     \/ /\ wpc = "exited" /\ mpc = "released"
        /\ cpc = "idle" /\ finished = 0 /\ ~notify
  /\ UNCHANGED vars

Next ==
  \/ Worker
  \/ UserStop \/ StopPlayingAudio
  \/ Callback \/ QueueRuns
  \/ Terminated

Spec == Init /\ [][Next]_vars

\* The scheduler runs every thread that can run, a run loop turn ends within a
\* second whether or not anything arrives, and the hardware plays what it is
\* given.  Nothing makes the user stop, or the network deliver or end.
Fairness ==
  /\ WF_vars(Worker)
  /\ WF_vars(StopPlayingAudio)
  /\ WF_vars(Callback)
  /\ WF_vars(QueueRuns)

FairSpec == Spec /\ Fairness

-----------------------------------------------------------------------------
(* Properties.                                                             *)

Queued(b) == \E i \in 1 .. Len(queue) : queue[i].buf = b

Returning(b) == cpc = "returning" /\ cbuf = b

Enqueuing(b) == wpc = "submit" /\ fill = b

QueuedOnce ==
  \A i, j \in 1 .. Len(queue) : queue[i].buf = queue[j].buf => i = j

OneHolder(b) ==
  /\ inuse[b] <=> Queued(b) \/ Returning(b) \/ Enqueuing(b)
  /\ ~(Queued(b) /\ Returning(b))
  /\ ~(Queued(b) /\ Enqueuing(b))
  /\ ~(Returning(b) /\ Enqueuing(b))

\* Every buffer marked in use is with exactly one holder: the worker about to
\* enqueue it, the audio queue, or a callback on its way to free it.  Outside
\* enqueueBuffer the buffer being filled is with none of them.
BufferOwnership ==
  /\ QueuedOnce
  /\ \A b \in Bufs : OneHolder(b)
  /\ wpc \notin {"submit", "start", "advance", "waiting"}
       => ~inuse[fill]

\* "This function gets an idle audio buffer and copies the audio packets into
\* it": the buffer being filled exists, and neither the audio queue nor a
\* callback still to come knows of it.
CopyIntoIdleBuffer ==
  wpc = "copy" => /\ fill < allocated \/ userRequestStop
                  /\ ~inuse[fill] /\ ~Queued(fill)
                  /\ cpc = "returning" => cbuf # fill

\* A packet is only ever copied within the 32K of the buffer and the 512
\* descriptions of the array.
PacketFits == bytesFilled <= BufSize /\ Len(descs) <= MaxDescs

\* The packets are heard in the order of the stream, none twice, none left out.
HeardInOrder == \A k \in 1 .. Len(heard) : heard[k] = k

\* enqueueBuffer waits only for a buffer that is being handed back, or that the
\* audio queue has done with or will play, unless a call has failed.  The late
\* buffer of a stop stays on a queue that plays no more, so it must not be the
\* one that is waited for.
AwaitedComesBack ==
  wpc = "waiting" /\ inuse[fill] =>
    \/ failed
    \/ Returning(fill)
    \/ \E i \in 1 .. Len(queue) :
         queue[i].buf = fill /\ (i <= finished \/ Running)

\* Once the user has asked to stop, at most the one buffer that was past the
\* test in enqueueBuffer still reaches the queue.
AtMostOneLateBuffer == late <= 1

\* While no AudioToolbox call fails, nothing ends the program but the assertion
\* at the head of downloadURL:, and that only for a user who stops before the new
\* thread gets there; one that has begun to download is not ended by the delegate
\* going away under it.
OnlyEarlyStopAborts ==
  wpc = "aborted" => userRequestStop /\ ~delegate /\ ~ready /\ next = 1

\* enqueueBuffer "does not return until a buffer is idle for further filling or
\* the AudioQueue is stopped" (HooAudioStreamer.m:219): it does return, with one
\* exception.  Once failWithError: has stopped the queue the buffers go on being
\* enqueued, on a queue that plays no more, and when all are it waits for ever.
EnqueueReturns ==
  wpc = "waiting" ~> wpc # "waiting" \/ [](failed /\ ~Running)

\* After stopPlayingAudio the download thread ends, whatever the network does.
StopEndsWorker == userRequestStop ~> wpc \in {"exited", "aborted"}

\* A stream that ends after playback started is reported as stopped, unless the
\* user stops it first, or the queue refuses to stop and runs on.
EndIsReported ==
  wpc = "exited" /\ started ~>
    stopped \/ userRequestStop \/ [](failed /\ Running)

\* What the listener is promised (module Playback), seen through the streamer:
\* packets handed to handleAudioPackets: are delivered, and the player has
\* ended when it says so itself, having neither failed nor been stopped.
Listener == INSTANCE Playback WITH
  delivered <- next - 1,
  status <- IF userRequestStop \/ failed THEN "abandoned"
            ELSE IF stopped THEN "ended" ELSE "playing"

\* The streamer keeps the listener's promise as long as no call fails.
ListenerSpec == Listener!Spec

-----------------------------------------------------------------------------
(* What a comment of the code says, and the code does not do.              *)

\* stopPlayingAudio before playback has started "will toggle the isPlaying
\* property so that it is guaranteed to transition" (HooAudioStreamer.m:92): the
\* observers are told that the player stopped before they are removed.
StopIsReported ==
  mpc = "released" /\ ~started => stopped \/ notify
=============================================================================
