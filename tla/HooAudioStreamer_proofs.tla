----------------------- MODULE HooAudioStreamer_proofs -----------------------
(***************************************************************************)
(* The streamer's buffers, for any number of them, any size and any        *)
(* stream:                                                                 *)
(*   types      whatever calls fail.  The one place where types alone do   *)
(*              not carry over is CopyPacket, which reads PacketSizes at   *)
(*              next and counts batch down: a packet must be left          *)
(*              (BatchInv);                                                *)
(*   ownership  BufferOwnership is inductive when no AudioToolbox call     *)
(*              fails;                                                     *)
(*   waiting    whatever calls fail, until one does enqueueBuffer waits    *)
(*              for a buffer that comes back;                              *)
(*   stopping   whatever calls fail, one more buffer at most;              *)
(*   the packets, when no AudioToolbox call fails: they are copied into    *)
(*              memory that is there, is idle and has room; they are heard *)
(*              in the order of the stream; and the streamer keeps the     *)
(*              promise that module Playback makes to its listener.        *)
(***************************************************************************)
EXTENDS HooAudioStreamer, SequenceTheorems, TLAPS

\* Whenever a packet is about to be copied, or will be once enqueueBuffer
\* returns, the parse call has one left.
BatchInv ==
  wpc = "copy" \/ (wpc \in {"enqueue", "submit", "start", "advance",
                            "waiting"} /\ ret = "copy")
    => batch > 0

TypeInv == TypeOK /\ BatchInv

\* The stream has finitely many packets, each no larger than a buffer.
LEMMA NumPacketsType ==
  NumPackets \in Nat /\ PacketSizes \in [1 .. NumPackets -> 1 .. BufSize]
  BY ConstantsAssumption DEF NumPackets

\* There is a first buffer, and after every buffer comes another.
LEMMA BufsType == 
  /\ NumBufs \in Nat
  /\ 0 \in Bufs
  /\ \A b \in Bufs : NextBuffer(b) \in Bufs
  BY ConstantsAssumption DEF Bufs, NextBuffer

\* AudioQueueStop keeps the queue well-formed.
LEMMA StopNowType == QueueTypeOK /\ StopNow => QueueTypeOK'
  BY DEF QueueTypeOK, StopNow

\* failWithError: keeps the queue well-formed.
LEMMA FailType ==
  TypeOK /\ FailWithError => QueueTypeOK' /\ failed' \in BOOLEAN
  BY StopNowType DEF TypeOK, QueueTypeOK, FailWithError, aqVars

\* AudioQueueNewOutput keeps the queue well-formed.
LEMMA NewQueueType ==
  ASSUME QueueTypeOK, NEW l \in BOOLEAN, NewQueue(l) PROVE QueueTypeOK'
  BY DEF QueueTypeOK, NewQueue

\* AudioQueueEnqueueBuffer keeps the queue well-formed.
LEMMA EnqueueType == TypeOK /\ Enqueue(fill, descs) => QueueTypeOK'
  BY DEF QueueTypeOK, Enqueue, TypeOK

\* AudioQueueStart keeps the queue well-formed.
LEMMA StartType == QueueTypeOK /\ Start => QueueTypeOK'
  BY DEF QueueTypeOK, Start

\* AudioQueueStop keeps the queue well-formed when it lets it drain.
LEMMA DrainType == QueueTypeOK /\ StopWhenDrained => QueueTypeOK'
  BY DEF QueueTypeOK, StopWhenDrained

\* The callback is given one of the buffers, and the rest stays well-formed.
LEMMA TakeType ==
  QueueTypeOK /\ TakeFinished => QueueTypeOK' /\ Head(queue).buf \in Bufs
  <1> SUFFICES ASSUME QueueTypeOK, TakeFinished
               PROVE  QueueTypeOK' /\ Head(queue).buf \in Bufs
    OBVIOUS
  <1> USE DEF QueueTypeOK, TakeFinished
  <1>1. queue # <<>>
    OBVIOUS
  <1>2. /\ Head(queue) \in [buf : Bufs, pkts : Seq(1 .. NumPackets)]
          /\ Tail(queue) \in Seq([buf : Bufs, pkts : Seq(1 .. NumPackets)])
          /\ Len(Tail(queue)) = Len(queue) - 1
    BY <1>1, HeadTailProperties
  <1>3. Len(queue) \in Nat
    BY LenProperties
  <1> QED BY <1>2, <1>3

\* The IsRunning callback keeps the queue well-formed.
LEMMA NotifyType == QueueTypeOK /\ NotificationDelivered(~Running) =>
QueueTypeOK'
  BY DEF QueueTypeOK, NotificationDelivered, Running

\* Playing keeps the queue well-formed.
LEMMA QueueRunsType == QueueTypeOK /\ QueueRuns => QueueTypeOK'
  <1>1. ASSUME QueueTypeOK, PlayBuffer PROVE QueueTypeOK'
    <2>1. /\ finished + 1 \in 1 .. Len(queue)
          /\ heard' = heard \o queue[finished + 1].pkts
      BY <1>1 DEF QueueTypeOK, PlayBuffer
    <2>2. queue[finished + 1] \in [buf : Bufs, pkts : Seq(1 .. NumPackets)]
      BY <1>1, <2>1, ElementOfSeq DEF QueueTypeOK
    <2>3. heard' \in Seq(1 .. NumPackets)
      BY <1>1, <2>1, <2>2, ConcatProperties DEF QueueTypeOK
    <2> QED BY <1>1, <2>1, <2>3 DEF QueueTypeOK, PlayBuffer
  <1>2. QueueTypeOK /\ DrainEnds => QueueTypeOK'
    BY DEF QueueTypeOK, DrainEnds
  <1> QED BY <1>1, <1>2 DEF QueueRuns

\* The queue stays well-formed while nothing touches it.
LEMMA QueueFrame == QueueTypeOK /\ UNCHANGED aqVars => QueueTypeOK'
  BY DEF QueueTypeOK, aqVars

\* The position in the stream stays well-formed while nothing touches it.
LEMMA PositionFrame ==
  PositionTypeOK /\ UNCHANGED <<next, batch>> => PositionTypeOK'
  BY DEF PositionTypeOK

\* At first every variable has its type.
LEMMA TypeInit == Init => TypeInv
  BY ConstantsAssumption
  DEF Init, AQInit, TypeInv, TypeOK, QueueTypeOK, PositionTypeOK, BatchInv,
      Bufs, WorkerPCs, Returns, MainPCs, CallbackPCs, NumPackets

\* Every step keeps every variable in its type, action by action.
LEMMA TypeStep == TypeInv /\ [Next]_vars => TypeInv'
  <1> SUFFICES ASSUME TypeOK, BatchInv, [Next]_vars
               PROVE  TypeOK' /\ BatchInv'
    BY DEF TypeInv
  <1> USE NumPacketsType, BufsType, QueueFrame, PositionFrame DEF
     statusVars, fillVars, streamerVars, endVars, readVars,
     enqVars, workerVars, uiVars, cbVars, others, aqVars, BatchInv, Goto,
     WorkerPCs, Returns, MainPCs, CallbackPCs
  <1>1. CASE OpenFileStream \/ AssertDelegate \/ OpenConnection
    <2>1. UNCHANGED <<aqVars, streamerVars, endVars, readVars, enqVars,
                      others>>
      BY <1>1 DEF OpenFileStream, AssertDelegate, OpenConnection
    <2>2. wpc' \in WorkerPCs /\ BatchInv'
      BY <1>1 DEF OpenFileStream, AssertDelegate, OpenConnection
    <2> QED BY <2>1, <2>2 DEF TypeOK
  <1>2. CASE LoopTop
    <2>1. UNCHANGED <<started, stopped, fillVars, inuse, endVars,
                      readVars, enqVars, others>>
      BY <1>2 DEF LoopTop
    <2>2. /\ QueueTypeOK'
          /\ failed' \in BOOLEAN
          /\ wpc' \in WorkerPCs /\ BatchInv'
      BY <1>2, FailType DEF LoopTop, TypeOK
    <2> QED BY <2>1, <2>2 DEF TypeOK
  <1>3. CASE RunLoopTurn
    <2>1. UNCHANGED <<aqVars, streamerVars, streamShouldFinish, ready, next,
                      batch, enqVars, others>>
      BY <1>3 DEF RunLoopTurn
    <2>2. /\ ending' \in BOOLEAN
          /\ dlFailed' \in BOOLEAN
          /\ wpc' \in WorkerPCs /\ BatchInv'
      BY <1>3 DEF RunLoopTurn, TypeOK
    <2> QED BY <2>1, <2>2 DEF TypeOK
  <1>4. CASE ParseAudioBytes
    <2>1. UNCHANGED <<started, stopped, fillVars, inuse, ending, next,
                      batch, enqVars, others>>
      BY <1>4 DEF ParseAudioBytes
    <2>2. /\ QueueTypeOK'
          /\ failed' \in BOOLEAN
          /\ streamShouldFinish' \in BOOLEAN
          /\ dlFailed' \in BOOLEAN
          /\ ready' \in BOOLEAN
          /\ wpc' \in WorkerPCs /\ BatchInv'
      BY <1>4, FailType DEF ParseAudioBytes, AfterParse, TypeOK
    <2> QED BY <2>1, <2>2 DEF TypeOK
  <1>5. CASE ReadyToProducePackets
    <2>1. UNCHANGED <<started, stopped, fill, bytesFilled, descs, inuse,
                      endVars, readVars, enqVars, others>>
      BY <1>5 DEF ReadyToProducePackets
    <2>2. /\ QueueTypeOK'
          /\ failed' \in BOOLEAN
          /\ allocated' \in 0 .. NumBufs
          /\ wpc' \in WorkerPCs /\ BatchInv'
      <3>1. wpc' = "delivering"
        BY <1>5 DEF ReadyToProducePackets
      <3>2. CASE UNCHANGED <<aqVars, allocated>> /\ failed' \in BOOLEAN
        BY <3>1, <3>2 DEF TypeOK
      <3>3. CASE NewQueue(TRUE) /\ allocated' = NumBufs /\ UNCHANGED failed
        <4>1. QueueTypeOK'
          BY <3>3, NewQueueType DEF TypeOK
        <4> QED BY <3>1, <3>3, <4>1 DEF TypeOK
      <3>4. CASE /\ \E l \in BOOLEAN, n \in 0 .. NumBufs - 1 :
                     NewQueue(l) /\ allocated' = n
                 /\ failed' = TRUE
        <4>1. QueueTypeOK'
          BY <3>4, NewQueueType DEF TypeOK
        <4> QED BY <3>1, <3>4, <4>1 DEF TypeOK
      <3> QED BY <1>5, <3>2, <3>3, <3>4 DEF ReadyToProducePackets, TypeOK
    <2> QED BY <2>1, <2>2 DEF TypeOK
  <1>6. CASE DeliverPackets
    <2>1. UNCHANGED <<aqVars, streamerVars, endVars, ending, ready, enqVars,
                      others>>
      BY <1>6 DEF DeliverPackets
    <2>2. /\ PositionTypeOK'
          /\ wpc' \in WorkerPCs /\ BatchInv'
      <3>1. PICK n \in 0 .. MaxBatch :
              /\ next + n <= NumPackets + 1
              /\ \/ n > 0 /\ Goto("packet") /\ batch' = n /\ UNCHANGED next
                 \/ Goto(AfterParse) /\ next' = next + n /\ batch' = 0
        BY <1>6 DEF DeliverPackets
      <3>2. MaxBatch \in Nat
        BY ConstantsAssumption
      <3> QED BY <1>6, <3>1, <3>2
              DEF DeliverPackets, AfterParse, TypeOK, PositionTypeOK
    <2> QED BY <2>1, <2>2 DEF TypeOK
  <1>7. CASE CheckPacket
    <2>1. UNCHANGED <<aqVars, streamerVars, endVars, ending, ready, late,
                      others>>
      BY <1>7 DEF CheckPacket
    <2>2. /\ PositionTypeOK'
          /\ ret' \in Returns
          /\ wpc' \in WorkerPCs /\ BatchInv'
      BY <1>7 DEF CheckPacket, AfterParse, LeavePackets, TypeOK, PositionTypeOK
    <2> QED BY <2>1, <2>2 DEF TypeOK
  <1>8. CASE CopyPacket
    <2>1. UNCHANGED <<aqVars, statusVars, allocated, fill, inuse, endVars,
                      ending, ready, late, others>>
      BY <1>8 DEF CopyPacket
    <2>2. /\ PositionTypeOK'
          /\ ret' \in Returns
          /\ bytesFilled' \in Nat
          /\ descs' \in Seq(1 .. NumPackets)
          /\ wpc' \in WorkerPCs /\ BatchInv'
      <3>1. wpc = "copy" /\ batch > 0 /\ next \in 1 .. NumPackets
        BY <1>8 DEF CopyPacket, TypeOK, PositionTypeOK
      <3>2. CASE LeavePackets /\ UNCHANGED <<ret, bytesFilled, descs>>
        BY <1>8, <3>2 DEF AfterParse, LeavePackets, TypeOK, PositionTypeOK
      <3>3. CASE /\ Goto("aborted")
                 /\ UNCHANGED <<ret, bytesFilled, descs, next, batch>>
        BY <1>8, <3>3 DEF TypeOK
      <3>4. CASE /\ bytesFilled' = bytesFilled + PacketSizes[next]
                 /\ descs' = Append(descs, next)
                 /\ next' = next + 1
                 /\ batch' = batch - 1
                 /\ \/ Goto("enqueue") /\ ret' = "packet"
                    \/ Goto("packet") /\ UNCHANGED ret
        <4>1. bytesFilled' \in Nat
          BY <3>1, <3>4, ConstantsAssumption DEF TypeOK
        <4>2. descs' \in Seq(1 .. NumPackets)
          BY <3>1, <3>4 DEF TypeOK
        <4>3. PositionTypeOK'
          BY <3>1, <3>4 DEF TypeOK, PositionTypeOK
        <4> QED BY <3>4, <4>1, <4>2, <4>3 DEF TypeOK
      <3> QED BY <1>8, <3>2, <3>3, <3>4 DEF CopyPacket
    <2> QED BY <2>1, <2>2 DEF TypeOK
  <1>9. CASE MarkInUse
    <2>1. UNCHANGED <<aqVars, statusVars, fillVars, endVars, readVars, ret,
                      late, others>>
      BY <1>9 DEF MarkInUse
    <2>2. /\ inuse' \in [Bufs -> BOOLEAN]
          /\ wpc' \in WorkerPCs /\ BatchInv'
      BY <1>9 DEF MarkInUse, TypeOK
    <2> QED BY <2>1, <2>2 DEF TypeOK
  <1>10. CASE SubmitBuffer
    <2>1. UNCHANGED <<started, stopped, fillVars, inuse, endVars,
                      readVars, ret, others>>
      BY <1>10 DEF SubmitBuffer
    <2>2. /\ QueueTypeOK'
          /\ failed' \in BOOLEAN
          /\ late' \in Nat
          /\ wpc' \in WorkerPCs /\ BatchInv'
      BY <1>10, FailType, EnqueueType DEF SubmitBuffer, TypeOK
    <2> QED BY <2>1, <2>2 DEF TypeOK
  <1>11. CASE StartQueue
    <2>1. UNCHANGED <<stopped, fillVars, inuse, endVars, readVars,
                      enqVars, others>>
      BY <1>11 DEF StartQueue
    <2>2. /\ QueueTypeOK'
          /\ failed' \in BOOLEAN
          /\ started' \in BOOLEAN
          /\ wpc' \in WorkerPCs /\ BatchInv'
      BY <1>11, FailType, StartType DEF StartQueue, TypeOK
    <2> QED BY <2>1, <2>2 DEF TypeOK
  <1>12. CASE AdvanceBuffer
    <2>1. UNCHANGED <<aqVars, statusVars, allocated, inuse, endVars,
                      readVars, enqVars, others>>
      BY <1>12 DEF AdvanceBuffer
    <2>2. /\ fill' \in Bufs
          /\ bytesFilled' \in Nat
          /\ descs' \in Seq(1 .. NumPackets)
          /\ wpc' \in WorkerPCs /\ BatchInv'
      BY <1>12 DEF AdvanceBuffer, TypeOK
    <2> QED BY <2>1, <2>2 DEF TypeOK
  <1>13. CASE AwaitBuffer
    <2>1. UNCHANGED <<aqVars, statusVars, fillVars, inuse, endVars, readVars,
                      enqVars, others>>
      BY <1>13 DEF AwaitBuffer
    <2>2. wpc' \in WorkerPCs /\ BatchInv'
      BY <1>13 DEF AwaitBuffer, TypeOK
    <2> QED BY <2>1, <2>2 DEF TypeOK
  <1>14. CASE FinishLoading
    <2>1. UNCHANGED <<aqVars, streamerVars, dlFailed, readVars, late,
                      others>>
      BY <1>14 DEF FinishLoading
    <2>2. /\ streamShouldFinish' \in BOOLEAN
          /\ ret' \in Returns
          /\ wpc' \in WorkerPCs /\ BatchInv'
      BY <1>14 DEF FinishLoading, TypeOK
    <2> QED BY <2>1, <2>2 DEF TypeOK
  <1>15. CASE DrainQueue
    <2>1. UNCHANGED <<started, fillVars, inuse, dlFailed, readVars,
                      enqVars, others>>
      BY <1>15 DEF DrainQueue
    <2>2. /\ QueueTypeOK'
          /\ stopped' \in BOOLEAN
          /\ failed' \in BOOLEAN
          /\ streamShouldFinish' \in BOOLEAN
          /\ wpc' \in WorkerPCs /\ BatchInv'
      BY <1>15, FailType, DrainType DEF DrainQueue, TypeOK
    <2> QED BY <2>1, <2>2 DEF TypeOK
  <1>16. CASE UserStop
    <2>1. UNCHANGED <<aqVars, streamerVars, endVars, workerVars, delegate,
                      cbVars>>
      BY <1>16 DEF UserStop
    <2>2. /\ userRequestStop' \in BOOLEAN
          /\ mpc' \in MainPCs
      BY <1>16 DEF UserStop, TypeOK
    <2> QED BY <2>1, <2>2 DEF TypeOK
  <1>17. CASE StopQueue
    <2>1. UNCHANGED <<started, failed, fillVars, inuse, endVars,
                      workerVars, userRequestStop, delegate, cbVars>>
      BY <1>17 DEF StopQueue
    <2>2. /\ QueueTypeOK'
          /\ stopped' \in BOOLEAN
          /\ mpc' \in MainPCs
      BY <1>17, StopNowType DEF StopQueue, TypeOK
    <2> QED BY <2>1, <2>2 DEF TypeOK
  <1>18. CASE ClearDelegate
    <2>1. UNCHANGED <<aqVars, streamerVars, endVars, workerVars,
                      userRequestStop, cbVars>>
      BY <1>18 DEF ClearDelegate
    <2>2. /\ delegate' \in BOOLEAN
          /\ mpc' \in MainPCs
      BY <1>18 DEF ClearDelegate, TypeOK
    <2> QED BY <2>1, <2>2 DEF TypeOK
  <1>19. CASE FinishStream
    <2>1. UNCHANGED <<aqVars, streamerVars, dlFailed, workerVars,
                      userRequestStop, delegate, cbVars>>
      BY <1>19 DEF FinishStream
    <2>2. /\ streamShouldFinish' \in BOOLEAN
          /\ mpc' \in MainPCs
      BY <1>19 DEF FinishStream, TypeOK
    <2> QED BY <2>1, <2>2 DEF TypeOK
  <1>20. CASE BufferComplete
    <2>1. UNCHANGED <<streamerVars, endVars, workerVars, uiVars>>
      BY <1>20 DEF BufferComplete
    <2>2. /\ QueueTypeOK'
          /\ cbuf' \in Bufs
          /\ cpc' \in CallbackPCs
      BY <1>20, TakeType DEF BufferComplete, TypeOK
    <2> QED BY <2>1, <2>2 DEF TypeOK
  <1>21. CASE FreeBuffer
    <2>1. UNCHANGED <<aqVars, statusVars, fillVars, endVars, workerVars,
                      uiVars, cbuf>>
      BY <1>21 DEF FreeBuffer
    <2>2. /\ inuse' \in [Bufs -> BOOLEAN]
          /\ cpc' \in CallbackPCs
      BY <1>21 DEF FreeBuffer, TypeOK
    <2> QED BY <2>1, <2>2 DEF TypeOK
  <1>22. CASE IsRunningChanged
    <2>1. UNCHANGED <<started, failed, fillVars, inuse, endVars,
                      workerVars, others>>
      BY <1>22 DEF IsRunningChanged
    <2>2. /\ QueueTypeOK'
          /\ stopped' \in BOOLEAN
      BY <1>22, NotifyType DEF IsRunningChanged, Running, TypeOK
    <2> QED BY <2>1, <2>2 DEF TypeOK
  <1>23. CASE QueueRuns
    <2>1. UNCHANGED <<streamerVars, endVars, workerVars, others>>
      BY <1>23 DEF QueueRuns
    <2>2. QueueTypeOK'
      BY <1>23, QueueRunsType DEF QueueRuns, TypeOK
    <2> QED BY <2>1, <2>2 DEF TypeOK
  <1>24. CASE UNCHANGED vars
    BY <1>24
    DEF vars, statusVars, fillVars, streamerVars, endVars,
        readVars, enqVars, workerVars, uiVars, cbVars, others, aqVars, TypeOK,
        QueueTypeOK, BatchInv, WorkerPCs, Returns, MainPCs, CallbackPCs
  <1> QED
    BY <1>1, <1>2, <1>3, <1>4, <1>5, <1>6, <1>7, <1>8, <1>9, <1>10,
       <1>11, <1>12, <1>13, <1>14, <1>15, <1>16, <1>17,
       <1>18, <1>19, <1>20, <1>21, <1>22, <1>23, <1>24
    DEF Next, Worker, EnqueueBuffer, StopPlayingAudio, Callback, Terminated

\* Every variable of the streamer keeps its type: the buffer index stays in the
\* ring, the queue holds buffers of the ring, and no packet is read beyond the
\* end of the stream.
THEOREM TypeCorrect == Spec => []TypeOK
  <1>1. TypeInv => TypeOK
    BY DEF TypeInv
  <1> QED BY <1>1, TypeInit, TypeStep, PTL DEF Spec

-----------------------------------------------------------------------------
(* Ownership.                                                              *)

EnqPCs == {"submit", "start", "advance", "waiting"}

\* A step outside enqueueBuffer that leaves the buffers alone keeps their
\* owners.
LEMMA OwnershipFrame ==
  ASSUME BufferOwnership, UNCHANGED <<queue, inuse, fill, cpc, cbuf>>,
         wpc' = wpc \/ (wpc \notin EnqPCs /\ wpc' \notin EnqPCs)
  PROVE  BufferOwnership'
  BY DEF BufferOwnership, QueuedOnce, OneHolder, Queued, Returning, Enqueuing,
     EnqPCs

\* A step that leaves the queue alone keeps what is queued.
LEMMA QueueFrameOwnership ==
  ASSUME UNCHANGED queue
  PROVE  /\ \A b : Queued(b)' <=> Queued(b)
         /\ QueuedOnce' <=> QueuedOnce
  BY DEF Queued, QueuedOnce

\* At first no buffer is in use.
LEMMA OwnershipInit == Init => BufferOwnership
  BY ConstantsAssumption
  DEF Init, AQInit, BufferOwnership, QueuedOnce, OneHolder, Queued, Returning,
      Enqueuing, Bufs

\* AudioQueueEnqueueBuffer adds one buffer to those queued.
LEMMA EnqueueQueued ==
  ASSUME NEW b0 \in Bufs, NEW pkts \in Seq(1 .. NumPackets), TypeOK,
         Enqueue(b0, pkts), QueuedOnce, ~Queued(b0)
  PROVE  QueuedOnce' /\ \A b \in Bufs : Queued(b)' <=> Queued(b) \/ b = b0
  <1> DEFINE Elt == [buf : Bufs, pkts : Seq(1 .. NumPackets)]
             e == [buf |-> b0, pkts |-> pkts]
  <1>1. e \in Elt /\ e.buf = b0 /\ queue \in Seq(Elt) /\ queue' = Append(queue, e)
    BY DEF TypeOK, QueueTypeOK, Enqueue
  <1> HIDE DEF e, Elt
  <1>2. /\ Len(queue) \in Nat
        /\ Len(queue') = Len(queue) + 1
        /\ \A i \in 1 .. Len(queue) : queue'[i] = queue[i]
        /\ queue'[Len(queue) + 1].buf = b0
    BY <1>1, AppendProperties, LenProperties
  <1>3. QueuedOnce'
    BY <1>2 DEF QueuedOnce, Queued
  <1>4. Queued(b0)'
    <2>1. Len(queue') \in Nat /\ Len(queue) + 1 \in 1 .. Len(queue')
      BY <1>2
    <2> QED BY <1>2, <2>1 DEF Queued
  <1>5. ASSUME NEW b \in Bufs, b # b0 PROVE Queued(b)' <=> Queued(b)
    BY <1>2, <1>5 DEF Queued
  <1> QED BY <1>3, <1>4, <1>5

\* The callback's buffer is the one that leaves the queue.
LEMMA TakeQueued ==
  ASSUME NEW CONSTANT b0, b0 = Head(queue).buf, TypeOK, TakeFinished, QueuedOnce
  PROVE  b0 \in Bufs /\ QueuedOnce' /\ ~Queued(b0)'
         /\ \A b \in Bufs : Queued(b) <=> Queued(b)' \/ b = b0
  <1> DEFINE Elt == [buf : Bufs, pkts : Seq(1 .. NumPackets)]
  <1>1. /\ queue \in Seq(Elt) /\ queue # <<>>
        /\ queue' = Tail(queue)
    BY DEF TypeOK, QueueTypeOK, TakeFinished
  <1>2. b0 \in Bufs
    <2>1. Head(queue) \in Elt
      BY <1>1, HeadTailProperties
    <2> QED BY <2>1
  <1> HIDE DEF Elt
  <1>3. /\ Len(queue) \in Nat \ {0}
        /\ Len(queue') = Len(queue) - 1
        /\ \A i \in 1 .. Len(queue') : queue'[i] = queue[i + 1]
        /\ b0 = queue[1].buf
    BY <1>1, HeadTailProperties, LenProperties
  <1>4. QueuedOnce'
    <2> SUFFICES ASSUME NEW i \in 1 .. Len(queue'), NEW j \in 1 .. Len(queue'),
                        queue'[i].buf = queue'[j].buf
                 PROVE  i = j
      BY DEF QueuedOnce
    <2>1. i + 1 \in 1 .. Len(queue) /\ j + 1 \in 1 .. Len(queue)
      BY <1>3
    <2>2. queue'[i] = queue[i + 1] /\ queue'[j] = queue[j + 1]
      BY <1>3
    <2>3. i + 1 = j + 1
      BY <2>1, <2>2 DEF QueuedOnce
    <2> QED BY <2>3, <1>3
  <1>5. ~Queued(b0)'
    <2> SUFFICES ASSUME NEW i \in 1 .. Len(queue'), queue'[i].buf = b0 PROVE FALSE
      BY DEF Queued
    <2>1. i + 1 \in 1 .. Len(queue) /\ 1 \in 1 .. Len(queue) /\ i + 1 # 1
          /\ queue[i + 1].buf = queue[1].buf
      BY <1>3
    <2> QED BY <2>1 DEF QueuedOnce
  <1>6. ASSUME NEW b \in Bufs, b # b0, Queued(b) PROVE Queued(b)'
    <2>1. PICK i \in 1 .. Len(queue) : queue[i].buf = b
      BY <1>6 DEF Queued
    <2>2. i # 1
      BY <1>3, <1>6, <2>1
    <2>3. i - 1 \in 1 .. Len(queue') /\ queue'[i - 1] = queue[(i - 1) + 1]
      BY <1>3, <2>2
    <2>4. (i - 1) + 1 = i
      BY <1>3
    <2> QED BY <2>1, <2>3, <2>4 DEF Queued
  <1>7. ASSUME NEW b \in Bufs, Queued(b)' PROVE Queued(b)
    <2>1. PICK i \in 1 .. Len(queue') : queue'[i].buf = b
      BY <1>7 DEF Queued
    <2>2. i + 1 \in 1 .. Len(queue) /\ queue[i + 1].buf = b
      BY <1>3, <2>1
    <2> QED BY <2>2 DEF Queued
  <1>8. Queued(b0)
    BY <1>3 DEF Queued
  <1> QED BY <1>2, <1>4, <1>5, <1>6, <1>7, <1>8

\* Every step of the streamer keeps the buffers' owners, if no call fails.
LEMMA OwnershipStep ==
  ASSUME ~ApiErrors, TypeOK, BufferOwnership, [Next]_vars
  PROVE  BufferOwnership'
  <1> USE DEF statusVars, fillVars, streamerVars, endVars, readVars,
     enqVars, workerVars, uiVars, cbVars, others, aqVars, Goto
  <1>1. CASE OpenFileStream \/ AssertDelegate \/ OpenConnection
    BY <1>1, OwnershipFrame
    DEF OpenFileStream, AssertDelegate, OpenConnection, EnqPCs
  <1>2. CASE LoopTop \/ RunLoopTurn
    BY <1>2, OwnershipFrame
    DEF LoopTop, RunLoopTurn, FailWithError, StopNow, EnqPCs
  <1>3. CASE ParseAudioBytes
    BY <1>3, OwnershipFrame
    DEF ParseAudioBytes, AfterParse, FailWithError, StopNow, EnqPCs
  <1>4. CASE ReadyToProducePackets
    BY <1>4, OwnershipFrame DEF ReadyToProducePackets, NewQueue, EnqPCs
  <1>5. CASE DeliverPackets \/ CheckPacket \/ CopyPacket
    <2>1. CASE CheckPacket /\ wpc' = "enqueue"
      BY <1>5, <2>1, OwnershipFrame DEF CheckPacket, EnqPCs
    <2>2. CASE DeliverPackets \/ (CheckPacket /\ wpc' # "enqueue") \/ CopyPacket
      BY <1>5, <2>2, OwnershipFrame
      DEF DeliverPackets, CheckPacket, CopyPacket, LeavePackets, AfterParse,
          EnqPCs
    <2> QED BY <1>5, <2>1, <2>2
  <1>6. CASE FinishLoading \/ DrainQueue
    BY <1>6, OwnershipFrame
    DEF FinishLoading, DrainQueue, FailWithError, StopNow, StopWhenDrained,
        EnqPCs
  <1>7. CASE MarkInUse
    <2>1. CASE userRequestStop
      BY <1>7, <2>1, OwnershipFrame DEF MarkInUse, TypeOK, Returns, EnqPCs
    <2>2. CASE ~userRequestStop
      BY <1>7, <2>2, QueueFrameOwnership
      DEF MarkInUse, TypeOK, BufferOwnership, OneHolder, Returning, Enqueuing
    <2> QED BY <2>1, <2>2
  <1>8. CASE SubmitBuffer
    <2>1. /\ wpc = "submit" /\ wpc' \in {"advance", "start"}
          /\ Enqueue(fill, descs)
          /\ UNCHANGED <<inuse, fill, cpc, cbuf>>
      BY <1>8 DEF SubmitBuffer
    <2>2. fill \in Bufs /\ descs \in Seq(1 .. NumPackets)
      BY DEF TypeOK
    <2>3. ~Queued(fill) /\ ~Returning(fill)
      BY <2>1, <2>2 DEF BufferOwnership, OneHolder, Enqueuing
    <2>4. QueuedOnce' /\ \A b \in Bufs : Queued(b)' <=> Queued(b) \/ b = fill
      BY <2>1, <2>2, <2>3, EnqueueQueued DEF BufferOwnership
    <2> QED BY <2>1, <2>2, <2>3, <2>4
            DEF BufferOwnership, OneHolder, Returning, Enqueuing
  <1>9. CASE StartQueue
    BY <1>9, QueueFrameOwnership
    DEF StartQueue, Start, BufferOwnership, OneHolder, Returning, Enqueuing
  <1>10. CASE AdvanceBuffer
    BY <1>10, QueueFrameOwnership
    DEF AdvanceBuffer, BufferOwnership, OneHolder, Returning, Enqueuing
  <1>11. CASE AwaitBuffer
    BY <1>11, QueueFrameOwnership
    DEF AwaitBuffer, BufferOwnership, OneHolder, Returning, Enqueuing, TypeOK,
        Returns
  <1>12. CASE UserStop \/ StopPlayingAudio
    BY <1>12, OwnershipFrame
    DEF UserStop, StopPlayingAudio, StopQueue, ClearDelegate,
        FinishStream, StopNow
  <1>13. CASE BufferComplete
    <2>1. /\ TakeFinished /\ cpc = "idle" /\ cpc' = "returning"
          /\ cbuf' = Head(queue).buf
          /\ UNCHANGED <<inuse, fill, wpc>>
      BY <1>13 DEF BufferComplete
    <2> PICK b0 : b0 = Head(queue).buf
      OBVIOUS
    <2>2. b0 \in Bufs /\ QueuedOnce' /\ ~Queued(b0)'
          /\ \A b \in Bufs : Queued(b) <=> Queued(b)' \/ b = b0
      BY <2>1, TakeQueued DEF BufferOwnership
    <2>3. \A b \in Bufs : (Returning(b)' <=> b = b0) /\ ~Returning(b)
      BY <2>1 DEF Returning
    <2> QED BY <2>1, <2>2, <2>3 DEF BufferOwnership, OneHolder, Enqueuing
  <1>14. CASE FreeBuffer
    BY <1>14, QueueFrameOwnership
    DEF FreeBuffer, BufferOwnership, OneHolder, Returning, Enqueuing, TypeOK
  <1>15. CASE IsRunningChanged \/ QueueRuns
    BY <1>15, OwnershipFrame
    DEF IsRunningChanged, NotificationDelivered, QueueRuns, PlayBuffer,
        DrainEnds
  <1>16. CASE UNCHANGED vars
    BY <1>16, OwnershipFrame DEF vars
  <1> QED
    BY <1>1, <1>2, <1>3, <1>4, <1>5, <1>6, <1>7, <1>8, <1>9, <1>10,
       <1>11, <1>12, <1>13, <1>14, <1>15, <1>16
    DEF Next, Worker, EnqueueBuffer, Callback, Terminated

\* When no AudioToolbox call fails, every buffer marked in use has exactly one
\* holder, and the buffer being filled is nobody else's: enqueueBuffer and
\* handleBufferCompleteForQueue never hand the same memory to two sides.
THEOREM Ownership == ASSUME ~ApiErrors PROVE Spec => []BufferOwnership
  <1>1. Init => BufferOwnership
    BY OwnershipInit
  <1>2. TypeOK /\ BufferOwnership /\ [Next]_vars => BufferOwnership'
    BY OwnershipStep
  <1> QED BY <1>1, <1>2, TypeCorrect, PTL DEF Spec

-----------------------------------------------------------------------------
(* The stop.                                                               *)

\* The stop is on once stopPlayingAudio has begun, and a buffer past the test
\* in enqueueBuffer is the only one that may still be enqueued.
LateInv ==
  /\ mpc = "playing" => late = 0
  /\ mpc # "playing" => userRequestStop
  /\ late <= 1
  /\ wpc = "submit" => late = 0

\* At first no stop is on.
LEMMA LateInit == Init => LateInv
  BY DEF Init, LateInv

\* No buffer passes the test in enqueueBuffer once the stop is on.
LEMMA LateStep ==
  ASSUME TypeOK, LateInv, [Next]_vars
  PROVE  LateInv'
  <1> USE DEF statusVars, fillVars, streamerVars, endVars, readVars,
     enqVars, workerVars, uiVars, cbVars, others, aqVars, Goto, LateInv
  <1>1. CASE OpenFileStream \/ AssertDelegate \/ OpenConnection \/ LoopTop
    BY <1>1 DEF OpenFileStream, AssertDelegate, OpenConnection, LoopTop
  <1>2. CASE RunLoopTurn \/ ParseAudioBytes
    BY <1>2 DEF RunLoopTurn, ParseAudioBytes, AfterParse
  <1>3. CASE ReadyToProducePackets
    BY <1>3 DEF ReadyToProducePackets
  <1>4. CASE DeliverPackets \/ CheckPacket \/ CopyPacket
    BY <1>4 DEF DeliverPackets, CheckPacket, CopyPacket, LeavePackets, AfterParse
  <1>5. CASE FinishLoading \/ DrainQueue
    BY <1>5 DEF FinishLoading, DrainQueue
  <1>6. CASE MarkInUse
    <2>1. userRequestStop \/ late = 0
      BY DEF TypeOK
    <2> QED BY <1>6, <2>1 DEF MarkInUse, TypeOK, Returns
  <1>7. CASE SubmitBuffer
    BY <1>7 DEF SubmitBuffer, TypeOK, Returns
  <1>8. CASE StartQueue
    BY <1>8 DEF StartQueue, TypeOK, Returns
  <1>9. CASE AdvanceBuffer \/ AwaitBuffer
    BY <1>9 DEF AdvanceBuffer, AwaitBuffer, TypeOK, Returns
  <1>10. CASE UserStop \/ StopPlayingAudio
    BY <1>10 DEF UserStop, StopPlayingAudio, StopQueue,
                 ClearDelegate, FinishStream
  <1>11. CASE Callback \/ QueueRuns
    BY <1>11 DEF Callback, BufferComplete, FreeBuffer, IsRunningChanged, QueueRuns
  <1>12. CASE UNCHANGED vars
    BY <1>12 DEF vars
  <1> QED
    BY <1>1, <1>2, <1>3, <1>4, <1>5, <1>6, <1>7, <1>8, <1>9, <1>10,
       <1>11, <1>12
    DEF Next, Worker, EnqueueBuffer, Terminated

\* Whatever calls fail, at most one buffer is enqueued after stopPlayingAudio
\* has set userRequestStop.
THEOREM StopIsPrompt == Spec => []AtMostOneLateBuffer
  <1>1. Init => LateInv
    BY LateInit
  <1>2. TypeOK /\ LateInv /\ [Next]_vars => LateInv'
    BY LateStep
  <1>3. LateInv => AtMostOneLateBuffer
    BY DEF LateInv, AtMostOneLateBuffer
  <1> QED BY <1>1, <1>2, <1>3, TypeCorrect, PTL DEF Spec

-----------------------------------------------------------------------------
(* Waiting.                                                                *)

AwaitPCs == {"start", "advance", "waiting"}

\* A buffer in use that is neither queued nor on its way back is the one being
\* filled, and enqueueBuffer has not passed it on.
HolderInv ==
  \A b \in Bufs : inuse[b] => Queued(b) \/ Returning(b)
                              \/ (b = fill /\ wpc \notin AwaitPCs)

\* A step that leaves the buffers alone keeps their holders.
LEMMA HolderFrame ==
  ASSUME HolderInv,
         UNCHANGED <<queue, inuse, fill, cpc, cbuf>>,
         wpc' = wpc \/ wpc' \notin AwaitPCs
  PROVE  HolderInv'
  BY DEF HolderInv, Queued, Returning, AwaitPCs

\* At first no buffer is in use.
LEMMA HolderInit == Init => HolderInv
  BY ConstantsAssumption DEF Init, HolderInv

\* AudioQueueEnqueueBuffer drops no buffer.
LEMMA EnqueueKeeps ==
  ASSUME NEW b0 \in Bufs, NEW pkts \in Seq(1 .. NumPackets), TypeOK,
         Enqueue(b0, pkts)
  PROVE  Queued(b0)' /\ \A b \in Bufs : Queued(b) => Queued(b)'
  <1> DEFINE Elt == [buf : Bufs, pkts : Seq(1 .. NumPackets)]
             e == [buf |-> b0, pkts |-> pkts]
  <1>1. e \in Elt /\ e.buf = b0 /\ queue \in Seq(Elt) /\ queue' = Append(queue, e)
    BY DEF TypeOK, QueueTypeOK, Enqueue
  <1> HIDE DEF e, Elt
  <1>2. /\ Len(queue) \in Nat
        /\ Len(queue') = Len(queue) + 1
        /\ \A i \in 1 .. Len(queue) : queue'[i] = queue[i]
        /\ queue'[Len(queue) + 1].buf = b0
    BY <1>1, AppendProperties, LenProperties
  <1>3. Len(queue) + 1 \in 1 .. Len(queue')
    BY <1>2
  <1>4. Queued(b0)'
    BY <1>2, <1>3 DEF Queued
  <1>5. ASSUME NEW b \in Bufs, Queued(b) PROVE Queued(b)'
    BY <1>2, <1>5 DEF Queued
  <1> QED BY <1>4, <1>5

\* Taking the oldest buffer off the queue drops no other.
LEMMA TakeKeeps ==
  ASSUME TypeOK, TakeFinished
  PROVE  \A b \in Bufs : Queued(b) => Queued(b)' \/ b = Head(queue).buf
  <1> DEFINE Elt == [buf : Bufs, pkts : Seq(1 .. NumPackets)]
  <1>1. /\ queue \in Seq(Elt) /\ queue # <<>>
        /\ queue' = Tail(queue)
    BY DEF TypeOK, QueueTypeOK, TakeFinished
  <1> HIDE DEF Elt
  <1>2. /\ Len(queue) \in Nat \ {0}
        /\ Len(queue') = Len(queue) - 1
        /\ \A i \in 1 .. Len(queue') : queue'[i] = queue[i + 1]
        /\ Head(queue) = queue[1]
    BY <1>1, HeadTailProperties, LenProperties
  <1> SUFFICES ASSUME NEW b \in Bufs, Queued(b), b # Head(queue).buf
               PROVE  Queued(b)'
    OBVIOUS
  <1>3. PICK i \in 1 .. Len(queue) : queue[i].buf = b
    BY DEF Queued
  <1>4. i # 1
    BY <1>2, <1>3
  <1>5. i - 1 \in 1 .. Len(queue') /\ queue'[i - 1] = queue[(i - 1) + 1]
    BY <1>2, <1>4
  <1>6. (i - 1) + 1 = i
    BY <1>2
  <1> QED BY <1>3, <1>5, <1>6 DEF Queued

\* Every step keeps a holder for each buffer in use.
LEMMA HolderStep ==
  ASSUME TypeOK, HolderInv, [Next]_vars
  PROVE  HolderInv'
  <1> USE DEF statusVars, fillVars, streamerVars, endVars, readVars,
     enqVars, workerVars, uiVars, cbVars, others, aqVars, Goto
  <1>1. CASE OpenFileStream \/ AssertDelegate \/ OpenConnection
    BY <1>1, HolderFrame
    DEF OpenFileStream, AssertDelegate, OpenConnection, AwaitPCs
  <1>2. CASE LoopTop \/ RunLoopTurn
    BY <1>2, HolderFrame
    DEF LoopTop, RunLoopTurn, FailWithError, StopNow, AwaitPCs
  <1>3. CASE ParseAudioBytes
    BY <1>3, HolderFrame
    DEF ParseAudioBytes, AfterParse, FailWithError, StopNow, AwaitPCs
  <1>4. CASE ReadyToProducePackets
    BY <1>4, HolderFrame DEF ReadyToProducePackets, NewQueue, AwaitPCs
  <1>5. CASE DeliverPackets \/ CopyPacket
    BY <1>5, HolderFrame
    DEF DeliverPackets, CopyPacket, LeavePackets, AfterParse, AwaitPCs
  <1>6. CASE CheckPacket
    BY <1>6, HolderFrame DEF CheckPacket, LeavePackets, AfterParse, AwaitPCs
  <1>7. CASE FinishLoading \/ DrainQueue
    BY <1>7, HolderFrame
    DEF FinishLoading, DrainQueue, FailWithError, StopNow, StopWhenDrained,
        AwaitPCs
  <1>8. CASE MarkInUse
    <2>1. CASE userRequestStop
      BY <1>8, <2>1, HolderFrame DEF MarkInUse, TypeOK, Returns, AwaitPCs
    <2>2. CASE ~userRequestStop
      BY <1>8, <2>2, QueueFrameOwnership
      DEF MarkInUse, TypeOK, HolderInv, Returning, AwaitPCs
    <2> QED BY <2>1, <2>2
  <1>9. CASE SubmitBuffer
    <2>1. CASE Enqueue(fill, descs)
      <3> PICK b0, pkts : b0 = fill /\ pkts = descs
        OBVIOUS
      <3>1. b0 \in Bufs /\ pkts \in Seq(1 .. NumPackets) /\ Enqueue(b0, pkts)
        BY <2>1 DEF TypeOK
      <3>2. Queued(b0)' /\ \A b \in Bufs : Queued(b) => Queued(b)'
        BY <3>1, EnqueueKeeps
      <3>3. /\ UNCHANGED <<inuse, fill, cpc, cbuf>>
            /\ wpc = "submit" /\ wpc' # "waiting"
        BY <1>9 DEF SubmitBuffer, TypeOK, Returns
      <3> QED BY <3>2, <3>3 DEF HolderInv, Returning, AwaitPCs
    <2>2. CASE ~Enqueue(fill, descs)
      BY <1>9, <2>2, HolderFrame
      DEF SubmitBuffer, FailWithError, StopNow, TypeOK, Returns, AwaitPCs
    <2> QED BY <2>1, <2>2
  <1>10. CASE StartQueue
    <2>1. wpc = "start" /\ wpc' # "waiting"
          /\ UNCHANGED <<queue, inuse, fill, cpc, cbuf>>
      BY <1>10 DEF StartQueue, Start, FailWithError, StopNow, TypeOK, Returns
    <2> QED BY <2>1, QueueFrameOwnership
            DEF HolderInv, Returning, AwaitPCs
  <1>11. CASE AdvanceBuffer
    BY <1>11, QueueFrameOwnership
    DEF AdvanceBuffer, HolderInv, Returning, AwaitPCs
  <1>12. CASE AwaitBuffer
    BY <1>12, QueueFrameOwnership
    DEF AwaitBuffer, HolderInv, Returning, AwaitPCs, TypeOK, Returns
  <1>13. CASE UserStop \/ StopPlayingAudio
    BY <1>13, HolderFrame
    DEF UserStop, StopPlayingAudio, StopQueue, ClearDelegate,
        FinishStream, StopNow
  <1>14. CASE BufferComplete
    <2>1. /\ TakeFinished /\ cpc = "idle" /\ cpc' = "returning"
          /\ cbuf' = Head(queue).buf
          /\ UNCHANGED <<inuse, fill, wpc>>
      BY <1>14 DEF BufferComplete
    <2>2. \A b \in Bufs : Queued(b) => Queued(b)' \/ Returning(b)'
      BY <2>1, TakeKeeps DEF Returning
    <2> QED BY <2>1, <2>2 DEF HolderInv, Returning
  <1>15. CASE FreeBuffer
    BY <1>15, QueueFrameOwnership
    DEF FreeBuffer, HolderInv, Returning, TypeOK
  <1>16. CASE IsRunningChanged \/ QueueRuns
    BY <1>16, HolderFrame
    DEF IsRunningChanged, NotificationDelivered, QueueRuns, PlayBuffer,
        DrainEnds
  <1>17. CASE UNCHANGED vars
    BY <1>17, HolderFrame DEF vars
  <1> QED
    BY <1>1, <1>2, <1>3, <1>4, <1>5, <1>6, <1>7, <1>8, <1>9, <1>10,
       <1>11, <1>12, <1>13, <1>14, <1>15, <1>16, <1>17
    DEF Next, Worker, EnqueueBuffer, Callback, Terminated

\* The main thread has stopped the queue, or asked for nothing more.
StoppedPCs == {"detaching", "finishing", "released"}

InEnqueue == {"enqueue", "submit", "start", "advance", "waiting"}

\* The worker has told the queue to stop, or is to end for another reason.
Leaving == wpc \in {"looping", "exited"} /\ streamShouldFinish

\* Packets only come once the file stream is ready, and by then there is a queue
\* or a reason why not; a buffer past the test in enqueueBuffer has one.
ReadyInv ==
  /\ wpc \in {"property", "delivering", "packet", "copy"} \cup InEnqueue => ready
  /\ bytesFilled > 0 \/ started => ready /\ wpc # "property"
  /\ ready /\ wpc # "property" => aq # "none" \/ failed \/ userRequestStop
  /\ wpc \in {"submit", "start", "advance", "waiting"} => aq # "none" \/ failed
  /\ aq = "none" => queue = <<>> \/ failed

\* Until a call fails, a queue that was started plays until the worker or the
\* main thread stops it.
PlaysInv ==
  /\ wpc \in {"advance", "waiting"} => started
  /\ started /\ ~failed /\ mpc \notin StoppedPCs => Running \/ Leaving
  /\ aq = "draining" => Leaving

\* Until a call fails, a queue that has been stopped is done with every buffer
\* but the late one.
LeftOver(i) == i > finished =>
  /\ wpc \in {"start", "advance"} => queue[i].buf = fill
  /\ wpc = "waiting" => queue[i].buf # fill

DoneInv ==
  mpc \in StoppedPCs /\ ~Running /\ ~failed =>
    /\ late = 0 => finished = Len(queue)
    /\ \A i \in 1 .. Len(queue) : LeftOver(i)

\* At first there is neither a queue nor a packet.
LEMMA WaitInit == Init => ReadyInv /\ PlaysInv /\ DoneInv
  BY DEF Init, AQInit, ReadyInv, PlaysInv, DoneInv, InEnqueue, StoppedPCs

\* Every step keeps the queue there when packets come.
LEMMA ReadyStep ==
  ASSUME TypeOK, ReadyInv, [Next]_vars
  PROVE  ReadyInv'
  <1> USE DEF statusVars, fillVars, streamerVars, endVars, readVars, enqVars,
     workerVars, uiVars, cbVars, others, aqVars, Goto, ReadyInv, InEnqueue
  <1>1. CASE OpenFileStream \/ AssertDelegate \/ OpenConnection
    BY <1>1 DEF OpenFileStream, AssertDelegate, OpenConnection
  <1>2. CASE LoopTop \/ RunLoopTurn
    BY <1>2 DEF LoopTop, RunLoopTurn, FailWithError, StopNow
  <1>3. CASE ParseAudioBytes
    BY <1>3 DEF ParseAudioBytes, AfterParse, FailWithError, StopNow, TypeOK
  <1>4. CASE ReadyToProducePackets
    <2>1. wpc = "property" /\ wpc' = "delivering" /\ ready /\ ~(bytesFilled > 0)
          /\ ~started
      BY <1>4 DEF ReadyToProducePackets
    <2>2. UNCHANGED <<ready, bytesFilled, started, userRequestStop, queue>>
      BY <1>4 DEF ReadyToProducePackets, NewQueue
    <2>3. aq' = "none" => queue' = <<>> \/ failed'
      BY <1>4 DEF ReadyToProducePackets, NewQueue
    <2>4. aq' # "none" \/ failed' \/ userRequestStop'
      BY <1>4 DEF ReadyToProducePackets, NewQueue
    <2> QED BY <2>1, <2>2, <2>3, <2>4
  <1>5. CASE DeliverPackets \/ CheckPacket
    BY <1>5 DEF DeliverPackets, CheckPacket, LeavePackets, AfterParse
  <1>6. CASE CopyPacket
    BY <1>6 DEF CopyPacket, LeavePackets, AfterParse
  <1>7. CASE FinishLoading
    BY <1>7 DEF FinishLoading
  <1>8. CASE DrainQueue
    BY <1>8 DEF DrainQueue, FailWithError, StopNow, StopWhenDrained
  <1>9. CASE MarkInUse
    BY <1>9 DEF MarkInUse, TypeOK, Returns
  <1>10. CASE SubmitBuffer
    BY <1>10 DEF SubmitBuffer, Enqueue, FailWithError, StopNow, TypeOK, Returns
  <1>11. CASE StartQueue
    BY <1>11 DEF StartQueue, Start, FailWithError, StopNow, TypeOK, Returns
  <1>12. CASE AdvanceBuffer \/ AwaitBuffer
    BY <1>12 DEF AdvanceBuffer, AwaitBuffer, TypeOK, Returns
  <1>13. CASE UserStop \/ StopPlayingAudio
    BY <1>13 DEF UserStop, StopPlayingAudio, StopQueue, ClearDelegate,
                 FinishStream, StopNow
  <1>14. CASE BufferComplete
    BY <1>14 DEF BufferComplete, TakeFinished, TypeOK, QueueTypeOK
  <1>15. CASE FreeBuffer \/ IsRunningChanged
    BY <1>15 DEF FreeBuffer, IsRunningChanged, NotificationDelivered
  <1>16. CASE QueueRuns
    BY <1>16 DEF QueueRuns, PlayBuffer, DrainEnds, Running
  <1>17. CASE UNCHANGED vars
    BY <1>17 DEF vars
  <1> QED
    BY <1>1, <1>2, <1>3, <1>4, <1>5, <1>6, <1>7, <1>8, <1>9, <1>10, <1>11,
       <1>12, <1>13, <1>14, <1>15, <1>16, <1>17
    DEF Next, Worker, EnqueueBuffer, Callback, Terminated

\* Every step keeps a started queue playing, or has a reason not to.
LEMMA PlaysStep ==
  ASSUME TypeOK, ReadyInv, PlaysInv, [Next]_vars
  PROVE  PlaysInv'
  <1> USE DEF statusVars, fillVars, streamerVars, endVars, readVars, enqVars,
     workerVars, uiVars, cbVars, others, aqVars, Goto, PlaysInv, Running,
     Leaving, StoppedPCs
  <1>1. CASE OpenFileStream \/ AssertDelegate \/ OpenConnection
    BY <1>1 DEF OpenFileStream, AssertDelegate, OpenConnection
  <1>2. CASE LoopTop \/ RunLoopTurn
    BY <1>2 DEF LoopTop, RunLoopTurn, FailWithError, StopNow
  <1>3. CASE ParseAudioBytes
    BY <1>3 DEF ParseAudioBytes, AfterParse, FailWithError, StopNow
  <1>4. CASE ReadyToProducePackets
    BY <1>4 DEF ReadyToProducePackets, NewQueue, ReadyInv
  <1>5. CASE DeliverPackets \/ CheckPacket \/ CopyPacket
    BY <1>5 DEF DeliverPackets, CheckPacket, CopyPacket, LeavePackets, AfterParse
  <1>6. CASE FinishLoading
    BY <1>6 DEF FinishLoading
  <1>7. CASE DrainQueue
    BY <1>7 DEF DrainQueue, FailWithError, StopNow, StopWhenDrained
  <1>8. CASE MarkInUse
    BY <1>8 DEF MarkInUse, TypeOK, Returns
  <1>9. CASE SubmitBuffer
    BY <1>9 DEF SubmitBuffer, Enqueue, FailWithError, StopNow, TypeOK, Returns
  <1>10. CASE StartQueue
    BY <1>10 DEF StartQueue, Start, FailWithError, StopNow, TypeOK, Returns
  <1>11. CASE AdvanceBuffer \/ AwaitBuffer
    BY <1>11 DEF AdvanceBuffer, AwaitBuffer, TypeOK, Returns
  <1>12. CASE UserStop \/ StopPlayingAudio
    BY <1>12 DEF UserStop, StopPlayingAudio, StopQueue, ClearDelegate,
                 FinishStream, StopNow
  <1>13. CASE Callback
    BY <1>13 DEF Callback, BufferComplete, TakeFinished, FreeBuffer,
                 IsRunningChanged, NotificationDelivered
  <1>14. CASE QueueRuns
    BY <1>14 DEF QueueRuns, PlayBuffer, DrainEnds
  <1>15. CASE UNCHANGED vars
    BY <1>15 DEF vars
  <1> QED
    BY <1>1, <1>2, <1>3, <1>4, <1>5, <1>6, <1>7, <1>8, <1>9, <1>10, <1>11,
       <1>12, <1>13, <1>14, <1>15
    DEF Next, Worker, EnqueueBuffer, Terminated

\* A step that leaves the queue alone keeps what a stopped one is done with,
\* unless the worker begins to wait.
LEMMA DoneFrame ==
  ASSUME DoneInv, UNCHANGED <<queue, finished, aq, late, fill, mpc>>,
         failed => failed',
         wpc' = wpc \/ wpc' \notin {"start", "advance", "waiting"}
  PROVE  DoneInv'
  BY DEF DoneInv, LeftOver, Running

\* A failure excuses what the queue is not done with.
LEMMA DoneFailed ==
  ASSUME DoneInv, FailWithError, UNCHANGED <<late, fill, mpc>>,
         wpc' \notin {"start", "advance", "waiting"}
  PROVE  DoneInv'
  BY DoneFrame DEF DoneInv, FailWithError, aqVars

\* Every step keeps a stopped queue done with all buffers but the late one.
LEMMA DoneStep ==
  ASSUME TypeOK, LateInv, ReadyInv, PlaysInv, DoneInv, [Next]_vars
  PROVE  DoneInv'
  <1> USE DEF statusVars, fillVars, streamerVars, endVars, readVars, enqVars,
     workerVars, uiVars, cbVars, others, aqVars, Goto
  <1>1. CASE OpenFileStream \/ AssertDelegate \/ OpenConnection \/ RunLoopTurn
    BY <1>1, DoneFrame DEF OpenFileStream, AssertDelegate, OpenConnection,
                           RunLoopTurn
  <1>2. CASE LoopTop
    BY <1>2, DoneFrame, DoneFailed DEF LoopTop
  <1>3. CASE ParseAudioBytes
    BY <1>3, DoneFrame, DoneFailed DEF ParseAudioBytes, AfterParse
  <1>4. CASE ReadyToProducePackets
    <2>1. CASE userRequestStop
      BY <1>4, <2>1, DoneFrame DEF ReadyToProducePackets
    <2>2. CASE ~userRequestStop
      BY <1>4, <2>2 DEF ReadyToProducePackets, LateInv, DoneInv, StoppedPCs
    <2> QED BY <2>1, <2>2
  <1>5. CASE DeliverPackets \/ CheckPacket \/ CopyPacket
    BY <1>5, DoneFrame
    DEF DeliverPackets, CheckPacket, CopyPacket, LeavePackets, AfterParse
  <1>6. CASE FinishLoading
    BY <1>6, DoneFrame DEF FinishLoading
  <1>7. CASE DrainQueue
    <2>1. CASE StopWhenDrained /\ UNCHANGED failed
      BY <1>7, <2>1 DEF DrainQueue, StopWhenDrained, DoneInv, LeftOver, Running
    <2>2. CASE UNCHANGED <<aqVars, failed>> \/ FailWithError
      BY <1>7, <2>2, DoneFrame, DoneFailed DEF DrainQueue
    <2> QED BY <1>7, <2>1, <2>2 DEF DrainQueue
  <1>8. CASE MarkInUse
    BY <1>8, DoneFrame DEF MarkInUse, TypeOK, Returns
  <1>9. CASE SubmitBuffer
    <2>1. CASE /\ Enqueue(fill, descs)
               /\ wpc' \in {"advance", "start"}
               /\ late' = IF mpc # "playing" THEN late + 1 ELSE late
               /\ UNCHANGED failed
      <3>1. SUFFICES ASSUME mpc \in StoppedPCs, ~Running, ~failed
                     PROVE  late' # 0 /\ \A i \in 1 .. Len(queue') : LeftOver(i)'
        BY <1>9, <2>1 DEF SubmitBuffer, Enqueue, DoneInv, Running
      <3>2. wpc = "submit" /\ late = 0 /\ finished = Len(queue)
        BY <1>9, <3>1 DEF SubmitBuffer, LateInv, DoneInv
      <3>3. late' = 1 /\ UNCHANGED <<finished, fill>>
        BY <1>9, <2>1, <3>1, <3>2 DEF SubmitBuffer, Enqueue, StoppedPCs
      <3>4. wpc' # "waiting"
        BY <2>1
      <3>5. /\ Len(queue') = Len(queue) + 1 /\ Len(queue) \in Nat
            /\ queue'[Len(queue) + 1].buf = fill
        BY <2>1 DEF Enqueue, TypeOK, QueueTypeOK
      <3> QED BY <3>2, <3>3, <3>4, <3>5 DEF LeftOver
    <2>2. CASE FailWithError /\ Goto(ret) /\ UNCHANGED late
      BY <1>9, <2>2, DoneFailed DEF SubmitBuffer, TypeOK, Returns
    <2> QED BY <1>9, <2>1, <2>2 DEF SubmitBuffer
  <1>10. CASE StartQueue
    <2>1. CASE Start
      BY <2>1 DEF Start, DoneInv, Running
    <2>2. CASE FailWithError /\ Goto(ret)
      BY <1>10, <2>2, DoneFailed DEF StartQueue, TypeOK, Returns
    <2> QED BY <1>10, <2>1, <2>2 DEF StartQueue
  <1>11. CASE AdvanceBuffer
    <2>1. fill' # fill
      BY <1>11, ConstantsAssumption DEF AdvanceBuffer, NextBuffer, TypeOK, Bufs
    <2>2. UNCHANGED <<queue, finished, aq, late, failed, mpc>>
      BY <1>11 DEF AdvanceBuffer
    <2>3. wpc = "advance" /\ wpc' = "waiting"
      BY <1>11 DEF AdvanceBuffer
    <2> QED BY <2>1, <2>2, <2>3 DEF DoneInv, LeftOver, Running
  <1>12. CASE AwaitBuffer
    BY <1>12, DoneFrame DEF AwaitBuffer, TypeOK, Returns
  <1>13. CASE StopQueue
    <2>1. CASE StopNow
      BY <1>13, <2>1 DEF StopQueue, StopNow, DoneInv, LeftOver, TypeOK,
                         QueueTypeOK
    <2>2. CASE aq = "none" /\ UNCHANGED aqVars
      <3>1. queue = <<>> \/ failed
        BY <2>2 DEF ReadyInv
      <3> QED BY <1>13, <2>2, <3>1
              DEF StopQueue, DoneInv, LeftOver, TypeOK, QueueTypeOK
    <2> QED BY <1>13, <2>1, <2>2 DEF StopQueue
  <1>14. CASE UserStop
    BY <1>14 DEF UserStop, DoneInv, StoppedPCs
  <1>15. CASE ClearDelegate \/ FinishStream
    BY <1>15 DEF ClearDelegate, FinishStream, DoneInv, StoppedPCs, LeftOver,
                 Running
  <1>16. CASE BufferComplete
    <2> DEFINE Elt == [buf : Bufs, pkts : Seq(1 .. NumPackets)]
    <2>1. queue \in Seq(Elt) /\ queue # <<>> /\ queue' = Tail(queue)
      BY <1>16 DEF BufferComplete, TakeFinished, TypeOK, QueueTypeOK
    <2> HIDE DEF Elt
    <2>2. /\ Len(queue') = Len(queue) - 1 /\ Len(queue) \in Nat \ {0}
          /\ \A i \in 1 .. Len(queue') : queue'[i] = queue[i + 1]
      BY <2>1, HeadTailProperties, LenProperties
    <2>3. finished \in Nat /\ finished' = finished - 1
      BY <1>16 DEF BufferComplete, TakeFinished, TypeOK, QueueTypeOK
    <2>4. UNCHANGED <<aq, late, failed, fill, mpc, wpc>>
      BY <1>16 DEF BufferComplete, TakeFinished
    <2>5. ASSUME NEW i \in 1 .. Len(queue'), LeftOver(i + 1) PROVE LeftOver(i)'
      BY <2>2, <2>3, <2>4, <2>5 DEF LeftOver
    <2>6. \A i \in 1 .. Len(queue') : i + 1 \in 1 .. Len(queue)
      BY <2>2
    <2> QED BY <2>2, <2>3, <2>4, <2>5, <2>6 DEF DoneInv, Running
  <1>17. CASE FreeBuffer \/ IsRunningChanged
    BY <1>17, DoneFrame DEF FreeBuffer, IsRunningChanged, NotificationDelivered
  <1>18. CASE QueueRuns
    <2>1. CASE PlayBuffer
      BY <1>18, <2>1 DEF QueueRuns, PlayBuffer, DoneInv, Running
    <2>2. CASE DrainEnds
      BY <1>18, <2>2 DEF QueueRuns, DrainEnds, DoneInv, LeftOver, TypeOK,
                         QueueTypeOK
    <2> QED BY <1>18, <2>1, <2>2 DEF QueueRuns
  <1>19. CASE UNCHANGED vars
    BY <1>19, DoneFrame DEF vars
  <1> QED
    BY <1>1, <1>2, <1>3, <1>4, <1>5, <1>6, <1>7, <1>8, <1>9, <1>10, <1>11,
       <1>12, <1>13, <1>14, <1>15, <1>16, <1>17, <1>18, <1>19
    DEF Next, Worker, EnqueueBuffer, StopPlayingAudio, Callback, Terminated

\* Every buffer waited for has a holder, and a queue that holds it plays it or is
\* done with it.
LEMMA WaitImplies ==
  TypeOK /\ HolderInv /\ PlaysInv /\ DoneInv => AwaitedComesBack
  <1> SUFFICES ASSUME TypeOK, HolderInv, PlaysInv, DoneInv, wpc = "waiting",
                      inuse[fill], ~failed, ~Returning(fill)
               PROVE  \E i \in 1 .. Len(queue) :
                        queue[i].buf = fill /\ (i <= finished \/ Running)
    BY DEF AwaitedComesBack
  <1>1. Queued(fill)
    BY DEF TypeOK, HolderInv, AwaitPCs
  <1>2. PICK i \in 1 .. Len(queue) : queue[i].buf = fill
    BY <1>1 DEF Queued
  <1>3. Running \/ LeftOver(i)
    BY DEF PlaysInv, DoneInv, Leaving
  <1>4. finished \in Nat /\ i \in Nat
    BY DEF TypeOK, QueueTypeOK
  <1> QED BY <1>2, <1>3, <1>4 DEF LeftOver

\* Whatever calls may fail: until one has, the buffer that enqueueBuffer waits
\* for is being handed back, or the queue is done with it or will play it.
THEOREM WaitIsForABuffer == Spec => []AwaitedComesBack
  <1>1. Init => HolderInv /\ LateInv /\ ReadyInv /\ PlaysInv /\ DoneInv
    BY HolderInit, WaitInit, LateInit
  <1>2. TypeOK /\ HolderInv /\ LateInv /\ ReadyInv /\ PlaysInv /\ DoneInv
        /\ [Next]_vars
        => HolderInv' /\ LateInv' /\ ReadyInv' /\ PlaysInv' /\ DoneInv'
    BY HolderStep, LateStep, ReadyStep, PlaysStep, DoneStep
  <1>3. TypeOK /\ HolderInv /\ PlaysInv /\ DoneInv => AwaitedComesBack
    BY WaitImplies
  <1> QED BY <1>1, <1>2, <1>3, TypeCorrect, PTL DEF Spec

-----------------------------------------------------------------------------
(* Copying.                                                                *)

\* Packets only come once the file stream is ready, and by then the buffers
\* have been allocated or the player stopped.
AllocInv ==
  /\ wpc \in {"property", "delivering", "packet", "copy"} => ready
  /\ wpc \in InEnqueue /\ ret # "drain" => ready
  /\ ready /\ wpc # "property" => allocated = NumBufs \/ userRequestStop

\* The packet to be copied fits, and so does its description; what has been
\* enqueued no longer counts.
FitInv ==
  /\ bytesFilled <= BufSize /\ Len(descs) <= MaxDescs
  /\ \/ userRequestStop \/ Len(descs) < MaxDescs
     \/ wpc \in {"enqueue", "submit", "start", "advance"}
  /\ wpc = "waiting" => bytesFilled = 0 /\ descs = <<>>
  /\ wpc = "copy" \/ (wpc \in InEnqueue /\ ret = "copy") => batch > 0
  /\ wpc = "copy" =>
       userRequestStop \/ bytesFilled + PacketSizes[next] <= BufSize

\* Before the stream is ready nothing is copied, and the first buffer is empty.
LEMMA CopyInit == Init => AllocInv /\ FitInv
  BY ConstantsAssumption DEF Init, AllocInv, FitInv, InEnqueue

\* Every step keeps the buffers allocated before packets come.
LEMMA AllocStep ==
  ASSUME ~ApiErrors, TypeOK, AllocInv, [Next]_vars
  PROVE  AllocInv'
  <1> USE DEF statusVars, fillVars, streamerVars, endVars, readVars,
     enqVars, workerVars, uiVars, cbVars, others, aqVars, Goto, AllocInv,
     InEnqueue
  <1>1. CASE OpenFileStream \/ AssertDelegate \/ OpenConnection \/ LoopTop
    BY <1>1 DEF OpenFileStream, AssertDelegate, OpenConnection, LoopTop
  <1>2. CASE RunLoopTurn \/ ParseAudioBytes
    BY <1>2 DEF RunLoopTurn, ParseAudioBytes, AfterParse
  <1>3. CASE ReadyToProducePackets
    BY <1>3 DEF ReadyToProducePackets
  <1>4. CASE DeliverPackets \/ CheckPacket \/ CopyPacket
    BY <1>4 DEF DeliverPackets, CheckPacket, CopyPacket, LeavePackets, AfterParse
  <1>5. CASE FinishLoading \/ DrainQueue
    BY <1>5 DEF FinishLoading, DrainQueue
  <1>6. CASE MarkInUse \/ SubmitBuffer
    BY <1>6 DEF MarkInUse, SubmitBuffer, TypeOK, Returns
  <1>7. CASE StartQueue \/ AdvanceBuffer \/ AwaitBuffer
    BY <1>7 DEF StartQueue, AdvanceBuffer, AwaitBuffer, TypeOK, Returns
  <1>8. CASE UserStop \/ StopPlayingAudio
    BY <1>8 DEF UserStop, StopPlayingAudio, StopQueue,
                ClearDelegate, FinishStream
  <1>9. CASE Callback \/ QueueRuns
    BY <1>9 DEF Callback, BufferComplete, FreeBuffer, IsRunningChanged, QueueRuns
  <1>10. CASE UNCHANGED vars
    BY <1>10 DEF vars
  <1> QED
    BY <1>1, <1>2, <1>3, <1>4, <1>5, <1>6, <1>7, <1>8, <1>9, <1>10
    DEF Next, Worker, EnqueueBuffer, Terminated

\* bufSpaceRemaining does not wrap around while the buffer is not overfull.
LEMMA SpaceExact ==
  ASSUME TypeOK, bytesFilled <= BufSize
  PROVE  SpaceRemaining = BufSize - bytesFilled
  <1>1. BufSize - bytesFilled \in 0 .. SizeMod - 1
    BY ConstantsAssumption DEF TypeOK
  <1>2. SizeMod \in Nat \ {0}
    BY ConstantsAssumption
  <1>3. \A s \in Nat \ {0} : \A n \in 0 .. s - 1 : n % s = n
    OBVIOUS
  <1> QED BY <1>1, <1>2, <1>3 DEF SpaceRemaining

\* The size of a packet still to be copied fits in an empty buffer.
LEMMA NextPacketSize ==
  ASSUME TypeOK, batch > 0
  PROVE  next \in 1 .. NumPackets /\ PacketSizes[next] \in 1 .. BufSize
  <1>1. next \in 1 .. NumPackets
    BY NumPacketsType DEF TypeOK, PositionTypeOK
  <1> QED BY <1>1, ConstantsAssumption, ElementOfSeq DEF NumPackets

\* Every step keeps room for the packet about to be copied.
LEMMA FitStep ==
  ASSUME ~ApiErrors, TypeOK, FitInv, [Next]_vars
  PROVE  FitInv'
  <1> USE DEF statusVars, fillVars, streamerVars, endVars, readVars,
     enqVars, workerVars, uiVars, cbVars, others, aqVars, Goto, FitInv, InEnqueue
  <1>1. CASE OpenFileStream \/ AssertDelegate \/ OpenConnection \/ LoopTop
    BY <1>1 DEF OpenFileStream, AssertDelegate, OpenConnection, LoopTop
  <1>2. CASE RunLoopTurn \/ ParseAudioBytes
    BY <1>2 DEF RunLoopTurn, ParseAudioBytes, AfterParse
  <1>3. CASE ReadyToProducePackets
    BY <1>3 DEF ReadyToProducePackets
  <1>4. CASE DeliverPackets
    BY <1>4 DEF DeliverPackets, AfterParse
  <1>5. CASE CheckPacket
    <2>1. SpaceRemaining = BufSize - bytesFilled
      BY SpaceExact
    <2>2. batch > 0 => next \in 1 .. NumPackets /\ PacketSizes[next] \in 1 .. BufSize
      BY NextPacketSize
    <2>3. batch \in Nat /\ bytesFilled \in Nat /\ BufSize \in Nat
      BY ConstantsAssumption, NumPacketsType DEF TypeOK, PositionTypeOK
    <2> QED BY <1>5, <2>1, <2>2, <2>3 DEF CheckPacket, LeavePackets, AfterParse
  <1>6. CASE CopyPacket
    <2>1. CASE userRequestStop \/ fill >= allocated
      BY <1>6, <2>1, ConstantsAssumption
      DEF CopyPacket, LeavePackets, AfterParse, TypeOK, Bufs
    <2>2. CASE ~userRequestStop /\ fill < allocated
      <3>1. /\ wpc = "copy" /\ bytesFilled' = bytesFilled + PacketSizes[next]
            /\ descs' = Append(descs, next)
            /\ \/ wpc' = "enqueue" /\ ret' = "packet"
               \/ Len(descs) + 1 # MaxDescs /\ wpc' = "packet"
            /\ UNCHANGED userRequestStop
        BY <1>6, <2>2 DEF CopyPacket, TypeOK, Bufs
      <3>2. next \in 1 .. NumPackets
        BY <3>1, NextPacketSize
      <3>3. Len(descs') = Len(descs) + 1 /\ Len(descs) \in Nat
        BY <3>1, <3>2, AppendProperties, LenProperties DEF TypeOK
      <3>4. bytesFilled' <= BufSize /\ Len(descs) < MaxDescs
        BY <2>2, <3>1
      <3>5. /\ Len(descs') <= MaxDescs
            /\ Len(descs') < MaxDescs \/ wpc' = "enqueue"
        BY <3>1, <3>3, <3>4, ConstantsAssumption
      <3> QED BY <3>1, <3>4, <3>5
    <2> QED BY <2>1, <2>2, ConstantsAssumption DEF TypeOK, Bufs
  <1>7. CASE FinishLoading \/ DrainQueue
    BY <1>7 DEF FinishLoading, DrainQueue
  <1>8. CASE MarkInUse
    BY <1>8 DEF MarkInUse, TypeOK, Returns
  <1>9. CASE SubmitBuffer
    BY <1>9 DEF SubmitBuffer
  <1>10. CASE StartQueue
    BY <1>10 DEF StartQueue
  <1>11. CASE AdvanceBuffer
    BY <1>11, ConstantsAssumption DEF AdvanceBuffer
  <1>12. CASE AwaitBuffer
    <2>1. batch > 0 => next \in 1 .. NumPackets /\ PacketSizes[next] \in 1 .. BufSize
      BY NextPacketSize
    <2> QED BY <1>12, <2>1, ConstantsAssumption DEF AwaitBuffer, TypeOK, Returns
  <1>13. CASE UserStop \/ StopPlayingAudio
    BY <1>13 DEF UserStop, StopPlayingAudio, StopQueue,
                 ClearDelegate, FinishStream
  <1>14. CASE Callback \/ QueueRuns
    BY <1>14 DEF Callback, BufferComplete, FreeBuffer, IsRunningChanged, QueueRuns
  <1>15. CASE UNCHANGED vars
    BY <1>15 DEF vars
  <1> QED
    BY <1>1, <1>2, <1>3, <1>4, <1>5, <1>6, <1>7, <1>8, <1>9, <1>10,
       <1>11, <1>12, <1>13, <1>14, <1>15
    DEF Next, Worker, EnqueueBuffer, Terminated

\* When no AudioToolbox call fails, no packet is copied beyond the 32K of a
\* buffer nor described beyond the 512 entries of _packetDescs.
THEOREM PacketsFit == ASSUME ~ApiErrors PROVE Spec => []PacketFits
  <1>1. Init => FitInv
    BY CopyInit
  <1>2. TypeOK /\ FitInv /\ [Next]_vars => FitInv'
    BY FitStep
  <1>3. FitInv => PacketFits
    BY DEF FitInv, PacketFits
  <1> QED BY <1>1, <1>2, <1>3, TypeCorrect, PTL DEF Spec

\* When no AudioToolbox call fails, the buffer a packet is copied into exists
\* and neither the audio queue nor a callback to come holds it.
THEOREM CopiesAreSafe == ASSUME ~ApiErrors PROVE Spec => []CopyIntoIdleBuffer
  <1>1. Init => AllocInv
    BY CopyInit
  <1>2. TypeOK /\ AllocInv /\ [Next]_vars => AllocInv'
    BY AllocStep
  <1>3. TypeOK /\ BufferOwnership /\ AllocInv => CopyIntoIdleBuffer
    <2> SUFFICES ASSUME TypeOK, BufferOwnership, AllocInv, wpc = "copy"
                 PROVE  /\ fill < allocated \/ userRequestStop
                        /\ ~inuse[fill] /\ ~Queued(fill)
                        /\ cpc = "returning" => cbuf # fill
      BY DEF CopyIntoIdleBuffer
    <2>1. fill \in 0 .. NumBufs - 1 /\ NumBufs \in Nat
      BY ConstantsAssumption DEF TypeOK, Bufs
    <2>2. fill < allocated \/ userRequestStop
      BY <2>1 DEF AllocInv
    <2>3. ~inuse[fill] /\ OneHolder(fill)
      BY DEF BufferOwnership, TypeOK
    <2> QED BY <2>2, <2>3 DEF OneHolder, Returning
  <1> QED BY <1>1, <1>2, <1>3, TypeCorrect, Ownership, PTL DEF Spec

-----------------------------------------------------------------------------
(* The chain of packets in the queue.                                      *)

\* The last of some packets.
Last(s) == s[Len(s)]

\* Packets that follow each other, from a on.
Consecutive(s, a) == \A k \in 1 .. Len(s) : s[k] = a + k - 1

\* The packets of the queue that are still to be played.
Waiting == finished + 1 .. Len(queue)

\* The packet before the i-th buffer of the queue: the one before the first to
\* be played is the last one heard.
Before(i) == IF i = finished + 1 THEN Len(heard) ELSE Last(queue[i - 1].pkts)

\* The last packet that is heard or will be, of those in the queue.
Enqueued ==
  IF finished < Len(queue) THEN Last(queue[Len(queue)].pkts) ELSE Len(heard)

\* What is to be played follows what was heard, buffer after buffer.
Chained ==
  \A i \in Waiting : /\ queue[i].pkts # <<>>
                     /\ Consecutive(queue[i].pkts, Before(i) + 1)

\* Each buffer of the queue has a sequence of packets.
LEMMA EntryType ==
  ASSUME TypeOK
  PROVE  /\ Len(queue) \in Nat /\ finished \in 0 .. Len(queue) /\ Len(heard) \in Nat
         /\ \A i \in 1 .. Len(queue) : queue[i].pkts \in Seq(1 .. NumPackets)
  <1>1. \A i \in 1 .. Len(queue) : queue[i] \in [buf : Bufs, pkts : Seq(1 .. NumPackets)]
    BY ElementOfSeq DEF TypeOK, QueueTypeOK
  <1> QED BY <1>1, LenProperties DEF TypeOK, QueueTypeOK

\* A sequence that is not empty has a last element.
LEMMA LastType ==
  ASSUME NEW S, NEW s \in Seq(S), s # <<>>
  PROVE  Last(s) \in S /\ Len(s) \in Nat \ {0}
  <1>1. Len(s) \in Nat \ {0}
    BY LenProperties, EmptySeq
  <1> QED BY <1>1, ElementOfSeq DEF Last

\* Where packets that follow each other end.
LEMMA ConsecutiveEnd ==
  ASSUME NEW s \in Seq(Nat), s # <<>>, NEW a \in Int, Consecutive(s, a)
  PROVE  Last(s) = a + Len(s) - 1
  <1>1. Len(s) \in Nat \ {0}
    BY LastType
  <1> QED BY <1>1 DEF Consecutive, Last

\* What is played or queued has a place in the stream.
LEMMA EnqueuedType == ASSUME TypeOK, Chained PROVE Enqueued \in Nat
  <1>1. CASE finished < Len(queue)
    <2>1. Len(queue) \in Waiting
      BY <1>1, EntryType DEF Waiting
    <2>2. queue[Len(queue)].pkts # <<>> /\ queue[Len(queue)].pkts \in Seq(1 .. NumPackets)
      BY <1>1, <2>1, EntryType DEF Chained
    <2>3. Last(queue[Len(queue)].pkts) \in 1 .. NumPackets
      BY <2>2, LastType
    <2> QED BY <1>1, <2>3 DEF Enqueued
  <1>2. CASE ~(finished < Len(queue))
    BY <1>2, EntryType DEF Enqueued
  <1> QED BY <1>1, <1>2

\* AudioQueueEnqueueBuffer adds packets to the end of the chain, if they follow it.
LEMMA EnqueueChain ==
  ASSUME TypeOK, Chained, NEW pkts \in Seq(1 .. NumPackets), NEW b \in Bufs,
         pkts # <<>>, Consecutive(pkts, Enqueued + 1), Enqueue(b, pkts)
  PROVE  Chained' /\ Enqueued' = Enqueued + Len(pkts)
  <1> DEFINE Elt == [buf : Bufs, pkts : Seq(1 .. NumPackets)]
             e == [buf |-> b, pkts |-> pkts]
  <1>1. e \in Elt /\ e.pkts = pkts /\ queue \in Seq(Elt) /\ queue' = Append(queue, e)
        /\ UNCHANGED <<finished, heard>> /\ finished \in 0 .. Len(queue)
    BY DEF TypeOK, QueueTypeOK, Enqueue
  <1> HIDE DEF e, Elt
  <1>2. /\ Len(queue) \in Nat
        /\ Len(queue') = Len(queue) + 1
        /\ \A i \in 1 .. Len(queue) : queue'[i] = queue[i]
        /\ queue'[Len(queue) + 1].pkts = pkts
    BY <1>1, AppendProperties, LenProperties
  <1>3. Len(pkts) \in Nat \ {0} /\ Len(heard) \in Nat
    BY LastType, EntryType
  <1>4. Enqueued \in Nat
    BY EnqueuedType
  <1>5. pkts[Len(pkts)] = Enqueued + Len(pkts)
    <2>1. pkts \in Seq(Nat) /\ Enqueued + 1 \in Int
      BY <1>4, NumPacketsType
    <2> QED BY <1>3, <1>4, <2>1, ConsecutiveEnd DEF Last
  <1>6. Enqueued' = Enqueued + Len(pkts)
    BY <1>1, <1>2, <1>5 DEF Enqueued, Last
  <1>7. ASSUME NEW i \in Waiting' PROVE queue'[i].pkts # <<>> /\ Consecutive(queue'[i].pkts, Before(i)' + 1)
    <2>1. CASE i = Len(queue) + 1
      <3>1. Before(i)' = Enqueued
        BY <1>1, <1>2, <2>1 DEF Before, Enqueued
      <3> QED BY <1>2, <2>1, <3>1
    <2>2. CASE i # Len(queue) + 1
      <3>1. i \in Waiting /\ i \in 1 .. Len(queue) /\ queue'[i] = queue[i]
        BY <1>1, <1>2, <1>7, <2>2 DEF Waiting
      <3>2. Before(i)' = Before(i)
        <4>1. i # finished + 1 => i - 1 \in 1 .. Len(queue)
          BY <1>1, <1>2, <3>1 DEF Waiting
        <4> QED BY <1>1, <1>2, <4>1 DEF Before
      <3> QED BY <3>1, <3>2 DEF Chained
    <2> QED BY <2>1, <2>2
  <1> QED BY <1>6, <1>7 DEF Chained

\* What the callback takes off the queue has been played, or never will be.
LEMMA TakeChain ==
  ASSUME TypeOK, Chained, TakeFinished
  PROVE  Chained' /\ Enqueued' = Enqueued
  <1> DEFINE Elt == [buf : Bufs, pkts : Seq(1 .. NumPackets)]
  <1>1. /\ queue \in Seq(Elt) /\ queue # <<>>
        /\ queue' = Tail(queue)
        /\ finished \in 1 .. Len(queue) /\ finished' = finished - 1
        /\ heard' = heard
    BY DEF TypeOK, QueueTypeOK, TakeFinished
  <1> HIDE DEF Elt
  <1>2. /\ Len(queue) \in Nat \ {0}
        /\ Len(queue') = Len(queue) - 1
        /\ \A i \in 1 .. Len(queue') : queue'[i] = queue[i + 1]
    BY <1>1, HeadTailProperties, LenProperties
  <1>3. Enqueued' = Enqueued
    <2>1. CASE finished < Len(queue)
      <3>1. Len(queue') \in 1 .. Len(queue')
        BY <1>1, <1>2, <2>1
      <3>2. Len(queue') + 1 = Len(queue)
        BY <1>2
      <3>3. queue'[Len(queue')] = queue[Len(queue)]
        BY <1>2, <3>1, <3>2
      <3> QED BY <1>1, <1>2, <2>1, <3>3 DEF Enqueued
    <2>2. CASE ~(finished < Len(queue))
      BY <1>1, <1>2, <2>2 DEF Enqueued
    <2> QED BY <2>1, <2>2
  <1>4. ASSUME NEW i \in Waiting' PROVE queue'[i].pkts # <<>> /\ Consecutive(queue'[i].pkts, Before(i)' + 1)
    <2>1. i \in 1 .. Len(queue') /\ i + 1 \in Waiting /\ queue'[i] = queue[i + 1]
      BY <1>1, <1>2, <1>4 DEF Waiting
    <2>2. Before(i)' = Before(i + 1)
      <3>1. CASE i = finished' + 1
        BY <1>1, <2>1, <3>1 DEF Before
      <3>2. CASE i # finished' + 1
        <4>1. i - 1 \in 1 .. Len(queue') /\ (i - 1) + 1 = i /\ (i + 1) - 1 = i
          BY <1>1, <1>2, <1>4, <3>2 DEF Waiting
        <4>2. queue'[i - 1] = queue[(i - 1) + 1]
          BY <1>2, <4>1
        <4>3. i + 1 # finished + 1
          BY <1>1, <3>2, <2>1
        <4> QED BY <3>2, <4>1, <4>2, <4>3 DEF Before
      <3> QED BY <3>1, <3>2
    <2> QED BY <2>1, <2>2 DEF Chained
  <1> QED BY <1>3, <1>4 DEF Chained

\* A buffer that is played is the next link of the chain: its packets follow those
\* heard, and nothing else moves.
LEMMA PlayChain ==
  ASSUME TypeOK, Chained, PlayBuffer
  PROVE  LET pkts == queue[finished + 1].pkts
         IN  /\ Chained' /\ Enqueued' = Enqueued
             /\ finished + 1 \in 1 .. Len(queue)
             /\ pkts \in Seq(1 .. NumPackets) /\ pkts # <<>>
             /\ Consecutive(pkts, Len(heard) + 1)
             /\ heard' = heard \o pkts
             /\ Len(heard') = Last(pkts)
  <1> DEFINE n == finished + 1
             pkts == queue[n].pkts
  <1>1. /\ n \in Waiting /\ n \in 1 .. Len(queue)
        /\ Len(queue) \in Nat /\ finished \in 0 .. Len(queue) /\ Len(heard) \in Nat
        /\ heard' = heard \o pkts
        /\ finished' = n /\ UNCHANGED queue
    BY EntryType DEF PlayBuffer, Waiting
  <1>2. pkts \in Seq(1 .. NumPackets) /\ pkts # <<>> /\ Consecutive(pkts, Len(heard) + 1)
    BY <1>1, EntryType DEF Chained, Before
  <1>3. Len(pkts) \in Nat \ {0}
    BY <1>2, LastType
  <1>4. Last(pkts) = Len(heard) + Len(pkts)
    <2>1. pkts \in Seq(Nat) /\ Len(heard) + 1 \in Int
      BY <1>1, <1>2, NumPacketsType
    <2> HIDE DEF pkts
    <2>2. Last(pkts) = Len(heard) + 1 + Len(pkts) - 1
      BY <1>2, <2>1, ConsecutiveEnd
    <2> QED BY <1>1, <1>3, <2>2
  <1>5. heard \in Seq(1 .. NumPackets)
    BY DEF TypeOK, QueueTypeOK
  <1> HIDE DEF pkts
  <1>6. Len(heard') = Last(pkts)
    BY <1>1, <1>2, <1>4, <1>5, ConcatProperties
  <1>7. Enqueued' = Enqueued
    <2>1. CASE n < Len(queue)
      BY <1>1, <2>1 DEF Enqueued
    <2>2. CASE ~(n < Len(queue))
      BY <1>1, <1>6, <2>2 DEF Enqueued, pkts
    <2> QED BY <2>1, <2>2
  <1>8. ASSUME NEW i \in Waiting' PROVE queue'[i].pkts # <<>> /\ Consecutive(queue'[i].pkts, Before(i)' + 1)
    <2>1. i \in Waiting /\ i # n
      BY <1>1, <1>8 DEF Waiting
    <2>2. Before(i)' = Before(i)
      BY <1>1, <1>6, <2>1 DEF Before, pkts, Waiting
    <2> QED BY <1>1, <2>1, <2>2 DEF Chained
  <1> QED BY <1>1, <1>2, <1>6, <1>7, <1>8 DEF Chained, pkts

-----------------------------------------------------------------------------
(* The worker, from the first packet to the last.                          *)

Abandoned == userRequestStop \/ failed

\* The worker submits a buffer only when it holds packets, and drains the queue
\* when it holds none.
FilledInv ==
  /\ wpc \in {"enqueue", "submit", "start", "advance"} => descs # <<>>
  /\ descs = <<>> <=> bytesFilled = 0
  /\ wpc = "drain" => userRequestStop \/ descs = <<>>

\* Packets come when the stream is ready, and the queue starts with the first
\* buffer.
BeginInv ==
  /\ wpc \in {"opening", "asserting", "connecting"} => ~ready /\ next = 1
  /\ ~ready \/ wpc = "property" => descs = <<>> /\ ~started
  /\ ~started => heard = <<>> /\ ~Running /\ (wpc # "start" => queue = <<>>)
  /\ started => aq # "none" /\ wpc # "start"

\* While no call of AudioToolbox fails, only the loss of the connection does, and
\* that ends the worker.
StopInv ==
  /\ failed => wpc = "exited"
  /\ mpc # "playing" \/ ~delegate => userRequestStop
  /\ wpc = "aborted" => userRequestStop /\ ~delegate /\ ~ready /\ next = 1

WorkInv == FilledInv /\ BeginInv /\ StopInv

\* A packet is not copied into a buffer that is not there.
LEMMA CopyFinds ==
  ASSUME TypeOK, AllocInv, wpc = "copy", ~userRequestStop
  PROVE  fill < allocated /\ ~(fill >= allocated)
  <1>1. fill \in 0 .. NumBufs - 1 /\ NumBufs \in Nat /\ allocated \in Int
    BY ConstantsAssumption DEF TypeOK, Bufs
  <1> QED BY <1>1 DEF AllocInv

\* The worker begins with no buffer filled and nothing stopped.
LEMMA WorkInit == Init => WorkInv
  BY DEF Init, AQInit, WorkInv, FilledInv, BeginInv, StopInv, Running

\* Every step keeps a reason for each buffer that is submitted.
LEMMA FilledStep ==
  ASSUME ~ApiErrors, TypeOK, AllocInv, FitInv, WorkInv, [Next]_vars
  PROVE  FilledInv'
  <1> USE DEF statusVars, fillVars, streamerVars, endVars, readVars,
     enqVars, workerVars, uiVars, cbVars, others, aqVars, Goto, WorkInv, FilledInv,
     InEnqueue
  <1>1. CASE OpenFileStream \/ AssertDelegate \/ OpenConnection \/ LoopTop
    BY <1>1 DEF OpenFileStream, AssertDelegate, OpenConnection, LoopTop
  <1>2. CASE RunLoopTurn \/ ParseAudioBytes
    BY <1>2 DEF RunLoopTurn, ParseAudioBytes, AfterParse
  <1>3. CASE ReadyToProducePackets
    BY <1>3 DEF ReadyToProducePackets
  <1>4. CASE DeliverPackets
    BY <1>4 DEF DeliverPackets, AfterParse
  <1>5. CASE CheckPacket
    <2>1. SpaceRemaining = BufSize - bytesFilled
      BY SpaceExact DEF FitInv
    <2>2. batch > 0 => next \in 1 .. NumPackets /\ PacketSizes[next] \in 1 .. BufSize
      BY NextPacketSize
    <2>3. batch \in Nat /\ bytesFilled \in Nat /\ BufSize \in Nat
      BY ConstantsAssumption, NumPacketsType DEF TypeOK, PositionTypeOK
    <2> QED BY <1>5, <2>1, <2>2, <2>3 DEF CheckPacket, LeavePackets, AfterParse
  <1>6. CASE CopyPacket
    <2>1. CASE userRequestStop
      BY <1>6, <2>1 DEF CopyPacket, LeavePackets, AfterParse
    <2>2. CASE ~userRequestStop
      <3>1. /\ wpc = "copy" /\ bytesFilled' = bytesFilled + PacketSizes[next]
            /\ descs' = Append(descs, next)
            /\ wpc' \in {"enqueue", "packet"}
        BY <1>6, <2>2, CopyFinds DEF CopyPacket
      <3>2. next \in 1 .. NumPackets /\ PacketSizes[next] \in 1 .. BufSize
        BY <3>1, NextPacketSize DEF FitInv
      <3>3. descs' # <<>>
        BY <3>1, <3>2, AppendProperties DEF TypeOK
      <3>4. bytesFilled' # 0
        BY <3>1, <3>2, ConstantsAssumption DEF TypeOK
      <3> QED BY <3>1, <3>3, <3>4
    <2> QED BY <2>1, <2>2
  <1>7. CASE FinishLoading \/ DrainQueue
    BY <1>7 DEF FinishLoading, DrainQueue, TypeOK
  <1>8. CASE MarkInUse
    BY <1>8 DEF MarkInUse, TypeOK, Returns
  <1>9. CASE SubmitBuffer
    BY <1>9 DEF SubmitBuffer
  <1>10. CASE StartQueue
    BY <1>10 DEF StartQueue
  <1>11. CASE AdvanceBuffer
    BY <1>11 DEF AdvanceBuffer
  <1>12. CASE AwaitBuffer
    BY <1>12 DEF AwaitBuffer, TypeOK, Returns, FitInv
  <1>13. CASE UserStop \/ StopPlayingAudio
    BY <1>13 DEF UserStop, StopPlayingAudio, StopQueue,
                 ClearDelegate, FinishStream
  <1>14. CASE Callback \/ QueueRuns
    BY <1>14 DEF Callback, BufferComplete, FreeBuffer, IsRunningChanged, QueueRuns
  <1>15. CASE UNCHANGED vars
    BY <1>15 DEF vars
  <1> QED
    BY <1>1, <1>2, <1>3, <1>4, <1>5, <1>6, <1>7, <1>8, <1>9, <1>10,
       <1>11, <1>12, <1>13, <1>14, <1>15
    DEF Next, Worker, EnqueueBuffer, Terminated

\* The queue is not started before there is a buffer in it.
LEMMA BeginStep ==
  ASSUME ~ApiErrors, TypeOK, AllocInv, FitInv, WorkInv, [Next]_vars
  PROVE  BeginInv'
  <1> USE DEF statusVars, fillVars, streamerVars, endVars, readVars,
     enqVars, workerVars, uiVars, cbVars, others, aqVars, Goto, WorkInv, BeginInv,
     Running
  <1>1. CASE OpenFileStream \/ AssertDelegate \/ OpenConnection
    BY <1>1 DEF OpenFileStream, AssertDelegate, OpenConnection
  <1>2. CASE LoopTop
    BY <1>2 DEF LoopTop, FailWithError, StopNow
  <1>3. CASE RunLoopTurn
    BY <1>3 DEF RunLoopTurn
  <1>4. CASE ParseAudioBytes
    BY <1>4 DEF ParseAudioBytes, AfterParse
  <1>5. CASE ReadyToProducePackets
    BY <1>5 DEF ReadyToProducePackets, NewQueue
  <1>6. CASE DeliverPackets
    BY <1>6 DEF DeliverPackets, AfterParse
  <1>7. CASE CheckPacket
    BY <1>7 DEF CheckPacket, LeavePackets, AfterParse
  <1>8. CASE CopyPacket
    BY <1>8 DEF CopyPacket, LeavePackets, AfterParse, AllocInv
  <1>9. CASE FinishLoading
    BY <1>9 DEF FinishLoading
  <1>10. CASE DrainQueue
    BY <1>10 DEF DrainQueue, StopWhenDrained
  <1>11. CASE MarkInUse
    BY <1>11 DEF MarkInUse, TypeOK, Returns
  <1>12. CASE SubmitBuffer
    BY <1>12 DEF SubmitBuffer, Enqueue, FilledInv
  <1>13. CASE StartQueue
    BY <1>13 DEF StartQueue, Start, FilledInv
  <1>14. CASE AdvanceBuffer
    BY <1>14 DEF AdvanceBuffer
  <1>15. CASE AwaitBuffer
    BY <1>15 DEF AwaitBuffer, TypeOK, Returns
  <1>16. CASE UserStop \/ StopPlayingAudio
    BY <1>16 DEF UserStop, StopPlayingAudio, StopQueue,
                 ClearDelegate, FinishStream, StopNow
  <1>17. CASE BufferComplete
    <2>1. queue # <<>>
      BY <1>17 DEF BufferComplete, TakeFinished, TypeOK, QueueTypeOK
    <2> QED BY <1>17, <2>1 DEF BufferComplete, TakeFinished
  <1>18. CASE FreeBuffer \/ IsRunningChanged
    BY <1>18 DEF FreeBuffer, IsRunningChanged, NotificationDelivered
  <1>19. CASE QueueRuns
    BY <1>19 DEF QueueRuns, PlayBuffer, DrainEnds
  <1>20. CASE UNCHANGED vars
    BY <1>20 DEF vars
  <1> QED
    BY <1>1, <1>2, <1>3, <1>4, <1>5, <1>6, <1>7, <1>8, <1>9, <1>10, <1>11,
       <1>12, <1>13, <1>14, <1>15, <1>16, <1>17, <1>18, <1>19, <1>20
    DEF Next, Worker, EnqueueBuffer, Callback, Terminated

\* Nothing but the connection fails, and only an early stop ends the program.
LEMMA StopStep ==
  ASSUME ~ApiErrors, TypeOK, AllocInv, WorkInv, [Next]_vars
  PROVE  StopInv'
  <1> USE DEF statusVars, fillVars, streamerVars, endVars, readVars,
     enqVars, workerVars, uiVars, cbVars, others, aqVars, Goto, WorkInv, StopInv
  <1>1. CASE OpenFileStream \/ AssertDelegate \/ OpenConnection
    BY <1>1 DEF OpenFileStream, AssertDelegate, OpenConnection, BeginInv, TypeOK
  <1>2. CASE LoopTop
    BY <1>2 DEF LoopTop, FailWithError
  <1>3. CASE RunLoopTurn \/ ParseAudioBytes
    BY <1>3 DEF RunLoopTurn, ParseAudioBytes, AfterParse
  <1>4. CASE ReadyToProducePackets
    <2>1. /\ wpc = "property" /\ wpc' = "delivering"
          /\ UNCHANGED <<failed, delegate, mpc, userRequestStop>>
      BY <1>4 DEF ReadyToProducePackets
    <2> QED BY <2>1
  <1>5. CASE DeliverPackets \/ CheckPacket
    BY <1>5 DEF DeliverPackets, CheckPacket, LeavePackets, AfterParse
  <1>6. CASE CopyPacket
    BY <1>6, CopyFinds, ConstantsAssumption
    DEF CopyPacket, LeavePackets, AfterParse, TypeOK, Bufs
  <1>7. CASE FinishLoading \/ DrainQueue
    BY <1>7 DEF FinishLoading, DrainQueue
  <1>8. CASE MarkInUse \/ SubmitBuffer
    BY <1>8 DEF MarkInUse, SubmitBuffer, TypeOK, Returns
  <1>9. CASE StartQueue \/ AdvanceBuffer
    BY <1>9 DEF StartQueue, AdvanceBuffer
  <1>10. CASE AwaitBuffer
    BY <1>10 DEF AwaitBuffer, TypeOK, Returns
  <1>11. CASE UserStop \/ StopPlayingAudio
    BY <1>11 DEF UserStop, StopPlayingAudio, StopQueue,
                 ClearDelegate, FinishStream, Alive
  <1>12. CASE Callback \/ QueueRuns
    BY <1>12 DEF Callback, BufferComplete, FreeBuffer, IsRunningChanged, QueueRuns
  <1>13. CASE UNCHANGED vars
    BY <1>13 DEF vars
  <1> QED
    BY <1>1, <1>2, <1>3, <1>4, <1>5, <1>6, <1>7, <1>8, <1>9, <1>10, <1>11,
       <1>12, <1>13
    DEF Next, Worker, EnqueueBuffer, Terminated

-----------------------------------------------------------------------------
(* The order.                                                              *)

\* The audio queue may still play: it runs, or has yet to be started.
CanPlay == Running \/ ~started

\* The packets copied that are not in the queue yet.
Unqueued == IF wpc \in {"start", "advance"} THEN <<>> ELSE descs

\* What is heard, queued or copied has arrived.
Arrived ==
  /\ Len(heard) < next
  /\ \A i \in 1 .. Len(queue) : \A k \in 1 .. Len(queue[i].pkts) : queue[i].pkts[k] < next
  /\ \A k \in 1 .. Len(descs) : descs[k] < next

\* The packets heard, then those queued, then those copied, are the packets of the
\* stream one after the other: the queue may break off after a stop or a failure,
\* and is then not played on.
OrderInv ==
  /\ HeardInOrder
  /\ Arrived
  /\ CanPlay => Chained
  /\ CanPlay /\ (wpc = "submit" \/ ~userRequestStop) =>
       Consecutive(Unqueued, Enqueued + 1)
  /\ ~Abandoned /\ CanPlay => Enqueued + Len(Unqueued) = next - 1

\* Nothing is heard, queued or copied at the beginning.
LEMMA OrderInit == Init => OrderInv
  <1> SUFFICES ASSUME Init PROVE OrderInv
    OBVIOUS
  <1>1. /\ heard = <<>> /\ queue = <<>> /\ finished = 0 /\ descs = <<>> /\ next = 1
        /\ Unqueued = <<>>
    BY DEF Init, AQInit, Unqueued
  <1>2. Len(heard) = 0 /\ Len(queue) = 0 /\ Len(Unqueued) = 0 /\ Waiting = {}
    BY <1>1 DEF Waiting
  <1> QED BY <1>1, <1>2 DEF OrderInv, HeardInOrder, Arrived, Chained, Consecutive, Enqueued

\* A step that adds nothing to what is copied, queued and heard keeps the order; it
\* may skip packets once playback is abandoned.
LEMMA OrderFrame ==
  ASSUME TypeOK, OrderInv, UNCHANGED <<queue, finished, heard>>,
         descs' \in {descs, <<>>}, Unqueued' = Unqueued,
         CanPlay' => CanPlay,
         (wpc' = "submit" \/ ~userRequestStop') =>
           (wpc = "submit" \/ ~userRequestStop),
         next' = next \/ (next' \in Nat /\ next' >= next /\ Abandoned'),
         Abandoned => Abandoned'
  PROVE  OrderInv'
  <1>1. HeardInOrder'
    BY DEF OrderInv, HeardInOrder
  <1>2. Arrived'
    <2>1. next \in Nat /\ next' \in Nat /\ next' >= next
      BY NumPacketsType DEF TypeOK, PositionTypeOK
    <2>2. ASSUME NEW i \in 1 .. Len(queue), NEW k \in 1 .. Len(queue[i].pkts)
          PROVE  queue[i].pkts[k] < next'
      <3>1. queue[i].pkts[k] \in 1 .. NumPackets
        BY EntryType, ElementOfSeq
      <3>2. queue[i].pkts[k] < next
        BY DEF OrderInv, Arrived
      <3> QED BY <2>1, <3>1, <3>2
    <2>3. ASSUME NEW k \in 1 .. Len(descs) PROVE descs[k] < next'
      <3>1. descs[k] \in 1 .. NumPackets
        BY ElementOfSeq DEF TypeOK
      <3>2. descs[k] < next
        BY DEF OrderInv, Arrived
      <3> QED BY <2>1, <3>1, <3>2
    <2>4. Len(heard) < next'
      BY <2>1, EntryType DEF OrderInv, Arrived
    <2>5. descs' = <<>> \/ descs' = descs
      OBVIOUS
    <2> QED BY <2>2, <2>3, <2>4, <2>5 DEF Arrived
  <1>3. Enqueued' = Enqueued /\ (Chained => Chained')
    BY DEF Enqueued, Chained, Waiting, Before
  <1> QED BY <1>1, <1>2, <1>3 DEF OrderInv, Consecutive

\* So does a step after which the queue plays no more.
LEMMA OrderStopped ==
  ASSUME OrderInv, UNCHANGED <<queue, heard, descs, next>>, ~CanPlay'
  PROVE  OrderInv'
  BY DEF OrderInv, HeardInOrder, Arrived

\* A queue that drains, or has ended, has nothing more to come; and one that has
\* ended has played everything.
EndInv ==
  ~Abandoned =>
    /\ aq = "draining" \/ (started /\ ~Running) \/ stopped =>
         wpc \in {"looping", "exited"} /\ streamShouldFinish /\ descs = <<>>
    /\ (started /\ ~Running) \/ stopped => ~Running /\ Len(heard) = next - 1
    /\ notify => started

\* A queue that does not exist has not ended.
LEMMA EndInit == Init => EndInv
  BY DEF Init, AQInit, EndInv, Running

\* A packet that is copied is the next one.
LEMMA CopyOrder ==
  ASSUME TypeOK, FitInv, AllocInv, WorkInv, EndInv, OrderInv, CopyPacket
  PROVE  OrderInv'
  <1> USE DEF fillVars, others, aqVars, uiVars, statusVars, Goto, endVars
  <1>1. wpc = "copy"
    BY DEF CopyPacket
  <1>2. CASE userRequestStop
    <2>1. next \in Nat /\ batch \in Nat
      BY NumPacketsType DEF TypeOK, PositionTypeOK
    <2>2. /\ next' = next + batch
          /\ wpc' \in {"finishing", "looping"}
          /\ UNCHANGED <<aq, started, queue, finished, heard, descs, failed,
                         userRequestStop>>
      BY <1>2 DEF CopyPacket, LeavePackets, AfterParse
    <2> QED BY <1>1, <1>2, <2>1, <2>2, OrderFrame DEF Unqueued, CanPlay, Running, Abandoned
  <1>3. CASE ~userRequestStop
    <2>1. /\ descs' = Append(descs, next) /\ next' = next + 1
          /\ wpc' \in {"enqueue", "packet"}
          /\ UNCHANGED <<aq, started, queue, finished, heard, failed, userRequestStop>>
      BY <1>3, CopyFinds, <1>1 DEF CopyPacket
    <2>2. next \in 1 .. NumPackets /\ next \in Nat
      BY <1>1, NextPacketSize DEF FitInv
    <2>3. /\ Len(descs) \in Nat /\ Len(descs') = Len(descs) + 1
          /\ \A k \in 1 .. Len(descs) : descs'[k] = descs[k]
          /\ descs'[Len(descs) + 1] = next
      BY <2>1, <2>2, AppendProperties, LenProperties DEF TypeOK
    <2>4. CanPlay /\ ~Abandoned
      BY <1>1, <1>3 DEF CanPlay, Abandoned, WorkInv, StopInv, EndInv
    <2>5. Chained /\ Consecutive(descs, Enqueued + 1) /\ Enqueued + Len(descs) = next - 1
          /\ Enqueued \in Nat
      BY <1>1, <1>3, <2>4, EnqueuedType DEF OrderInv, Unqueued
    <2>6. Chained' /\ Enqueued' = Enqueued /\ HeardInOrder'
      BY <2>1, <2>5 DEF Chained, Waiting, Before, Enqueued, OrderInv, HeardInOrder
    <2>7. Consecutive(descs', Enqueued + 1)
      BY <2>2, <2>3, <2>5 DEF Consecutive
    <2>8. Arrived'
      <3>1. ASSUME NEW i \in 1 .. Len(queue), NEW k \in 1 .. Len(queue[i].pkts)
            PROVE  queue[i].pkts[k] < next + 1
        <4>1. queue[i].pkts[k] \in 1 .. NumPackets
          BY EntryType, ElementOfSeq
        <4>2. queue[i].pkts[k] < next
          BY DEF OrderInv, Arrived
        <4> QED BY <2>2, <4>1, <4>2, NumPacketsType
      <3>2. ASSUME NEW k \in 1 .. Len(descs') PROVE descs'[k] < next + 1
        BY <2>2, <2>3, <2>5, <2>7 DEF Consecutive
      <3>3. Len(heard) < next + 1
        BY <2>2, EntryType DEF OrderInv, Arrived
      <3> QED BY <2>1, <3>1, <3>2, <3>3 DEF Arrived
    <2>9. Unqueued' = descs'
      BY <2>1 DEF Unqueued
    <2>10. Enqueued' + Len(descs') = next' - 1
      BY <2>1, <2>2, <2>3, <2>5, <2>6
    <2> QED BY <2>6, <2>7, <2>8, <2>9, <2>10 DEF OrderInv
  <1> QED BY <1>2, <1>3

\* A buffer that is submitted follows those in the queue, or is not played.
LEMMA SubmitOrder ==
  ASSUME ~ApiErrors, TypeOK, WorkInv, OrderInv, SubmitBuffer
  PROVE  OrderInv'
  <1> USE DEF fillVars, others, aqVars, uiVars, statusVars, Goto, endVars,
              readVars
  <1>1. /\ wpc = "submit" /\ wpc' = (IF started THEN "advance" ELSE "start")
        /\ Enqueue(fill, descs)
        /\ UNCHANGED <<aq, started, finished, heard, descs, failed, userRequestStop, next>>
    BY DEF SubmitBuffer, Enqueue
  <1>2. descs # <<>> /\ descs \in Seq(1 .. NumPackets) /\ fill \in Bufs
    BY <1>1 DEF WorkInv, FilledInv, TypeOK
  <1>3. Unqueued = descs /\ Unqueued' = <<>> /\ (CanPlay' <=> CanPlay) /\ Len(<<>>) = 0
    BY <1>1 DEF Unqueued, CanPlay, Running
  <1>4. CanPlay => /\ Chained' /\ Enqueued' = Enqueued + Len(descs)
                   /\ Enqueued \in Nat /\ Len(descs) \in Nat
    <2>1. SUFFICES ASSUME CanPlay
                   PROVE  /\ Chained' /\ Enqueued' = Enqueued + Len(descs)
                          /\ Enqueued \in Nat /\ Len(descs) \in Nat
      OBVIOUS
    <2>2. Chained /\ Consecutive(descs, Enqueued + 1)
      BY <1>1, <1>3, <2>1 DEF OrderInv
    <2>3. PICK pkts, b : pkts = descs /\ b = fill
      OBVIOUS
    <2>4. Chained' /\ Enqueued' = Enqueued + Len(pkts)
      BY <1>1, <1>2, <2>2, <2>3, EnqueueChain
    <2> QED BY <1>2, <2>2, <2>3, <2>4, EnqueuedType, LenProperties
  <1>5. Arrived'
    <2> DEFINE Elt == [buf : Bufs, pkts : Seq(1 .. NumPackets)]
               e == [buf |-> fill, pkts |-> descs]
    <2>1. e \in Elt /\ e.pkts = descs /\ queue \in Seq(Elt) /\ queue' = Append(queue, e)
      BY <1>1, <1>2 DEF TypeOK, QueueTypeOK, Enqueue
    <2> HIDE DEF e, Elt
    <2>2. /\ Len(queue) \in Nat
          /\ Len(queue') = Len(queue) + 1
          /\ \A i \in 1 .. Len(queue) : queue'[i] = queue[i]
          /\ queue'[Len(queue) + 1].pkts = descs
      BY <2>1, AppendProperties, LenProperties
    <2> QED BY <1>1, <2>2 DEF OrderInv, Arrived
  <1>6. HeardInOrder'
    BY <1>1 DEF OrderInv, HeardInOrder
  <1>7. ~Abandoned' /\ CanPlay' => Enqueued' + Len(Unqueued') = next' - 1
    BY <1>1, <1>3, <1>4 DEF OrderInv, Abandoned
  <1>8. Consecutive(Unqueued', Enqueued' + 1)
    BY <1>3 DEF Consecutive
  <1> QED BY <1>3, <1>4, <1>5, <1>6, <1>7, <1>8 DEF OrderInv

\* What is played comes next.
LEMMA PlayOrder ==
  ASSUME TypeOK, OrderInv, PlayBuffer,
         UNCHANGED <<wpc, descs, next, userRequestStop, failed, started>>
  PROVE  /\ OrderInv'
         /\ \E n \in 1 .. next - 1 - Len(heard) :
              heard' = heard \o [k \in 1 .. n |-> Len(heard) + k]
  <1>1. CanPlay /\ Chained /\ UNCHANGED <<aq, queue>>
    BY DEF PlayBuffer, OrderInv, CanPlay
  <1>2. PICK pkts :
          /\ pkts = queue[finished + 1].pkts
          /\ Chained' /\ Enqueued' = Enqueued
          /\ finished + 1 \in 1 .. Len(queue)
          /\ pkts \in Seq(1 .. NumPackets) /\ pkts # <<>>
          /\ Consecutive(pkts, Len(heard) + 1)
          /\ heard' = heard \o pkts
          /\ Len(heard') = Last(pkts)
    BY <1>1, PlayChain
  <1>3. /\ Len(pkts) \in Nat \ {0} /\ Len(heard) \in Nat
        /\ heard \in Seq(1 .. NumPackets) /\ next \in Nat
    <2>1. Len(pkts) \in Nat \ {0} /\ Len(heard) \in Nat
      BY <1>2, LastType, EntryType
    <2>2. heard \in Seq(1 .. NumPackets) /\ next \in Nat
      BY NumPacketsType DEF TypeOK, QueueTypeOK, PositionTypeOK
    <2> QED BY <2>1, <2>2
  <1>4. /\ Len(heard') = Len(heard) + Len(pkts)
        /\ \A k \in 1 .. Len(heard) : heard'[k] = heard[k]
        /\ \A k \in 1 .. Len(pkts) : heard'[Len(heard) + k] = pkts[k]
    BY <1>2, <1>3, ConcatProperties
  <1>5. HeardInOrder'
    <2> SUFFICES ASSUME NEW k \in 1 .. Len(heard') PROVE heard'[k] = k
      BY DEF HeardInOrder
    <2>1. CASE k \in 1 .. Len(heard)
      BY <1>4, <2>1 DEF OrderInv, HeardInOrder
    <2>2. CASE k \notin 1 .. Len(heard)
      <3>1. k - Len(heard) \in 1 .. Len(pkts) /\ Len(heard) + (k - Len(heard)) = k
        BY <1>3, <1>4, <2>2
      <3>2. pkts[k - Len(heard)] = Len(heard) + 1 + (k - Len(heard)) - 1
        BY <1>2, <3>1 DEF Consecutive
      <3> QED BY <1>3, <1>4, <3>1, <3>2
    <2> QED BY <2>1, <2>2
  <1>6. Last(pkts) < next
    BY <1>2, <1>3 DEF OrderInv, Arrived, Last
  <1>7. OrderInv'
    <2>1. Arrived'
      BY <1>1, <1>2, <1>6 DEF OrderInv, Arrived
    <2>2. Unqueued' = Unqueued /\ (CanPlay' <=> CanPlay) /\ (Abandoned' <=> Abandoned)
      BY <1>1 DEF Unqueued, CanPlay, Running, Abandoned
    <2> QED BY <1>2, <1>5, <2>1, <2>2 DEF OrderInv, Consecutive
  <1>8. pkts = [k \in 1 .. Len(pkts) |-> Len(heard) + k]
    <2>1. pkts \in [1 .. Len(pkts) -> 1 .. NumPackets]
      BY <1>2, LenProperties
    <2>2. \A k \in 1 .. Len(pkts) : pkts[k] = Len(heard) + k
      BY <1>2, <1>3 DEF Consecutive
    <2> QED BY <2>1, <2>2
  <1>9. Len(pkts) \in 1 .. next - 1 - Len(heard)
    BY <1>2, <1>3, <1>4, <1>6
  <1> QED BY <1>2, <1>7, <1>8, <1>9

\* Taking a buffer off the queue takes nothing that is still to be played.
LEMMA TakeOrder ==
  ASSUME TypeOK, OrderInv, TakeFinished,
         UNCHANGED <<wpc, descs, next, userRequestStop, failed, started>>
  PROVE  OrderInv'
  <1>1. UNCHANGED <<aq, heard>>
    BY DEF TakeFinished
  <1>2. CanPlay => Chained' /\ Enqueued' = Enqueued
    BY TakeChain DEF OrderInv
  <1>3. Unqueued' = Unqueued /\ (CanPlay' <=> CanPlay) /\ (Abandoned' <=> Abandoned)
    BY <1>1 DEF Unqueued, CanPlay, Running, Abandoned
  <1>4. Arrived'
    <2>1. queue \in Seq([buf : Bufs, pkts : Seq(1 .. NumPackets)]) /\ queue # <<>>
          /\ queue' = Tail(queue)
      BY DEF TypeOK, QueueTypeOK, TakeFinished
    <2>2. /\ Len(queue) \in Nat \ {0}
          /\ Len(queue') = Len(queue) - 1
          /\ \A i \in 1 .. Len(queue') : queue'[i] = queue[i + 1]
      BY <2>1, HeadTailProperties, LenProperties
    <2>3. \A i \in 1 .. Len(queue') : i + 1 \in 1 .. Len(queue)
      BY <2>2
    <2> QED BY <1>1, <2>2, <2>3 DEF OrderInv, Arrived
  <1> QED BY <1>1, <1>2, <1>3, <1>4 DEF OrderInv, HeardInOrder

\* Every step keeps the order of the packets.
LEMMA OrderStep ==
  ASSUME ~ApiErrors, TypeOK, AllocInv, FitInv, WorkInv, EndInv, OrderInv, [Next]_vars
  PROVE  OrderInv'
  <1> USE DEF statusVars, fillVars, streamerVars, endVars, readVars,
     enqVars, workerVars, uiVars, cbVars, others, aqVars, Goto
  <1>1. ASSUME UNCHANGED <<queue, finished, heard, next, descs, aq, started, failed,
                           userRequestStop>>,
               wpc' = wpc \/ (wpc \notin {"start", "advance"}
                              /\ wpc' \notin {"submit", "start", "advance"})
        PROVE  OrderInv'
    BY <1>1, OrderFrame DEF Unqueued, CanPlay, Running, Abandoned
  <1>2. CASE OpenFileStream \/ AssertDelegate \/ OpenConnection
    BY <1>1, <1>2 DEF OpenFileStream, AssertDelegate, OpenConnection
  <1>3. CASE LoopTop
    <2>1. CASE UNCHANGED <<aqVars, failed>>
      BY <1>1, <1>3, <2>1 DEF LoopTop
    <2>2. CASE ~UNCHANGED <<aqVars, failed>>
      <3>1. /\ failed' = TRUE /\ UNCHANGED <<queue, heard, descs, next, started>>
            /\ wpc' = "exited" /\ wpc = "looping"
            /\ \/ started /\ aq' = "idle"
               \/ ~started /\ UNCHANGED aqVars
        BY <1>3, <2>2 DEF LoopTop, FailWithError, StopNow
      <3>2. CASE started
        BY <3>1, <3>2, OrderStopped DEF CanPlay, Running
      <3>3. CASE ~started
        <4>1. UNCHANGED userRequestStop
          BY <1>3 DEF LoopTop
        <4> QED BY <3>1, <3>3, <4>1, OrderFrame DEF Unqueued, CanPlay, Running, Abandoned
      <3> QED BY <3>2, <3>3
    <2> QED BY <2>1, <2>2
  <1>4. CASE RunLoopTurn
    BY <1>1, <1>4 DEF RunLoopTurn
  <1>5. CASE ParseAudioBytes
    BY <1>1, <1>5 DEF ParseAudioBytes, AfterParse
  <1>6. CASE ReadyToProducePackets
    <2>1. /\ wpc = "property" /\ wpc' = "delivering"
          /\ UNCHANGED <<queue, finished, heard, next, descs, started, failed,
                         userRequestStop>>
      BY <1>6 DEF ReadyToProducePackets, NewQueue
    <2>2. ~started
      BY <2>1 DEF WorkInv, BeginInv
    <2> QED BY <2>1, <2>2, OrderFrame DEF Unqueued, CanPlay, Abandoned
  <1>7. CASE DeliverPackets
    <2>1. PICK n \in 0 .. MaxBatch :
            \/ wpc' = "packet" /\ UNCHANGED next
            \/ (n = 0 \/ userRequestStop) /\ wpc' = AfterParse /\ next' = next + n
      BY <1>7 DEF DeliverPackets
    <2>2. n \in Nat /\ next \in Nat
      BY NumPacketsType, ConstantsAssumption DEF TypeOK, PositionTypeOK
    <2>3. /\ wpc = "delivering"
          /\ UNCHANGED <<queue, finished, heard, descs, aq, started, failed,
                         userRequestStop>>
      BY <1>7 DEF DeliverPackets
    <2> QED BY <2>1, <2>2, <2>3, OrderFrame
            DEF AfterParse, Unqueued, CanPlay, Running, Abandoned
  <1>8. CASE CheckPacket
    <2>1. next \in Nat /\ batch \in Nat
      BY NumPacketsType DEF TypeOK, PositionTypeOK
    <2>2. /\ wpc = "packet" /\ wpc' \in {"finishing", "looping", "enqueue", "copy"}
          /\ next' = next \/ (next' = next + batch /\ (batch = 0 \/ userRequestStop))
          /\ UNCHANGED <<queue, finished, heard, descs, aq, started, failed,
                         userRequestStop>>
      BY <1>8 DEF CheckPacket, LeavePackets, AfterParse
    <2> QED BY <2>1, <2>2, OrderFrame DEF Unqueued, CanPlay, Running, Abandoned
  <1>9. CASE CopyPacket
    BY <1>9, CopyOrder
  <1>10. CASE MarkInUse
    <2>1. /\ wpc = "enqueue"
          /\ \/ userRequestStop /\ wpc' = ret
             \/ ~userRequestStop /\ wpc' = "submit"
          /\ UNCHANGED <<queue, finished, heard, next, descs, aq, started, failed,
                         userRequestStop>>
      BY <1>10 DEF MarkInUse
    <2>2. ret \in {"copy", "packet", "drain"}
      BY DEF TypeOK, Returns
    <2> QED BY <2>1, <2>2, OrderFrame DEF Unqueued, CanPlay, Running, Abandoned
  <1>11. CASE SubmitBuffer
    BY <1>11, SubmitOrder
  <1>12. CASE StartQueue
    <2>1. /\ wpc = "start" /\ wpc' = "advance"
          /\ UNCHANGED <<queue, finished, heard, next, descs, failed, userRequestStop>>
      BY <1>12 DEF StartQueue, Start
    <2>2. ~started
      BY <2>1 DEF WorkInv, BeginInv
    <2> QED BY <2>1, <2>2, OrderFrame DEF Unqueued, CanPlay, Abandoned
  <1>13. CASE AdvanceBuffer
    BY <1>13, OrderFrame DEF AdvanceBuffer, Unqueued, CanPlay, Running, Abandoned
  <1>14. CASE AwaitBuffer
    BY <1>1, <1>14 DEF AwaitBuffer, TypeOK, Returns
  <1>15. CASE FinishLoading
    BY <1>1, <1>15 DEF FinishLoading
  <1>16. CASE DrainQueue
    <2>1. /\ wpc = "drain" /\ wpc' = "looping" /\ (Running' <=> Running)
          /\ UNCHANGED <<queue, finished, heard, next, descs, started, failed,
                         userRequestStop>>
      BY <1>16 DEF DrainQueue, StopWhenDrained, Running
    <2> QED BY <2>1, OrderFrame DEF Unqueued, CanPlay, Abandoned
  <1>17. CASE UserStop
    BY <1>17, OrderFrame DEF UserStop, Unqueued, CanPlay, Running, Abandoned
  <1>18. CASE StopQueue
    <2>1. /\ userRequestStop /\ userRequestStop'
          /\ UNCHANGED <<queue, heard, next, descs, started, failed, wpc>>
          /\ UNCHANGED <<aq, finished>> \/ (aq' = "idle" /\ finished' = Len(queue))
      BY <1>18 DEF StopQueue, StopNow, WorkInv, StopInv
    <2>2. CASE UNCHANGED <<aq, finished>>
      BY <2>1, <2>2, OrderFrame DEF Unqueued, CanPlay, Running, Abandoned
    <2>3. CASE aq' = "idle" /\ finished' = Len(queue)
      <3>1. CASE started
        BY <2>1, <2>3, <3>1, OrderStopped DEF CanPlay, Running
      <3>2. CASE ~started /\ queue = <<>>
        <4>1. finished' = finished
          BY <2>3, <3>2, EntryType
        <4> QED BY <2>1, <2>3, <3>2, <4>1, OrderFrame DEF Unqueued, CanPlay, Abandoned
      <3>3. CASE ~started /\ queue # <<>>
        <4>1. wpc = "start"
          BY <3>3 DEF WorkInv, BeginInv
        <4>2. Chained'
          BY <2>1, <2>3, EntryType DEF Chained, Waiting
        <4> QED BY <2>1, <4>1, <4>2 DEF OrderInv, HeardInOrder, Arrived, Abandoned
      <3> QED BY <3>1, <3>2, <3>3
    <2> QED BY <2>1, <2>2, <2>3
  <1>19. CASE ClearDelegate \/ FinishStream
    BY <1>1, <1>19 DEF ClearDelegate, FinishStream
  <1>20. CASE BufferComplete
    BY <1>20, TakeOrder DEF BufferComplete
  <1>21. CASE FreeBuffer \/ IsRunningChanged
    BY <1>1, <1>21 DEF FreeBuffer, IsRunningChanged, NotificationDelivered
  <1>22. CASE QueueRuns
    <2>1. UNCHANGED <<wpc, descs, next, userRequestStop, failed, started>>
      BY <1>22 DEF QueueRuns
    <2>2. CASE PlayBuffer
      BY <2>1, <2>2, PlayOrder
    <2>3. CASE DrainEnds
      <3>1. started
        BY <2>3 DEF DrainEnds, WorkInv, BeginInv, Running
      <3> QED BY <2>1, <2>3, <3>1, OrderStopped DEF DrainEnds, CanPlay, Running
    <2> QED BY <1>22, <2>2, <2>3 DEF QueueRuns
  <1>23. CASE UNCHANGED vars
    BY <1>1, <1>23 DEF vars
  <1> QED
    BY <1>2, <1>3, <1>4, <1>5, <1>6, <1>7, <1>8, <1>9, <1>10, <1>11, <1>12,
       <1>13, <1>14, <1>15, <1>16, <1>17, <1>18, <1>19, <1>20, <1>21, <1>22, <1>23
    DEF Next, Worker, EnqueueBuffer, StopPlayingAudio, Callback, Terminated

\* A queue that has ended has played all there was.
LEMMA EndStep ==
  ASSUME ~ApiErrors, TypeOK, WorkInv, EndInv, OrderInv, [Next]_vars
  PROVE  EndInv'
  <1> SUFFICES ASSUME ~Abandoned' PROVE EndInv'
    BY DEF EndInv
  <1> USE DEF statusVars, fillVars, streamerVars, endVars, readVars,
     enqVars, workerVars, uiVars, cbVars, others, aqVars, Goto, EndInv, Running,
     Abandoned
  <1>1. CASE OpenFileStream \/ AssertDelegate \/ OpenConnection
    BY <1>1 DEF OpenFileStream, AssertDelegate, OpenConnection
  <1>2. CASE LoopTop
    BY <1>2 DEF LoopTop, FailWithError, StopNow
  <1>3. CASE RunLoopTurn
    BY <1>3 DEF RunLoopTurn
  <1>4. CASE ParseAudioBytes
    BY <1>4 DEF ParseAudioBytes, AfterParse
  <1>5. CASE ReadyToProducePackets
    BY <1>5 DEF ReadyToProducePackets, NewQueue, WorkInv, BeginInv
  <1>6. CASE DeliverPackets \/ CheckPacket
    BY <1>6 DEF DeliverPackets, CheckPacket
  <1>7. CASE CopyPacket
    BY <1>7 DEF CopyPacket
  <1>8. CASE MarkInUse
    BY <1>8 DEF MarkInUse
  <1>9. CASE SubmitBuffer
    BY <1>9 DEF SubmitBuffer, Enqueue
  <1>10. CASE StartQueue
    BY <1>10 DEF StartQueue, Start
  <1>11. CASE AdvanceBuffer
    BY <1>11 DEF AdvanceBuffer
  <1>12. CASE AwaitBuffer
    BY <1>12 DEF AwaitBuffer
  <1>13. CASE FinishLoading
    BY <1>13 DEF FinishLoading
  <1>14. CASE DrainQueue
    <2>1. /\ wpc = "drain" /\ wpc' = "looping" /\ streamShouldFinish' = TRUE
          /\ UNCHANGED <<heard, next, descs, started, failed, userRequestStop, notify>>
          /\ \/ aq = "none" /\ aq' = aq
             \/ /\ aq # "none" /\ UNCHANGED stopped
                /\ aq' = IF aq = "running" THEN "draining" ELSE aq
      BY <1>14 DEF DrainQueue, StopWhenDrained
    <2>2. ~Abandoned /\ descs = <<>> /\ ~stopped /\ ~(started /\ ~Running)
      BY <2>1 DEF WorkInv, FilledInv
    <2>3. CASE aq = "none"
      <3>1. ~started /\ heard = <<>> /\ queue = <<>>
        BY <2>1, <2>3 DEF WorkInv, BeginInv
      <3>2. Enqueued + Len(descs) = next - 1
        BY <2>1, <2>2, <3>1 DEF OrderInv, CanPlay, Unqueued
      <3>3. Len(heard) = 0 /\ Len(queue) = 0 /\ Len(descs) = 0 /\ finished = 0
        BY <2>2, <3>1, EntryType
      <3>4. Enqueued = Len(heard)
        BY <3>3 DEF Enqueued
      <3>5. Len(heard) = next - 1
        BY <3>2, <3>3, <3>4
      <3> QED BY <2>1, <2>2, <2>3, <3>1, <3>5
    <2>4. CASE aq # "none"
      BY <2>1, <2>2, <2>4
    <2> QED BY <2>3, <2>4
  <1>15. CASE UserStop
    BY <1>15 DEF UserStop
  <1>16. CASE ClearDelegate \/ FinishStream
    BY <1>16 DEF ClearDelegate, FinishStream
  <1>17. CASE StopQueue
    BY <1>17 DEF StopQueue, WorkInv, StopInv
  <1>18. CASE BufferComplete \/ FreeBuffer
    BY <1>18 DEF BufferComplete, TakeFinished, FreeBuffer
  <1>19. CASE IsRunningChanged
    BY <1>19 DEF IsRunningChanged, NotificationDelivered
  <1>20. CASE QueueRuns
    <2>1. UNCHANGED <<wpc, descs, next, userRequestStop, failed, started, stopped,
                      streamShouldFinish>>
      BY <1>20 DEF QueueRuns
    <2>2. CASE PlayBuffer
      BY <2>1, <2>2 DEF PlayBuffer
    <2>3. CASE DrainEnds
      <3>1. /\ aq = "draining" /\ aq' = "idle" /\ finished = Len(queue)
            /\ heard' = heard
        BY <2>3 DEF DrainEnds
      <3>2. started
        BY <3>1 DEF WorkInv, BeginInv
      <3>3. descs = <<>> /\ wpc \in {"looping", "exited"} /\ streamShouldFinish
        BY <2>1, <3>1
      <3>4. Enqueued = Len(heard) /\ Len(heard) \in Nat /\ Len(Unqueued) = 0
        BY <3>1, <3>3, EntryType DEF Enqueued, Unqueued
      <3>5. Enqueued + Len(Unqueued) = next - 1
        BY <2>1, <3>1 DEF OrderInv, CanPlay
      <3>6. Len(heard) = next - 1
        BY <3>4, <3>5
      <3> QED BY <2>1, <3>1, <3>2, <3>3, <3>6
    <2> QED BY <1>20, <2>2, <2>3 DEF QueueRuns
  <1>21. CASE UNCHANGED vars
    BY <1>21 DEF vars
  <1> QED
    BY <1>1, <1>2, <1>3, <1>4, <1>5, <1>6, <1>7, <1>8, <1>9, <1>10, <1>11, <1>12,
       <1>13, <1>14, <1>15, <1>16, <1>17, <1>18, <1>19, <1>20, <1>21
    DEF Next, Worker, EnqueueBuffer, StopPlayingAudio, Callback, Terminated

\* All of it together: what each packet goes through from its arrival to the end.
PlaybackInv == AllocInv /\ FitInv /\ WorkInv /\ OrderInv /\ EndInv

\* The invariant holds when no AudioToolbox call fails.
LEMMA PlaybackInvHolds == ASSUME ~ApiErrors PROVE Spec => []PlaybackInv
  <1>1. Init => PlaybackInv
    BY CopyInit, WorkInit, OrderInit, EndInit DEF PlaybackInv
  <1>2. TypeOK /\ PlaybackInv /\ [Next]_vars => PlaybackInv'
    BY AllocStep, FitStep, FilledStep, BeginStep, StopStep, OrderStep, EndStep
    DEF PlaybackInv, WorkInv
  <1> QED BY <1>1, <1>2, TypeCorrect, PTL DEF Spec

\* When no AudioToolbox call fails the packets are heard in the order of the stream,
\* none twice and none left out, whatever buffers they went through and whenever
\* the user stops or the connection is lost.
THEOREM PlayedInOrder == ASSUME ~ApiErrors PROVE Spec => []HeardInOrder
  <1>1. PlaybackInv => HeardInOrder
    BY DEF PlaybackInv, OrderInv
  <1> QED BY <1>1, PlaybackInvHolds, PTL

\* When no AudioToolbox call fails, only the assertion at the head of downloadURL:
\* can end the program, and only for a user who stopped before.
THEOREM AbortsEarlyOnly == ASSUME ~ApiErrors PROVE Spec => []OnlyEarlyStopAborts
  <1>1. PlaybackInv => OnlyEarlyStopAborts
    BY DEF PlaybackInv, WorkInv, StopInv, OnlyEarlyStopAborts
  <1> QED BY <1>1, PlaybackInvHolds, PTL

-----------------------------------------------------------------------------
(* The promise.                                                            *)

\* What module Playback sees of the streamer's state.
Status == IF Abandoned THEN "abandoned" ELSE IF stopped THEN "ended" ELSE "playing"

\* The streamer begins as a player that has heard nothing.
LEMMA ListenerInit == Init => Listener!Init
  BY DEF Init, AQInit, Listener!Init

\* Each way in which a step may look to the listener is a step of the promise.
LEMMA ListenerSees ==
  ASSUME \/ UNCHANGED <<next, heard>> /\ Status' \in {Status, "abandoned"}
         \/ /\ next' - 1 \in (next - 1) + 1 .. NumPackets
            /\ Status # "ended" /\ UNCHANGED heard /\ Status' = Status
         \/ /\ \E n \in 1 .. next - 1 - Len(heard) :
                 heard' = heard \o [k \in 1 .. n |-> Len(heard) + k]
            /\ Status # "ended" /\ UNCHANGED next /\ Status' = Status
         \/ /\ Status = "playing" /\ Len(heard) = next - 1 /\ Status' = "ended"
            /\ UNCHANGED <<next, heard>>
  PROVE  \/ Listener!Next
         \/ UNCHANGED <<next - 1, heard, Status>>
  BY DEF Listener!Next, Listener!Deliver, Listener!Play, Listener!End,
         Listener!Abandon, Status, Abandoned

\* A step that delivers and plays nothing is one of the promise when the status stays
\* or playback is abandoned.
LEMMA ListenerStutters ==
  ASSUME UNCHANGED <<next, heard>>, stopped' = stopped \/ Abandoned',
         Abandoned => Abandoned'
  PROVE  Listener!Next \/ UNCHANGED <<next - 1, heard, Status>>
  BY ListenerSees DEF Status

\* A step that passes on packets of the stream delivers them.
LEMMA ListenerDelivers ==
  ASSUME TypeOK, TypeOK', EndInv, wpc \in {"delivering", "packet", "copy"},
         next' >= next, UNCHANGED <<heard, stopped, failed, userRequestStop>>
  PROVE  Listener!Next \/ UNCHANGED <<next - 1, heard, Status>>
  <1>1. next \in Nat /\ next' \in Nat /\ next' <= NumPackets + 1 /\ NumPackets \in Nat
    BY NumPacketsType DEF TypeOK, PositionTypeOK
  <1>2. Status' = Status /\ Status # "ended"
    BY DEF Status, Abandoned, EndInv
  <1>3. CASE next' = next
    BY <1>2, <1>3, ListenerSees
  <1>4. CASE next' # next
    <2>1. PICK m, n : m = next /\ n = next'
      OBVIOUS
    <2>2. m \in Nat /\ n \in Nat /\ n <= NumPackets + 1 /\ n >= m /\ n # m
      BY <1>1, <1>4, <2>1
    <2>3. n - 1 \in (m - 1) + 1 .. NumPackets
      BY <1>1, <2>2
    <2>4. next' - 1 \in (next - 1) + 1 .. NumPackets
      BY <2>1, <2>3
    <2> QED BY <1>2, <2>4, ListenerSees
  <1> QED BY <1>3, <1>4

\* Every step of the streamer is one of the promise.
LEMMA ListenerStep ==
  ASSUME ~ApiErrors, TypeOK, TypeOK', PlaybackInv, [Next]_vars
  PROVE  Listener!Next \/ UNCHANGED <<next - 1, heard, Status>>
  <1> USE DEF statusVars, fillVars, streamerVars, endVars, readVars,
     enqVars, workerVars, uiVars, cbVars, others, aqVars
  <1>1. ASSUME UNCHANGED <<next, heard, stopped>>, Abandoned => Abandoned'
        PROVE  Listener!Next \/ UNCHANGED <<next - 1, heard, Status>>
    BY <1>1, ListenerStutters
  <1>2. CASE OpenFileStream \/ AssertDelegate \/ OpenConnection \/ RunLoopTurn
    BY <1>1, <1>2 DEF OpenFileStream, AssertDelegate, OpenConnection, RunLoopTurn, Abandoned
  <1>3. CASE LoopTop
    BY <1>1, <1>3 DEF LoopTop, FailWithError, StopNow, Abandoned
  <1>4. CASE ParseAudioBytes
    BY <1>1, <1>4 DEF ParseAudioBytes, Abandoned
  <1>5. CASE ReadyToProducePackets
    BY <1>1, <1>5 DEF ReadyToProducePackets, NewQueue, Abandoned
  <1>6. CASE DeliverPackets
    <2>1. next' >= next
      <3>1. PICK n \in 0 .. MaxBatch : next' = next \/ next' = next + n
        BY <1>6 DEF DeliverPackets
      <3>2. n \in Nat /\ next \in Nat
        BY NumPacketsType, ConstantsAssumption DEF TypeOK, PositionTypeOK
      <3> QED BY <3>1, <3>2
    <2>2. wpc = "delivering" /\ UNCHANGED <<heard, stopped, failed, userRequestStop>>
      BY <1>6 DEF DeliverPackets
    <2> QED BY <2>1, <2>2, ListenerDelivers DEF PlaybackInv
  <1>7. CASE CheckPacket \/ CopyPacket
    <2>1. next' >= next
      <3>1. next' \in {next, next + 1, next + batch}
        BY <1>7 DEF CheckPacket, CopyPacket, LeavePackets
      <3>2. batch \in Nat /\ next \in Nat
        BY NumPacketsType DEF TypeOK, PositionTypeOK
      <3> QED BY <3>1, <3>2
    <2>2. wpc \in {"packet", "copy"} /\ UNCHANGED <<heard, stopped, failed, userRequestStop>>
      BY <1>7 DEF CheckPacket, CopyPacket
    <2> QED BY <2>1, <2>2, ListenerDelivers DEF PlaybackInv
  <1>8. CASE MarkInUse \/ AdvanceBuffer
    BY <1>1, <1>8 DEF MarkInUse, AdvanceBuffer, Abandoned
  <1>9. CASE SubmitBuffer
    BY <1>1, <1>9 DEF SubmitBuffer, Enqueue, Abandoned
  <1>10. CASE StartQueue
    BY <1>1, <1>10 DEF StartQueue, Start, Abandoned
  <1>11. CASE AwaitBuffer \/ FinishLoading
    BY <1>1, <1>11 DEF AwaitBuffer, FinishLoading, Abandoned
  <1>12. CASE DrainQueue
    <2>1. /\ wpc = "drain" /\ wpc' = "looping" /\ UNCHANGED <<heard, next, failed,
                                                               userRequestStop>>
          /\ \/ aq = "none" /\ stopped' = TRUE
             \/ aq # "none" /\ UNCHANGED stopped
      BY <1>12 DEF DrainQueue, StopWhenDrained, Goto
    <2>2. CASE Abandoned \/ aq # "none"
      BY <2>1, <2>2, ListenerStutters DEF Abandoned
    <2>3. CASE ~Abandoned /\ aq = "none"
      <3>1. Status = "playing" /\ Status' = "ended"
        BY <2>1, <2>3 DEF Status, Abandoned, PlaybackInv, EndInv
      <3>2. ~started /\ heard = <<>> /\ queue = <<>> /\ descs = <<>>
        BY <2>1, <2>3 DEF PlaybackInv, WorkInv, FilledInv, BeginInv, Abandoned
      <3>3. Enqueued + Len(descs) = next - 1
        BY <2>1, <2>3, <3>2 DEF PlaybackInv, OrderInv, CanPlay, Unqueued
      <3>4. Len(heard) = 0 /\ Len(queue) = 0 /\ Len(descs) = 0 /\ finished = 0
        BY <3>2, EntryType
      <3>5. Len(heard) = next - 1
        BY <3>3, <3>4 DEF Enqueued
      <3> QED BY <2>1, <3>1, <3>5, ListenerSees
    <2> QED BY <2>2, <2>3
  <1>13. CASE UserStop
    BY <1>1, <1>13 DEF UserStop, Abandoned
  <1>14. CASE ClearDelegate \/ FinishStream
    BY <1>1, <1>14 DEF ClearDelegate, FinishStream, Abandoned
  <1>15. CASE StopQueue
    <2>1. userRequestStop
      BY <1>15 DEF StopQueue, PlaybackInv, WorkInv, StopInv
    <2> QED BY <1>15, <2>1, ListenerStutters DEF StopQueue, StopNow, Abandoned
  <1>16. CASE BufferComplete \/ FreeBuffer
    BY <1>1, <1>16 DEF BufferComplete, TakeFinished, FreeBuffer, Abandoned
  <1>17. CASE IsRunningChanged
    <2>1. /\ notify /\ stopped' = ~Running
          /\ UNCHANGED <<heard, next, failed, userRequestStop>>
      BY <1>17 DEF IsRunningChanged, NotificationDelivered
    <2>2. CASE Abandoned
      BY <2>1, <2>2, ListenerStutters DEF Abandoned
    <2>3. CASE ~Abandoned /\ ~stopped /\ ~Running
      <3>1. Len(heard) = next - 1
        BY <2>1, <2>3 DEF PlaybackInv, EndInv
      <3>2. Status = "playing" /\ Status' = "ended"
        BY <2>1, <2>3 DEF Status, Abandoned
      <3> QED BY <2>1, <3>1, <3>2, ListenerSees
    <2>4. CASE ~Abandoned /\ (stopped \/ Running)
      <3>1. stopped => ~Running
        BY <2>4 DEF PlaybackInv, EndInv
      <3>2. stopped' <=> stopped
        BY <2>1, <2>4, <3>1
      <3>3. UNCHANGED stopped
        BY <2>1, <2>4, <3>1 DEF TypeOK, Running
      <3> QED BY <2>1, <2>4, <3>3, ListenerStutters DEF Abandoned
    <2> QED BY <2>2, <2>3, <2>4
  <1>18. CASE QueueRuns
    <2>1. UNCHANGED <<wpc, descs, next, userRequestStop, failed, started,
                      stopped>>
      BY <1>18 DEF QueueRuns
    <2>2. CASE PlayBuffer
      <3>1. \E n \in 1 .. next - 1 - Len(heard) :
              heard' = heard \o [k \in 1 .. n |-> Len(heard) + k]
        BY <2>1, <2>2, PlayOrder DEF PlaybackInv
      <3>2. Running
        BY <2>2 DEF PlayBuffer
      <3>3. Status # "ended" /\ Status' = Status
        BY <2>1, <3>2 DEF Status, Abandoned, PlaybackInv, EndInv
      <3> QED BY <2>1, <3>1, <3>3, ListenerSees
    <2>3. CASE DrainEnds
      BY <1>1, <2>1, <2>3 DEF DrainEnds, Abandoned
    <2> QED BY <1>18, <2>2, <2>3 DEF QueueRuns
  <1>19. CASE UNCHANGED vars
    BY <1>1, <1>19 DEF vars, Abandoned
  <1> QED
    BY <1>2, <1>3, <1>4, <1>5, <1>6, <1>7, <1>8, <1>9, <1>10, <1>11, <1>12, <1>13,
       <1>14, <1>15, <1>16, <1>17, <1>18, <1>19
    DEF Next, Worker, EnqueueBuffer, StopPlayingAudio, Callback, Terminated

\* When no AudioToolbox call fails, the streamer implements Playback: packets arrive,
\* are played in order, and the end is reported only when all of them were played,
\* unless the user stops or the connection is lost.
THEOREM KeepsPromise == ASSUME ~ApiErrors PROVE Spec => ListenerSpec
  <1>1. TypeOK /\ TypeOK' /\ PlaybackInv /\ [Next]_vars
          => [Listener!Next]_<<next - 1, heard, Status>>
    BY ListenerStep
  <1>2. [Listener!Next]_<<next - 1, heard, Status>>
          <=> [Listener!Next]_<<next - 1, heard,
                 IF userRequestStop \/ failed THEN "abandoned"
                 ELSE IF stopped THEN "ended" ELSE "playing">>
    BY DEF Status, Abandoned
  <1> QED
    BY <1>1, <1>2, ListenerInit, PlaybackInvHolds, TypeCorrect, PTL
    DEF Spec, ListenerSpec, Listener!Spec

=============================================================================
