----------------------------- MODULE AudioQueue -----------------------------
(***************************************************************************)
(* The Audio Queue Services object that HooAudioStreamer creates: a FIFO   *)
(* of filled buffers, played in order while the queue runs and handed back *)
(* to the owner through a callback.  AudioToolbox is not part of the       *)
(* repository; this module says what HooAudioStreamer.m relies on.         *)
(*                                                                         *)
(* AudioQueueStop is taken to return without waiting for the callbacks of  *)
(* the buffers it gives back: they are delivered later on the queue's own  *)
(* thread.                                                                 *)
(***************************************************************************)
EXTENDS Integers, Sequences

VARIABLES
  aq,         \* "none" before AudioQueueNewOutput, then "idle", "running" or
              \* "draining" (asked to stop once everything queued is played)
  queue,      \* the buffers enqueued and not yet handed back, oldest first
  finished,   \* how many of them, counted from the oldest, are done with
  listener,   \* is the IsRunning listener registered?
  notify,     \* an IsRunning notification is on its way
  heard       \* the packets that have been played, in the order played

aqVars == <<aq, queue, finished, listener, notify, heard>>

Running == aq \in {"running", "draining"}

AQInit ==
  /\ aq = "none"
  /\ queue = <<>>
  /\ finished = 0
  /\ listener = FALSE
  /\ notify = FALSE
  /\ heard = <<>>

\* AudioQueueNewOutput, and AudioQueueAddPropertyListener when l holds.
NewQueue(l) ==
  /\ aq' = "idle"
  /\ listener' = l
  /\ UNCHANGED <<queue, finished, notify, heard>>

\* AudioQueueEnqueueBuffer: pkts are the packets the descriptions name.
Enqueue(b, pkts) ==
  /\ queue' = Append(queue, [buf |-> b, pkts |-> pkts])
  /\ UNCHANGED <<aq, finished, listener, notify, heard>>

\* AudioQueueStart.
Start ==
  /\ aq' = "running"
  /\ notify' = (notify \/ listener)
  /\ UNCHANGED <<queue, finished, listener, heard>>

\* AudioQueueStop(aq, true): nothing more is played, every buffer goes back.
StopNow ==
  /\ aq' = "idle"
  /\ finished' = Len(queue)
  /\ notify' = (notify \/ (Running /\ listener))
  /\ UNCHANGED <<queue, listener, heard>>

\* AudioQueueFlush and AudioQueueStop(aq, false): play what is queued first.
StopWhenDrained ==
  /\ aq' = IF aq = "running" THEN "draining" ELSE aq
  /\ UNCHANGED <<queue, finished, listener, notify, heard>>

\* AudioQueueRemovePropertyListener.
NotificationDelivered(removeListener) ==
  /\ notify
  /\ notify' = FALSE
  /\ listener' = (listener /\ ~removeListener)
  /\ UNCHANGED <<aq, queue, finished, heard>>

\* The callback thread takes the oldest finished buffer to hand it back.
TakeFinished ==
  /\ finished > 0
  /\ queue' = Tail(queue)
  /\ finished' = finished - 1
  /\ UNCHANGED <<aq, listener, notify, heard>>

-----------------------------------------------------------------------------
(* What the queue does on its own.                                         *)

PlayBuffer ==
  /\ Running
  /\ finished < Len(queue)
  /\ heard' = heard \o queue[finished + 1].pkts
  /\ finished' = finished + 1
  /\ UNCHANGED <<aq, queue, listener, notify>>

DrainEnds ==
  /\ aq = "draining"
  /\ finished = Len(queue)
  /\ aq' = "idle"
  /\ notify' = (notify \/ listener)
  /\ UNCHANGED <<queue, finished, listener, heard>>
=============================================================================
