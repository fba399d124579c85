------------------------- MODULE MCHooAudioStreamer -------------------------
(* Small streams for model-checking HooAudioStreamer. *)
EXTENDS HooAudioStreamer

\* Two packets fill a buffer, or one large packet does; the last one is left in
\* a partly filled buffer.
MixedPackets == <<1, 1, 2, 1, 1, 1>>
\* Packets enough to fill both buffers again when an enqueue fails after the
\* queue was started.
FewPackets == <<2, 1, 2, 2>>
=============================================================================
