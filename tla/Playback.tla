------------------------------ MODULE Playback ------------------------------
(***************************************************************************)
(* What a listener is promised: packets arrive, are played in the order of *)
(* the stream, and the end is reported only when all of them were played.  *)
(* The user may abandon playback at any time; what had arrived may then    *)
(* stay unplayed, but what is played is still in order.                    *)
(***************************************************************************)
EXTENDS Integers, Sequences

CONSTANT NumPackets

VARIABLES
  delivered,   \* how many packets have arrived
  heard,       \* the packets played
  status       \* "playing", "ended" or "abandoned"

TypeOK ==
  /\ delivered \in 0 .. NumPackets
  /\ heard \in Seq(1 .. NumPackets)
  /\ status \in {"playing", "ended", "abandoned"}

Init == delivered = 0 /\ heard = <<>> /\ status = "playing"

Deliver ==
  /\ status # "ended"
  /\ delivered' \in delivered + 1 .. NumPackets
  /\ UNCHANGED <<heard, status>>

\* n packets are played, the ones that follow those already heard.
Play ==
  /\ status # "ended"
  /\ \E n \in 1 .. delivered - Len(heard) :
       heard' = heard \o [k \in 1 .. n |-> Len(heard) + k]
  /\ UNCHANGED <<delivered, status>>

End ==
  /\ status = "playing"
  /\ Len(heard) = delivered
  /\ status' = "ended"
  /\ UNCHANGED <<delivered, heard>>

Abandon ==
  /\ status' = "abandoned"
  /\ UNCHANGED <<delivered, heard>>

Next == Deliver \/ Play \/ End \/ Abandon

Spec == Init /\ [][Next]_<<delivered, heard, status>>
=============================================================================
