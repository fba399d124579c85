----------------------------- MODULE Spectrogram -----------------------------
(***************************************************************************)
(* What AudioFileParser promises: the spectra of a file, one after the     *)
(* other, each made of the FFTSize frames that begin HopSize after those   *)
(* of the one before, zeros following the last frame; and it has finished  *)
(* only when no frame is left out.                                         *)
(***************************************************************************)
EXTENDS Integers, Sequences

CONSTANTS FFTSize, HopSize

VARIABLES
  length,      \* frames to analyse; fewer if reading the file was given up
  windows,     \* the frames of each spectrum, 0 being a zero
  finished

Window(k) ==
  [i \in 1 .. FFTSize |->
     LET f == (k - 1) * HopSize + i IN IF f <= length THEN f ELSE 0]

Init ==
  /\ length \in Nat
  /\ windows = <<>>
  /\ finished = FALSE

\* Only before there are spectra can reading be given up.
GiveUp ==
  /\ windows = <<>>
  /\ length' \in 0 .. length
  /\ UNCHANGED <<windows, finished>>

Analyse ==
  /\ ~finished
  /\ windows' = Append(windows, Window(Len(windows) + 1))
  /\ UNCHANGED <<length, finished>>

Finish ==
  /\ Len(windows) * HopSize >= length
  /\ finished' = TRUE
  /\ UNCHANGED <<length, windows>>

Next == GiveUp \/ Analyse \/ Finish

Spec == Init /\ [][Next]_<<length, windows, finished>>
=============================================================================
