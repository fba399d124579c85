------------------------ MODULE PlayerScreen_proofs ------------------------
(***************************************************************************)
(* Proofs about the screen, for any number of players: between two         *)
(* handlers it agrees with itself, and no player goes on without it.       *)
(***************************************************************************)
EXTENDS PlayerScreen, TLAPS

\* What the main thread knows of the player in the middle of a handler.
HandlerInv ==
  /\ mpc = "starting" => player # 0 /\ ~isPlaying
  /\ mpc = "stopping" => player # 0 /\ ~isPlaying /\ player \in asked

\* The player that is not being stopped was not told to stop; all others were.
AskedInv ==
  /\ mpc # "stopping" => player \notin asked
  /\ \A p \in Players : p # player => p \in asked

ScreenInv == TypeOK /\ ScreenAgrees /\ HandlerInv /\ AskedInv

\* A report adds a message of its player to the run loop's, or nothing.
LEMMA BouncedIsTyped ==
  ASSUME TypeOK, NEW p \in Players, NEW what \in {"audioIsReady", "stopAudio"}
  PROVE  Bounced(p, what) \in Seq(Message)
<1>1. [what |-> what, whose |-> p] \in Message
  BY ScreenAssumption DEF TypeOK, Players, Message
<1> QED BY <1>1 DEF Bounced, TypeOK

\* A message that is handled leaves messages.
LEMMA MessagesTyped == ASSUME TypeOK, messages # <<>> PROVE Tail(messages) \in Seq(Message)
BY DEF TypeOK

\* Once a player is told to stop, the screen is between stopPlayingAudio and the
\* end of stopAudio.
LEMMA StopPlayingKeeps ==
  ASSUME ScreenInv, mpc = "idle", isPlaying, NEW rest \in Seq(Message), StopPlaying(rest)
  PROVE  ScreenInv'
<1> USE DEF ScreenInv, StopPlaying, reportVars
<1>1. player \in Players
  BY DEF TypeOK, ScreenAgrees, Players
<1>2. [what |-> "stopAudio", whose |-> player] \in Message
  BY <1>1, ScreenAssumption DEF TypeOK, Players, Message
<1>3. messages' \in Seq(Message)
  BY <1>2
<1>4. TypeOK'
  BY <1>1, <1>3 DEF TypeOK, Players
<1>5. ScreenAgrees' /\ HandlerInv'
  BY <1>1 DEF ScreenAgrees, HandlerInv, TypeOK, Players
<1>6. AskedInv'
  BY DEF AskedInv, Players
<1> QED BY <1>4, <1>5, <1>6

\* ScreenInv is inductive: one step per action.
LEMMA ScreenInvHolds == Spec => []ScreenInv
<1>1. ASSUME Init PROVE ScreenInv
  <2> USE <1>1
  <2>1. messages \in Seq(Message) /\ players \in 0 .. MaxPlayers /\ player \in 0 .. players
    BY ScreenAssumption DEF Init
  <2>2. begun \subseteq Players /\ over \subseteq Players /\ asked \subseteq Players
    BY DEF Init
  <2>3. TypeOK
    BY <2>1, <2>2 DEF Init, TypeOK
  <2>4. ScreenAgrees /\ HandlerInv
    BY DEF Init, ScreenAgrees, HandlerInv
  <2>5. AskedInv
    BY DEF Init, AskedInv, Players
  <2> QED BY <2>3, <2>4, <2>5 DEF ScreenInv
<1>2. ScreenInv /\ [Next]_vars => ScreenInv'
  <2> SUFFICES ASSUME ScreenInv, [Next]_vars PROVE ScreenInv'
    OBVIOUS
  <2> USE DEF ScreenInv
  <2>1. CASE PlayTapped
    <3>1. players' \in 0 .. MaxPlayers /\ player' \in 0 .. players' /\ Players \subseteq Players'
      BY <2>1, ScreenAssumption DEF PlayTapped, TypeOK, Players
    <3>2. TypeOK'
      BY <2>1, <3>1 DEF PlayTapped, TypeOK, screenVars, reportVars
    <3>3. ScreenAgrees' /\ HandlerInv'
      BY <2>1 DEF PlayTapped, TypeOK, ScreenAgrees, HandlerInv, screenVars
    <3>4. AskedInv'
      BY <2>1 DEF PlayTapped, TypeOK, ScreenAgrees, AskedInv, Players
    <3> QED BY <3>2, <3>3, <3>4
  <2>2. CASE ShowPlaying
    <3>1. TypeOK'
      BY <2>2 DEF ShowPlaying, TypeOK, reportVars, Players
    <3>2. ScreenAgrees' /\ HandlerInv'
      BY <2>2 DEF ShowPlaying, ScreenAgrees, HandlerInv
    <3>3. AskedInv'
      BY <2>2 DEF ShowPlaying, AskedInv, Players
    <3> QED BY <3>1, <3>2, <3>3
  <2>3. CASE StopTapped
    BY <2>3, StopPlayingKeeps DEF StopTapped, TypeOK
  <2>4. CASE Forget
    <3>1. isPlaying' = FALSE
      BY <2>4 DEF Forget, TypeOK, HandlerInv
    <3>2. player' \in 0 .. players'
      BY <2>4 DEF Forget, TypeOK, reportVars
    <3>3. TypeOK'
      BY <2>4, <3>1, <3>2 DEF Forget, TypeOK, reportVars, Players
    <3>4. ScreenAgrees' /\ HandlerInv'
      BY <2>4, <3>1 DEF Forget, ScreenAgrees, HandlerInv
    <3>5. AskedInv'
      BY <2>4 DEF Forget, TypeOK, HandlerInv, AskedInv, Players
    <3> QED BY <3>3, <3>4, <3>5
  <2>5. CASE AudioIsReady
    BY <2>5, MessagesTyped
    DEF AudioIsReady, TypeOK, ScreenAgrees, HandlerInv, AskedInv, reportVars, Players
  <2>6. CASE StopMessage
    <3>1. CASE isPlaying
      BY <2>6, <3>1, MessagesTyped, StopPlayingKeeps DEF StopMessage
    <3>2. CASE ~isPlaying
      BY <2>6, <3>2, MessagesTyped
      DEF StopMessage, TypeOK, ScreenAgrees, HandlerInv, AskedInv, screenVars,
          reportVars, Players
    <3> QED BY <3>1, <3>2
  <2>7. ASSUME NEW p \in Players, PlayerStarts(p) PROVE ScreenInv'
    BY <2>7, BouncedIsTyped
    DEF PlayerStarts, TypeOK, ScreenAgrees, HandlerInv, AskedInv, screenVars, Players
  <2>8. ASSUME NEW p \in Players, PlayerStops(p) PROVE ScreenInv'
    BY <2>8, BouncedIsTyped
    DEF PlayerStops, TypeOK, ScreenAgrees, HandlerInv, AskedInv, screenVars, Players
  <2>9. CASE UNCHANGED vars
    BY <2>9
    DEF vars, TypeOK, ScreenAgrees, HandlerInv, AskedInv, screenVars, reportVars, Players
  <2> QED
    BY <2>1, <2>2, <2>3, <2>4, <2>5, <2>6, <2>7, <2>8, <2>9 DEF Next, Handler
<1> QED BY <1>1, <1>2, PTL DEF Spec

\* Whatever the players report and whenever their messages are handled, between
\* two handlers the buttons, the spinner and the flags agree (playAudio, stopAudio,
\* audioIsReady).
THEOREM ScreenIsRight == Spec => []ScreenAgrees
<1>1. ScreenInv => ScreenAgrees
  BY DEF ScreenInv
<1> QED BY <1>1, ScreenInvHolds, PTL

\* However many players there are and whichever of them a late message stops, no
\* other than the one on the screen is left playing (stopAudio, playAudio).
THEOREM OneAtATime == Spec => []OnlyScreenPlays
<1>1. ScreenInv => OnlyScreenPlays
  BY DEF ScreenInv, OnlyScreenPlays, AskedInv
<1> QED BY <1>1, ScreenInvHolds, PTL
=============================================================================
