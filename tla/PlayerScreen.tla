---------------------------- MODULE PlayerScreen ----------------------------
(***************************************************************************)
(* The screen of MP3Play (ActorKitTestViewController): a play and a stop   *)
(* button, a busy spinner, and the player of the moment, observed from its *)
(* creation until the screen forgets it.                                   *)
(*                                                                         *)
(* A player reports on threads of its own; the screen bounces each report  *)
(* to the main thread's run loop as a message that does not say whose it   *)
(* is, and that may be handled when the user has stopped that player and   *)
(* started another.  Players are numbered in the order they are made.  Of  *)
(* a player (HooAudioStreamer.tla) only what it reports is modelled:       *)
(* started once, stopped once, and stopped once more from within           *)
(* stopPlayingAudio if there is no audio queue yet.                        *)
(***************************************************************************)
EXTENDS Integers, Sequences

CONSTANT MaxPlayers  \* bounds how many players are made

ASSUME ScreenAssumption == MaxPlayers \in Nat \ {0}

VARIABLES
  isPlaying, isBuffering, playEnabled, stopEnabled, spinning,
  player,     \* _player; 0 is nil
  players,    \* how many have been made
  begun,      \* the players that have reported started
  over,       \* the players that have reported stopped on their own
  asked,      \* the players that were told to stop
  messages,   \* the main run loop's; of and whose is history
  mpc         \* where the main thread is in playAudio or stopAudio

screenVars == <<isPlaying, isBuffering, playEnabled, stopEnabled, spinning>>
reportVars == <<begun, over>>
vars == <<screenVars, reportVars, player, players, asked, messages, mpc>>

Players == 1 .. players
Message == [what : {"audioIsReady", "stopAudio"}, whose : 1 .. MaxPlayers]

TypeOK ==
  /\ isPlaying \in BOOLEAN /\ isBuffering \in BOOLEAN /\ spinning \in BOOLEAN
  /\ playEnabled \in BOOLEAN /\ stopEnabled \in BOOLEAN
  /\ players \in 0 .. MaxPlayers /\ player \in 0 .. players
  /\ begun \subseteq Players /\ over \subseteq Players /\ asked \subseteq Players
  /\ messages \in Seq(Message)
  /\ mpc \in {"idle", "starting", "stopping"}

\* viewDidLoad
Init ==
  /\ isPlaying = FALSE /\ isBuffering = FALSE
  /\ playEnabled = TRUE /\ stopEnabled = FALSE /\ spinning = FALSE
  /\ player = 0 /\ players = 0
  /\ begun = {} /\ over = {} /\ asked = {}
  /\ messages = <<>>
  /\ mpc = "idle"

-----------------------------------------------------------------------------
(* The players.                                                            *)

\* Mutant: the screen takes a report only when it shows that it is playing.
BouncedWhenPlaying(p, what) ==
  IF p = player /\ isPlaying THEN Append(messages, [what |-> what, whose |-> p]) ELSE messages

\* observeValueForKeyPath: on the player's thread
Bounced(p, what) ==
  IF p = player THEN Append(messages, [what |-> what, whose |-> p]) ELSE messages

\* A queue that was stopped just after it was started has its stop reported
\* first, by the other thread.
PlayerStarts(p) ==
  /\ p \notin begun
  /\ p \in over => p \in asked
  /\ begun' = begun \cup {p}
  /\ messages' = Bounced(p, "audioIsReady")
  /\ UNCHANGED <<screenVars, over, player, players, asked, mpc>>

PlayerStops(p) ==
  /\ p \notin over
  /\ over' = over \cup {p}
  /\ messages' = Bounced(p, "stopAudio")
  /\ UNCHANGED <<screenVars, begun, player, players, asked, mpc>>

-----------------------------------------------------------------------------
(* The main thread.                                                        *)

\* playAudio, to startPlayingAudio.  The play button is enabled when nothing plays
\* (ScreenAgrees): the stopAudio that comes first returns at once.
PlayTapped ==
  /\ mpc = "idle" /\ playEnabled /\ ~isPlaying
  /\ players < MaxPlayers
  /\ players' = players + 1
  /\ player' = players + 1
  /\ mpc' = "starting"
  /\ UNCHANGED <<screenVars, reportVars, asked, messages>>

\* playAudio, after startPlayingAudio: the player is at work on its own thread.
ShowPlaying ==
  /\ mpc = "starting"
  /\ isPlaying' = TRUE /\ isBuffering' = TRUE
  /\ stopEnabled' = TRUE /\ playEnabled' = FALSE /\ spinning' = TRUE
  /\ mpc' = "idle"
  /\ UNCHANGED <<reportVars, player, players, asked, messages>>

\* Mutant: a player whose message it is needs no stop.
StopUnlessOver(rest) ==
  /\ isPlaying' = FALSE /\ isBuffering' = FALSE
  /\ asked' = IF rest = messages THEN asked \cup {player} ELSE asked
  /\ messages' = rest
  /\ mpc' = "stopping"
  /\ UNCHANGED <<playEnabled, stopEnabled, spinning, reportVars, player, players>>

\* stopAudio, to stopPlayingAudio.  Without an audio queue that reports stopped
\* there and then, and the screen, which still observes, bounces it too.
StopPlaying(rest) ==
  /\ isPlaying' = FALSE /\ isBuffering' = FALSE
  /\ asked' = asked \cup {player}
  /\ \/ messages' = rest
     \/ player \notin begun /\ messages' = Append(rest, [what |-> "stopAudio", whose |-> player])
  /\ mpc' = "stopping"
  /\ UNCHANGED <<playEnabled, stopEnabled, spinning, reportVars, player, players>>

StopTapped ==
  /\ mpc = "idle" /\ stopEnabled /\ isPlaying
  /\ StopPlaying(messages)

\* Mutant: the spinner is left to audioIsReady.
ForgetSpinning ==
  /\ mpc = "stopping"
  /\ player' = 0
  /\ stopEnabled' = FALSE /\ playEnabled' = TRUE
  /\ isBuffering' = FALSE
  /\ mpc' = "idle"
  /\ UNCHANGED <<isPlaying, spinning, reportVars, players, asked, messages>>

\* stopAudio, after stopPlayingAudio
Forget ==
  /\ mpc = "stopping"
  /\ player' = 0
  /\ stopEnabled' = FALSE /\ playEnabled' = TRUE
  /\ isBuffering' = FALSE /\ spinning' = FALSE
  /\ mpc' = "idle"
  /\ UNCHANGED <<isPlaying, reportVars, players, asked, messages>>

AudioIsReady ==
  /\ mpc = "idle" /\ messages # <<>> /\ Head(messages).what = "audioIsReady"
  /\ isBuffering' = FALSE /\ spinning' = FALSE
  /\ messages' = Tail(messages)
  /\ UNCHANGED <<isPlaying, playEnabled, stopEnabled, reportVars, player, players,
                 asked, mpc>>

\* The message asks for stopAudio, whatever is playing by now.
StopMessage ==
  /\ mpc = "idle" /\ messages # <<>> /\ Head(messages).what = "stopAudio"
  /\ IF isPlaying THEN StopPlaying(Tail(messages))
     ELSE messages' = Tail(messages) /\ UNCHANGED <<screenVars, reportVars, player, players, asked, mpc>>

Handler == ShowPlaying \/ Forget \/ AudioIsReady \/ StopMessage

Next ==
  \/ PlayTapped \/ StopTapped \/ Handler
  \/ \E p \in Players : PlayerStarts(p) \/ PlayerStops(p)

\* The main thread goes on with what it has begun and with its run loop.
Spec == Init /\ [][Next]_vars /\ WF_vars(Handler)

-----------------------------------------------------------------------------
(* Properties.                                                             *)

\* Whatever reports are on the way and whenever they come, of whichever player,
\* between two handlers the buttons, the spinner and the flags agree on whether
\* there is a player.
ScreenAgrees ==
  mpc = "idle" =>
    /\ isPlaying <=> player # 0
    /\ stopEnabled = isPlaying /\ playEnabled = ~isPlaying
    /\ spinning = isBuffering
    /\ isBuffering => isPlaying

\* Every player that has not come to its end was told to stop, but the one on the
\* screen, so that two are never heard at once: a message of an earlier player may
\* end a later one too soon, but never lets it go on without a screen to stop it
\* from.
OnlyScreenPlays ==
  mpc = "idle" => \A p \in Players \ over : p \in asked <=> p # player

\* A player that comes to its end is taken from the screen, even if the end came
\* before playAudio had set the screen to playing.
EndIsShown ==
  \A p \in 1 .. MaxPlayers : (player = p /\ p \in over) ~> player # p
=============================================================================
