----------------------- MODULE CoreAudioSineGenerator -----------------------
(***************************************************************************)
(* The synthesiser of iphonePlay (Classes/CoreAudioSineGenerator.m): a     *)
(* number of channels, each a sine with an envelope.  The main thread      *)
(* turns a sine on and off; the audio thread renders the active channels,  *)
(* one callback after the other, and ends the note that has faded; a       *)
(* delayed message on the main thread's run loop then takes the channel    *)
(* back, or is sent again if the note has not ended yet.                   *)
(*                                                                         *)
(* The audio thread reads and writes the channel's data with no lock: what *)
(* a callback reads when it begins it may write back when the main thread  *)
(* has long changed it.  Nothing in the code says that taking the callback *)
(* from the channel waits for one that is running, so here it does not.    *)
(*                                                                         *)
(* Amplitudes and durations are a few steps, and the waveform is left out. *)
(* A step of the main thread is one handler.                               *)
(***************************************************************************)
EXTENDS Integers, FiniteSets

CONSTANTS
  MaxInputs,       \* MAX_INPUTS, how many channels there are
  MaxAmp,          \* MAX_AMP_FOR_FREQ, in steps of the slopes
  MinimumSustain,  \* MINIMUM_SUSTAIN_DURATION, in callbacks
  Frames,          \* inNumberFrames
  StopsWhenSilent, \* NSDEBUGENABLED: the graph is stopped with the last channel
  NoFreq           \* the frequency of a channel that has none

ASSUME GeneratorAssumption ==
  /\ MaxInputs \in Nat \ {0}
  /\ MaxAmp \in Nat \ {0}
  /\ MinimumSustain \in Nat
  /\ Frames \in Nat \ {0}
  /\ StopsWhenSilent \in BOOLEAN

Channels == 0 .. MaxInputs - 1
Statuses == {"NOTE_FREE", "NOTE_ATTACK", "NOTE_RELEASE", "NOTE_ENDED"}

VARIABLES
  sineDatas,     \* the data of each channel
  activeInputs,  \* _activeInputs, the inputs that are enabled
  isPlaying,     \* _isPlaying
  turnOffs,      \* how many _delayedTurnOff: of each channel are pending
  rendering,     \* the callback that is running, if any
  overtaken      \* history: channels taken back while their callback was running

soundVars == <<sineDatas, activeInputs, isPlaying, turnOffs, rendering, overtaken>>

FreeSine ==
  [status |-> "NOTE_FREE", freq |-> NoFreq, amp |-> 0, ampz |-> 0, sustain |-> 0]

NoCallback == [channel |-> -1]

SoundInit ==
  /\ sineDatas = [c \in Channels |-> FreeSine]
  /\ activeInputs = {}
  /\ isPlaying = FALSE
  /\ turnOffs = [c \in Channels |-> 0]
  /\ rendering = NoCallback
  /\ overtaken = {}

-----------------------------------------------------------------------------
(* The main thread.                                                        *)

FreeChannels == Channels \ activeInputs

\* Mutant: a channel is free as soon as its note is released.
NextFreeChannelFading ==
  LET free == {c \in Channels : sineDatas[c].amp = 0}
  IN  IF free = {} THEN -1 ELSE CHOOSE c \in free : \A d \in free : c <= d

NextFreeChannel ==
  IF FreeChannels = {} THEN -1
  ELSE CHOOSE c \in FreeChannels : \A d \in FreeChannels : c <= d

\* setInput:isEnabled: 1 starts the graph with the first channel, ...
EnableInput(c) ==
  /\ isPlaying' = TRUE
  /\ activeInputs' = activeInputs \cup {c}

\* ... and 0 may stop it with the last.
DisableInput(c) ==
  /\ activeInputs' = activeInputs \ {c}
  /\ isPlaying' = (isPlaying /\ ~(StopsWhenSilent /\ activeInputs' = {}))

TurnOnSine(c, freq) ==
  /\ sineDatas' = [sineDatas EXCEPT ![c] =
       [status |-> "NOTE_ATTACK", freq |-> freq, amp |-> 1, ampz |-> 0, sustain |-> 0]]
  /\ EnableInput(c)
  /\ UNCHANGED <<turnOffs, rendering, overtaken>>

TurnOffSine(c) ==
  /\ sineDatas' = [sineDatas EXCEPT ![c].amp = 0, ![c].status = "NOTE_RELEASE"]
  /\ turnOffs' = [turnOffs EXCEPT ![c] = @ + 1]
  /\ UNCHANGED <<activeInputs, isPlaying, rendering, overtaken>>

\* The delayed message finds that the note has ended, ...
TakeBack(c) ==
  /\ sineDatas[c].status = "NOTE_ENDED"
  /\ DisableInput(c)
  /\ sineDatas' = [sineDatas EXCEPT ![c] = [FreeSine EXCEPT !.sustain = sineDatas[c].sustain]]
  /\ turnOffs' = [turnOffs EXCEPT ![c] = @ - 1]
  /\ overtaken' = IF rendering.channel = c THEN overtaken \cup {c} ELSE overtaken \ {c}
  /\ UNCHANGED rendering

\* Mutant: the message is not sent again.
TryOnce(c) ==
  /\ sineDatas[c].status # "NOTE_ENDED"
  /\ turnOffs' = [turnOffs EXCEPT ![c] = @ - 1]
  /\ UNCHANGED <<sineDatas, activeInputs, isPlaying, rendering, overtaken>>

\* ... or has not, and is sent again.
TryAgain(c) ==
  /\ sineDatas[c].status # "NOTE_ENDED"
  /\ UNCHANGED soundVars

DelayedTurnOff(c) == turnOffs[c] > 0 /\ (TakeBack(c) \/ TryAgain(c))

-----------------------------------------------------------------------------
(* The audio thread: renderInput.                                          *)

Lesser(a, b) == IF a < b THEN a ELSE b

\* A callback begins on an active channel and reads its data.  The frames of an
\* attack raise what it has read, those of a note that is free or has ended are
\* silent: only those of a release touch the channel before the callback ends.
RenderBegins(c) ==
  /\ isPlaying /\ c \in activeInputs
  /\ rendering = NoCallback
  /\ LET data == sineDatas[c]
     IN  rendering' =
           [channel |-> c, status |-> data.status,
            ampz |-> IF data.status = "NOTE_ATTACK" THEN Lesser(data.ampz + Frames, MaxAmp)
                     ELSE data.ampz,
            sustained |-> data.sustain > MinimumSustain,
            fading |-> TRUE,
            left |-> IF data.status = "NOTE_RELEASE" THEN Frames ELSE 0]
  /\ UNCHANGED <<sineDatas, activeInputs, isPlaying, turnOffs, overtaken>>

\* A note that has sustained for long enough fades, and is then found to have
\* ended.  How long it has is read from the channel, or is still in a register.
FrameOfRelease ==
  /\ rendering.fading
  /\ \E sustained \in {rendering.sustained,
                       sineDatas[rendering.channel].sustain > MinimumSustain} :
       rendering' =
         IF ~sustained THEN [rendering EXCEPT !.left = @ - 1]
         ELSE IF rendering.ampz > 0
         THEN [rendering EXCEPT !.ampz = @ - 1, !.left = @ - 1]
         ELSE [rendering EXCEPT !.fading = FALSE]
  /\ UNCHANGED sineDatas

\* What the test has found is written after it: by then the channel may be free, or
\* have another note.
EndNote ==
  /\ ~rendering.fading
  /\ sineDatas' = [sineDatas EXCEPT ![rendering.channel].status = "NOTE_ENDED"]
  /\ rendering' = [rendering EXCEPT !.fading = TRUE, !.left = @ - 1]

RenderFrame ==
  /\ rendering # NoCallback /\ rendering.left > 0
  /\ FrameOfRelease \/ EndNote
  /\ UNCHANGED <<activeInputs, isPlaying, turnOffs, overtaken>>

\* The callback ends and writes back what it has kept to itself.
RenderEnds ==
  /\ rendering # NoCallback /\ rendering.left = 0
  /\ rendering' = NoCallback
  /\ sineDatas' = [sineDatas EXCEPT
       ![rendering.channel].ampz = rendering.ampz,
       ![rendering.channel].sustain =
         IF rendering.status = "NOTE_RELEASE" THEN Lesser(@ + 1, MinimumSustain + 1) ELSE @]
  /\ UNCHANGED <<activeInputs, isPlaying, turnOffs, overtaken>>

Render(c) == RenderBegins(c) \/ (rendering.channel = c /\ (RenderFrame \/ RenderEnds))
=============================================================================
