-------------------------- MODULE Keyboard_Simplest --------------------------
(***************************************************************************)
(* The keyboard of iphonePlay: touches (View_main, TouchTracker) are       *)
(* matched with key layers (Widget_Keyboard_Simplest), keys with notes     *)
(* (Keyboard_Simplest), notes with the synthesiser's channels (SinePlayer).*)
(*                                                                         *)
(* All of it is on the main thread.  Each touch of a set of touches is a   *)
(* step of its own, and so are the two halves of a move from key to key;   *)
(* the main thread does nothing else in between.  A frequency is the key   *)
(* that has it.  The key layers are those that _setupKeys makes.           *)
(***************************************************************************)
EXTENDS CoreAudioSineGenerator

CONSTANTS
  Keys,         \* the key layers
  Touches,      \* the UITouches
  NoTouch,      \* nil
  Nowhere,      \* where no key is hit
  MaxCancelled  \* bounds how many touches are cancelled

ASSUME KeyboardAssumption ==
  /\ NoTouch \notin Touches
  /\ Nowhere \notin Keys
  /\ NoFreq \notin Keys
  /\ MaxCancelled \in Nat

VARIABLES
  layers,             \* the state and the touch of each key layer
  pressedKeys,        \* Keyboard_Simplest's pressedKeys
  channelFreqLookup,  \* SinePlayer's channelFreqLookup; -1: there is no entry
  openTouches,        \* the TouchTracker's openTouches
  downTouches,        \* the touches that have neither ended nor been cancelled
  moving              \* the touch that has left a key, and the key it goes to

keyVars == <<layers, pressedKeys, channelFreqLookup>>
touchVars == <<openTouches, downTouches, moving>>
vars == <<soundVars, keyVars, touchVars>>

NoMove == <<NoTouch, Nowhere>>

Sine ==
  [status : Statuses, freq : Keys \cup {NoFreq}, amp : 0 .. 1, ampz : 0 .. MaxAmp,
   sustain : 0 .. MinimumSustain + 1]
RenderCallback ==
  [channel : Channels, status : Statuses, ampz : 0 .. MaxAmp, sustained : BOOLEAN,
   fading : BOOLEAN, left : 0 .. Frames]

SoundTypeOK ==
  /\ sineDatas \in [Channels -> Sine]
  /\ activeInputs \subseteq Channels /\ overtaken \subseteq Channels
  /\ isPlaying \in BOOLEAN
  /\ turnOffs \in [Channels -> Nat]
  /\ rendering \in RenderCallback \cup {NoCallback}
  /\ pressedKeys \subseteq Keys
  /\ channelFreqLookup \in [Keys -> Channels \cup {-1}]

TypeOK ==
  /\ SoundTypeOK
  /\ layers \in [Keys -> [state : {"UP", "DOWN", "ERROR"}, touch : Touches \cup {NoTouch}]]
  /\ downTouches \subseteq openTouches /\ openTouches \subseteq Touches
  /\ moving \in (Touches \X Keys) \cup {NoMove}

Init ==
  /\ SoundInit
  /\ layers = [k \in Keys |-> [state |-> "UP", touch |-> NoTouch]]
  /\ pressedKeys = {}
  /\ channelFreqLookup = [k \in Keys |-> -1]
  /\ openTouches = {} /\ downTouches = {} /\ moving = NoMove

-----------------------------------------------------------------------------
(* SinePlayer and Keyboard_Simplest.                                       *)

\* Mutant: the channel a frequency had is not replaced.
PlaySineOnce(freq, channel) ==
  /\ TurnOnSine(channel, freq)
  /\ channelFreqLookup' = [channelFreqLookup EXCEPT ![freq] = IF @ = -1 THEN channel ELSE @]

PlaySine(freq, channel) ==
  /\ TurnOnSine(channel, freq)
  /\ channelFreqLookup' = [channelFreqLookup EXCEPT ![freq] = channel]

\* The press fails if there is no channel left.
KeyFails(k) == k \in pressedKeys \/ NextFreeChannel = -1

PressedKey(k) ==
  IF KeyFails(k) THEN UNCHANGED <<soundVars, pressedKeys, channelFreqLookup>>
  ELSE PlaySine(k, NextFreeChannel) /\ pressedKeys' = pressedKeys \cup {k}

ReleasedKey(k) ==
  IF k \notin pressedKeys THEN UNCHANGED <<soundVars, pressedKeys, channelFreqLookup>>
  ELSE /\ TurnOffSine(channelFreqLookup[k])
       /\ pressedKeys' = pressedKeys \ {k}
       /\ UNCHANGED channelFreqLookup

-----------------------------------------------------------------------------
(* Widget_Keyboard_Simplest.                                               *)

KeyPressedByTouch(t) == {k \in Keys : layers[k].touch = t}

\* Mutant: a key that is down is pressed again.
PressedAnyKeyLayer(k, t) ==
  /\ PressedKey(k)
  /\ layers' = [layers EXCEPT ![k] =
       [state |-> IF KeyFails(k) THEN "ERROR" ELSE "DOWN", touch |-> t]]

\* A key that is down already is left alone, and the touch is not remembered.
PressedKeyLayer(k, t) ==
  IF layers[k].state # "UP" THEN UNCHANGED <<soundVars, keyVars>>
  ELSE /\ PressedKey(k)
       /\ layers' = [layers EXCEPT ![k] =
            [state |-> IF KeyFails(k) THEN "ERROR" ELSE "DOWN", touch |-> t]]

ReleasedKeyLayer(k) ==
  IF layers[k].state = "UP" THEN UNCHANGED <<soundVars, keyVars>>
  ELSE /\ ReleasedKey(k)
       /\ layers' = [layers EXCEPT ![k] = [state |-> "UP", touch |-> NoTouch]]

PressAt(place, t) ==
  IF place = Nowhere THEN UNCHANGED <<soundVars, keyVars>>
  ELSE PressedKeyLayer(place, t)

-----------------------------------------------------------------------------
(* The touches.                                                            *)

TouchBegan(t, place) ==
  /\ moving = NoMove /\ t \notin openTouches
  /\ openTouches' = openTouches \cup {t}
  /\ downTouches' = downTouches \cup {t}
  /\ PressAt(place, t)
  /\ UNCHANGED moving

\* The touch leaves its key: what it goes to comes next.
TouchMovedOff(t, place) ==
  /\ moving = NoMove /\ t \in downTouches
  /\ \E k \in KeyPressedByTouch(t) \ {place} : ReleasedKeyLayer(k)
  /\ moving' = IF place = Nowhere THEN NoMove ELSE <<t, place>>
  /\ UNCHANGED <<openTouches, downTouches>>

TouchMovedOn ==
  /\ moving # NoMove
  /\ PressedKeyLayer(moving[2], moving[1])
  /\ moving' = NoMove
  /\ UNCHANGED <<openTouches, downTouches>>

\* The touch that was on no key may be on one now.
TouchMovedOnto(t, place) ==
  /\ moving = NoMove /\ t \in downTouches
  /\ KeyPressedByTouch(t) \subseteq {place}
  /\ PressAt(place, t)
  /\ UNCHANGED touchVars

TouchEnded(t) ==
  /\ moving = NoMove /\ t \in downTouches
  /\ openTouches' = openTouches \ {t}
  /\ downTouches' = downTouches \ {t}
  /\ IF KeyPressedByTouch(t) = {} THEN UNCHANGED <<soundVars, keyVars>>
     ELSE \E k \in KeyPressedByTouch(t) : ReleasedKeyLayer(k)
  /\ UNCHANGED moving

\* A cancelled touch is not reported to the tracker or to the keyboard.
TouchCancelled(t) ==
  /\ moving = NoMove /\ t \in downTouches
  /\ Cardinality(openTouches \ downTouches) < MaxCancelled
  /\ downTouches' = downTouches \ {t}
  /\ UNCHANGED <<soundVars, keyVars, openTouches, moving>>

TurnOffLater(c) ==
  /\ moving = NoMove
  /\ DelayedTurnOff(c)
  /\ UNCHANGED <<keyVars, touchVars>>

Rendering(c) == Render(c) /\ UNCHANGED <<keyVars, touchVars>>

Next ==
  \/ \E t \in Touches :
       \/ \E place \in Keys \cup {Nowhere} :
            TouchBegan(t, place) \/ TouchMovedOff(t, place) \/ TouchMovedOnto(t, place)
       \/ TouchEnded(t) \/ TouchCancelled(t)
  \/ TouchMovedOn
  \/ \E c \in Channels : TurnOffLater(c) \/ Rendering(c)

Spec == Init /\ [][Next]_vars

-----------------------------------------------------------------------------
(* Properties.                                                             *)

\* Each key that is pressed has a channel that is active and plays its note, and
\* the entry that its release will look up is that channel: an entry of an
\* earlier press of the same key, or a channel that has gone to another key, is
\* never used.  Every other channel has the amplitude zero that turnOnSine asserts
\* of the one it is given.
OwnChannel ==
  /\ \A k \in pressedKeys :
       LET c == channelFreqLookup[k]
       IN  c \in activeInputs /\ sineDatas[c].freq = k
  /\ \A c \in Channels :
       sineDatas[c].amp = 1 <=> \E k \in pressedKeys : channelFreqLookup[k] = c

\* A note that is released is on its way to its end: its channel is rendered, and
\* will be found by one message that is sent until the note has ended.  There is
\* never a second one, nor one for another note, that would end it when it comes.
TurnOffIsOwn ==
  \A c \in Channels :
    LET released == c \in activeInputs /\ sineDatas[c].amp = 0
    IN  /\ turnOffs[c] = IF released THEN 1 ELSE 0
        /\ released => /\ isPlaying
                       /\ sineDatas[c].status \in {"NOTE_RELEASE", "NOTE_ENDED"}

\* The note of a key that is down sounds, unless its channel was taken from an
\* earlier note while a callback for that was still running: the callback may then
\* end the new note, which is silent although nothing has released it.
NoteSounds ==
  \A k \in pressedKeys :
    LET c == channelFreqLookup[k]
    IN  c \in overtaken \/ sineDatas[c].status = "NOTE_ATTACK"

\* A key is not up only under a touch that the tracker has open, each touch holds
\* one key at most, and a key is down if and only if the keyboard has it pressed:
\* no order of touches that come, cross and leave keeps a note for nobody.  A
\* touch that is open and not down has been cancelled, and its key is stuck.
KeyUnderTouch ==
  /\ \A k \in Keys :
       /\ layers[k].state # "UP" <=> layers[k].touch \in openTouches
       /\ layers[k].state = "DOWN" <=> k \in pressedKeys
  /\ \A t \in Touches : Cardinality(KeyPressedByTouch(t)) <= 1
=============================================================================
