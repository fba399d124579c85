---------------------- MODULE Keyboard_Simplest_proofs ----------------------
(***************************************************************************)
(* Proofs about the keyboard and its channels, for any number of channels, *)
(* keys and touches, any lengths of notes and callbacks: no channel serves *)
(* two notes, none is lost, and no key is down for nobody.                 *)
(***************************************************************************)
EXTENDS Keyboard_Simplest, FiniteSetTheorems, WellFoundedInduction, TLAPS

\* The parts that the synthesiser's steps can disturb.
SoundInv ==
  /\ SoundTypeOK
  /\ OwnChannel
  /\ TurnOffIsOwn
  /\ activeInputs # {} => isPlaying

\* The parts that the touches' steps can disturb.  A touch between two keys has none.
TouchInv ==
  /\ \A k \in Keys :
       /\ layers[k].state # "UP" <=> layers[k].touch \in openTouches
       /\ layers[k].state = "DOWN" <=> k \in pressedKeys
       /\ layers[k].touch \in openTouches \cup {NoTouch}
  /\ \A j, k \in Keys : layers[j].touch = layers[k].touch /\ layers[k].touch # NoTouch => j = k
  /\ moving # NoMove => moving[1] \in downTouches /\ \A k \in Keys : layers[k].touch # moving[1]

KeyboardInv == TypeOK /\ SoundInv /\ TouchInv

-----------------------------------------------------------------------------
(* The synthesiser.                                                        *)

\* A set of numbers has a least one.
LEMMA LeastExists ==
  ASSUME NEW S \in SUBSET Nat, S # {}
  PROVE  \E c \in S : \A d \in S : c <= d
<1> DEFINE Less == {ss \in Nat \X Nat : ss[1] < ss[2]}
<1>1. IsWellFoundedOn(Less, Nat)
  BY NatLessThanWellFounded DEF OpToRel
<1>2. \E x \in S : \A y \in S : ~ (<<y, x>> \in Less)
  <2> HIDE DEF Less
  <2> QED BY <1>1, WFMin
<1>3. PICK x \in S : \A y \in S : ~ (<<y, x>> \in Less)
  BY <1>2
<1>4. ASSUME NEW y \in S PROVE x <= y
  <2>1. x \in Nat /\ y \in Nat
    OBVIOUS
  <2>2. ~(y < x)
    BY <1>3, <2>1
  <2> QED BY <2>1, <2>2
<1> QED BY <1>4

\* A channel that is handed out is one of the channels, and is not active.
LEMMA NextFreeChannelIsFree ==
  ASSUME NextFreeChannel # -1
  PROVE  NextFreeChannel \in Channels \ activeInputs
<1>1. FreeChannels # {}
  BY DEF NextFreeChannel
<1>2. FreeChannels \in SUBSET Nat
  BY GeneratorAssumption DEF FreeChannels, Channels
<1>3. \E c \in FreeChannels : \A d \in FreeChannels : c <= d
  BY <1>1, <1>2, LeastExists
<1>4. NextFreeChannel = CHOOSE c \in FreeChannels : \A d \in FreeChannels : c <= d
  BY <1>1 DEF NextFreeChannel
<1>5. NextFreeChannel \in FreeChannels
  BY <1>3, <1>4
<1> QED BY <1>5 DEF FreeChannels

\* A key that is pressed takes a free channel, or none if all are taken.
LEMMA PressedKeyKeeps ==
  ASSUME SoundInv, NEW k \in Keys, PressedKey(k)
  PROVE  /\ SoundInv'
         /\ pressedKeys' = IF KeyFails(k) THEN pressedKeys ELSE pressedKeys \cup {k}
<1>1. CASE KeyFails(k)
  BY <1>1
  DEF PressedKey, SoundInv, SoundTypeOK, OwnChannel, TurnOffIsOwn, soundVars
<1>2. CASE ~KeyFails(k)
  <2> DEFINE c == NextFreeChannel
  <2>1. c \in Channels \ activeInputs /\ k \notin pressedKeys
    BY <1>2, NextFreeChannelIsFree DEF KeyFails
  <2> HIDE DEF c
  <2>2. /\ sineDatas' = [sineDatas EXCEPT ![c] =
             [status |-> "NOTE_ATTACK", freq |-> k, amp |-> 1, ampz |-> 0, sustain |-> 0]]
        /\ isPlaying' = TRUE
        /\ activeInputs' = activeInputs \cup {c}
        /\ channelFreqLookup' = [channelFreqLookup EXCEPT ![k] = c]
        /\ pressedKeys' = pressedKeys \cup {k}
        /\ UNCHANGED <<turnOffs, rendering, overtaken>>
    BY <1>2 DEF PressedKey, PlaySine, TurnOnSine, EnableInput, c
  <2>3. [status |-> "NOTE_ATTACK", freq |-> k, amp |-> 1, ampz |-> 0, sustain |-> 0] \in Sine
    BY GeneratorAssumption DEF Sine, Statuses
  <2>4. SoundTypeOK'
    BY <2>1, <2>2, <2>3 DEF SoundInv, SoundTypeOK
  <2>5. OwnChannel'
    BY <2>1, <2>2 DEF SoundInv, SoundTypeOK, OwnChannel, Sine
  <2>6. TurnOffIsOwn'
    BY <2>1, <2>2 DEF SoundInv, SoundTypeOK, TurnOffIsOwn, Sine
  <2> QED BY <1>2, <2>2, <2>4, <2>5, <2>6 DEF SoundInv
<1> QED BY <1>1, <1>2

\* A key that is released leaves its channel to the one turn-off that is sent.
LEMMA ReleasedKeyKeeps ==
  ASSUME SoundInv, NEW k \in Keys, ReleasedKey(k)
  PROVE  SoundInv' /\ pressedKeys' = pressedKeys \ {k}
<1>1. CASE k \notin pressedKeys
  BY <1>1
  DEF ReleasedKey, SoundInv, SoundTypeOK, OwnChannel, TurnOffIsOwn, soundVars
<1>2. CASE k \in pressedKeys
  <2> DEFINE c == channelFreqLookup[k]
  <2>1. c \in activeInputs /\ sineDatas[c].freq = k /\ sineDatas[c].amp = 1 /\ c \in Channels
    BY <1>2 DEF SoundInv, SoundTypeOK, OwnChannel
  <2>2. \A j \in pressedKeys : channelFreqLookup[j] = c => j = k
    BY <2>1 DEF SoundInv, SoundTypeOK, OwnChannel
  <2>3. /\ sineDatas' = [sineDatas EXCEPT ![c].amp = 0, ![c].status = "NOTE_RELEASE"]
        /\ turnOffs' = [turnOffs EXCEPT ![c] = @ + 1]
        /\ pressedKeys' = pressedKeys \ {k}
        /\ UNCHANGED <<activeInputs, isPlaying, rendering, overtaken, channelFreqLookup>>
    BY <1>2 DEF ReleasedKey, TurnOffSine
  <2> HIDE DEF c
  <2>4. SoundTypeOK'
    <3> DEFINE old == sineDatas[c]
    <3>0. old \in Sine
      BY <2>1 DEF SoundInv, SoundTypeOK
    <3>1. [old EXCEPT !.amp = 0, !.status = "NOTE_RELEASE"] \in Sine
      <4>1. "NOTE_RELEASE" \in Statuses /\ 0 \in 0 .. 1
        BY DEF Statuses
      <4> HIDE DEF old
      <4> QED BY <3>0, <4>1 DEF Sine
    <3>2. sineDatas' = [sineDatas EXCEPT ![c] =
                          [sineDatas[c] EXCEPT !.amp = 0, !.status = "NOTE_RELEASE"]]
      BY <2>1, <2>3 DEF SoundInv, SoundTypeOK, Sine
    <3> QED BY <2>1, <2>3, <3>1, <3>2 DEF SoundInv, SoundTypeOK
  <2>5. OwnChannel'
    BY <2>1, <2>2, <2>3 DEF SoundInv, SoundTypeOK, OwnChannel, Sine
  <2>6. TurnOffIsOwn'
    BY <2>1, <2>3 DEF SoundInv, SoundTypeOK, TurnOffIsOwn, Sine
  <2> QED BY <2>3, <2>4, <2>5, <2>6 DEF SoundInv
<1> QED BY <1>1, <1>2

\* The turn-off is sent again, or takes the channel back with the note.
LEMMA DelayedTurnOffKeeps ==
  ASSUME SoundInv, NEW c \in Channels, DelayedTurnOff(c), UNCHANGED keyVars
  PROVE  SoundInv'
<1>1. CASE TryAgain(c)
  BY <1>1
  DEF TryAgain, SoundInv, SoundTypeOK, OwnChannel, TurnOffIsOwn, soundVars, keyVars
<1>2. CASE TakeBack(c)
  <2>1. c \in activeInputs /\ sineDatas[c].amp = 0 /\ turnOffs[c] = 1
    BY DEF DelayedTurnOff, SoundInv, SoundTypeOK, TurnOffIsOwn
  <2>2. \A k \in pressedKeys : channelFreqLookup[k] # c
    BY <2>1 DEF SoundInv, SoundTypeOK, OwnChannel
  <2>3. [FreeSine EXCEPT !.sustain = sineDatas[c].sustain] \in Sine
    BY GeneratorAssumption DEF SoundInv, SoundTypeOK, FreeSine, Sine, Statuses
  <2>4. [FreeSine EXCEPT !.sustain = sineDatas[c].sustain].amp = 0
    BY DEF FreeSine
  <2>5. SoundTypeOK'
    BY <1>2, <2>1, <2>3 DEF TakeBack, DisableInput, SoundInv, SoundTypeOK, keyVars
  <2>6. OwnChannel'
    BY <1>2, <2>1, <2>2, <2>4
    DEF TakeBack, DisableInput, SoundInv, SoundTypeOK, OwnChannel, keyVars
  <2>7. activeInputs' # {} => isPlaying'
    BY <1>2 DEF TakeBack, DisableInput, SoundInv
  <2>8. TurnOffIsOwn'
    BY <1>2, <2>1, <2>7
    DEF TakeBack, DisableInput, SoundInv, SoundTypeOK, TurnOffIsOwn
  <2> QED BY <2>5, <2>6, <2>7, <2>8 DEF SoundInv
<1> QED BY <1>1, <1>2 DEF DelayedTurnOff

\* The audio thread writes amplitudes and states, and never whose a channel is.
LEMMA RenderKeeps ==
  ASSUME SoundInv, NEW c \in Channels, Render(c), UNCHANGED keyVars
  PROVE  SoundInv'
<1> USE DEF keyVars
<1>1. CASE RenderBegins(c)
  <2>1. rendering' \in RenderCallback
    BY <1>1, GeneratorAssumption
    DEF RenderBegins, RenderCallback, SoundInv, SoundTypeOK, Sine, Lesser
  <2> QED BY <1>1, <2>1
    DEF RenderBegins, SoundInv, SoundTypeOK, OwnChannel, TurnOffIsOwn
<1>2. CASE rendering.channel = c /\ RenderFrame
  <2>1. rendering \in RenderCallback /\ rendering.left > 0
    BY <1>2 DEF RenderFrame, SoundInv, SoundTypeOK
  <2>2. CASE FrameOfRelease
    <3>0. rendering.left - 1 \in 0 .. Frames /\ (rendering.ampz > 0 => rendering.ampz - 1 \in 0 .. MaxAmp)
      BY <2>1, GeneratorAssumption DEF RenderCallback
    <3>1. rendering' \in RenderCallback
      <4>1. \/ rendering' = [rendering EXCEPT !.left = @ - 1]
            \/ rendering.ampz > 0 /\ rendering' = [rendering EXCEPT !.ampz = @ - 1, !.left = @ - 1]
            \/ rendering' = [rendering EXCEPT !.fading = FALSE]
        BY <2>2 DEF FrameOfRelease
      <4> QED BY <2>1, <3>0, <4>1 DEF RenderCallback
    <3> QED BY <1>2, <2>2, <3>1
      DEF RenderFrame, FrameOfRelease, SoundInv, SoundTypeOK, OwnChannel, TurnOffIsOwn
  <2>3. CASE EndNote
    <3>0. rendering.left - 1 \in 0 .. Frames
      BY <2>1, GeneratorAssumption DEF RenderCallback
    <3>1. rendering' \in RenderCallback
      BY <2>1, <2>3, <3>0 DEF EndNote, RenderCallback
    <3>2. /\ sineDatas' = [sineDatas EXCEPT ![c].status = "NOTE_ENDED"]
          /\ UNCHANGED <<activeInputs, isPlaying, turnOffs, overtaken>>
      BY <1>2, <2>3 DEF EndNote, RenderFrame
    <3>3. SoundTypeOK'
      BY <3>1, <3>2 DEF SoundInv, SoundTypeOK, Sine, Statuses
    <3>4. OwnChannel'
      BY <3>2 DEF SoundInv, SoundTypeOK, OwnChannel, Sine
    <3>5. TurnOffIsOwn'
      BY <3>2 DEF SoundInv, SoundTypeOK, TurnOffIsOwn, Sine
    <3> QED BY <3>2, <3>3, <3>4, <3>5 DEF SoundInv
  <2> QED BY <1>2, <2>2, <2>3 DEF RenderFrame
<1>3. CASE rendering.channel = c /\ RenderEnds
  <2>1. rendering \in RenderCallback
    BY <1>3 DEF RenderEnds, SoundInv, SoundTypeOK
  <2> DEFINE s == IF rendering.status = "NOTE_RELEASE"
                  THEN Lesser(sineDatas[c].sustain + 1, MinimumSustain + 1)
                  ELSE sineDatas[c].sustain
  <2>0. s \in 0 .. MinimumSustain + 1
    BY GeneratorAssumption DEF SoundInv, SoundTypeOK, Sine, Lesser
  <2>2. /\ sineDatas' = [sineDatas EXCEPT ![c].ampz = rendering.ampz, ![c].sustain = s]
        /\ rendering' = NoCallback
        /\ UNCHANGED <<activeInputs, isPlaying, turnOffs, overtaken>>
    BY <1>3 DEF RenderEnds, SoundInv, SoundTypeOK, Sine
  <2>3. rendering.ampz \in 0 .. MaxAmp
    BY <2>1 DEF RenderCallback
  <2> HIDE DEF s
  <2>4. SoundTypeOK'
    <3>1. [sineDatas[c] EXCEPT !.ampz = rendering.ampz, !.sustain = s] \in Sine
      BY <2>0, <2>3 DEF SoundInv, SoundTypeOK, Sine
    <3>2. sineDatas' = [sineDatas EXCEPT ![c] =
                          [sineDatas[c] EXCEPT !.ampz = rendering.ampz, !.sustain = s]]
      BY <2>2 DEF SoundInv, SoundTypeOK, Sine
    <3> QED BY <2>2, <3>1, <3>2 DEF SoundInv, SoundTypeOK
  <2>5. OwnChannel'
    BY <2>2 DEF SoundInv, SoundTypeOK, OwnChannel, Sine
  <2>6. TurnOffIsOwn'
    BY <2>2 DEF SoundInv, SoundTypeOK, TurnOffIsOwn, Sine
  <2> QED BY <2>2, <2>4, <2>5, <2>6 DEF SoundInv
<1> QED BY <1>1, <1>2, <1>3 DEF Render

-----------------------------------------------------------------------------
(* The touches.                                                            *)

LayersTyped ==
  layers \in [Keys -> [state : {"UP", "DOWN", "ERROR"}, touch : Touches \cup {NoTouch}]]

\* A layer that is touched belongs to that touch and to no other.
LEMMA PressedKeyLayerKeeps ==
  ASSUME LayersTyped, SoundInv, TouchInv, openTouches \subseteq Touches,
         NEW k \in Keys, NEW t \in Touches, t \in openTouches', openTouches \subseteq openTouches',
         openTouches' \subseteq Touches,
         \A j \in Keys : layers[j].touch \in openTouches' => layers[j].touch \in openTouches,
         \A j \in Keys : layers[j].touch = t => j = k,
         moving' = NoMove, PressedKeyLayer(k, t)
  PROVE  LayersTyped' /\ SoundInv' /\ TouchInv'
<1>1. CASE layers[k].state # "UP"
  <2>1. UNCHANGED <<soundVars, keyVars>>
    BY <1>1 DEF PressedKeyLayer
  <2>2. SoundInv'
    BY <2>1
    DEF SoundInv, SoundTypeOK, OwnChannel, TurnOffIsOwn, soundVars, keyVars
  <2>3. LayersTyped' /\ TouchInv'
    BY <2>1 DEF LayersTyped, TouchInv, keyVars
  <2> QED BY <2>2, <2>3
<1>2. CASE layers[k].state = "UP"
  <2>1. /\ PressedKey(k)
        /\ layers' = [layers EXCEPT ![k] =
             [state |-> IF KeyFails(k) THEN "ERROR" ELSE "DOWN", touch |-> t]]
    BY <1>2 DEF PressedKeyLayer
  <2>2. /\ SoundInv'
        /\ pressedKeys' = IF KeyFails(k) THEN pressedKeys ELSE pressedKeys \cup {k}
    BY <2>1, PressedKeyKeeps
  <2>3. k \notin pressedKeys
    BY <1>2 DEF TouchInv
  <2>4. LayersTyped'
    BY <2>1 DEF LayersTyped
  <2>5. TouchInv'
    BY <2>1, <2>2, <2>3, KeyboardAssumption DEF TouchInv, LayersTyped
  <2> QED BY <2>2, <2>4, <2>5
<1> QED BY <1>1, <1>2

\* A touch leaves its key, by moving off it or by ending: it may be open after
\* that, and on its way to another key.
LEMMA ReleasedKeyLayerKeeps ==
  ASSUME LayersTyped, SoundInv, TouchInv, openTouches \subseteq Touches,
         NEW k \in Keys, NEW t \in openTouches, layers[k].touch = t,
         openTouches' \in {openTouches, openTouches \ {t}},
         moving' = NoMove \/ (moving'[1] = t /\ t \in downTouches'),
         ReleasedKeyLayer(k)
  PROVE  LayersTyped' /\ SoundInv' /\ TouchInv'
<1>1. layers[k].state # "UP"
  BY DEF TouchInv
<1>2. ReleasedKey(k) /\ layers' = [layers EXCEPT ![k] = [state |-> "UP", touch |-> NoTouch]]
  BY <1>1 DEF ReleasedKeyLayer
<1>3. SoundInv' /\ pressedKeys' = pressedKeys \ {k}
  BY <1>2, ReleasedKeyKeeps
<1>4. LayersTyped'
  BY <1>2 DEF LayersTyped
<1>5. NoTouch \notin openTouches /\ t # NoTouch
  BY KeyboardAssumption
<1>6. \A j \in Keys : layers[j].touch = t => j = k
  BY <1>5 DEF TouchInv
<1>7. \A j \in Keys : layers'[j] = IF j = k THEN [state |-> "UP", touch |-> NoTouch] ELSE layers[j]
  BY <1>2 DEF LayersTyped
<1>8. \A j \in Keys : layers'[j].touch # t
  BY <1>5, <1>6, <1>7
<1>9. \A j \in Keys :
        /\ layers'[j].state # "UP" <=> layers'[j].touch \in openTouches'
        /\ layers'[j].state = "DOWN" <=> j \in pressedKeys'
        /\ layers'[j].touch \in openTouches' \cup {NoTouch}
  BY <1>3, <1>5, <1>7, <1>8 DEF TouchInv
<1>10. \A i, j \in Keys :
         layers'[i].touch = layers'[j].touch /\ layers'[j].touch # NoTouch => i = j
  BY <1>7 DEF TouchInv
<1> QED BY <1>3, <1>4, <1>8, <1>9, <1>10 DEF TouchInv

\* KeyboardInv is inductive: one step per action.
LEMMA KeyboardInvHolds == Spec => []KeyboardInv
<1>1. ASSUME Init PROVE KeyboardInv
  <2> USE <1>1 DEF Init, SoundInit
  <2>1. FreeSine \in Sine /\ FreeSine.amp = 0
    BY GeneratorAssumption DEF FreeSine, Sine, Statuses
  <2>2. SoundTypeOK
    BY <2>1 DEF SoundTypeOK
  <2>3. OwnChannel /\ TurnOffIsOwn
    BY <2>1 DEF OwnChannel, TurnOffIsOwn
  <2>4. TypeOK
    BY <2>2 DEF TypeOK
  <2>5. TouchInv
    BY KeyboardAssumption DEF TouchInv
  <2> QED BY <2>2, <2>3, <2>4, <2>5 DEF KeyboardInv, SoundInv
<1>2. KeyboardInv /\ [Next]_vars => KeyboardInv'
  <2> SUFFICES ASSUME KeyboardInv, [Next]_vars PROVE KeyboardInv'
    OBVIOUS
  <2> USE DEF KeyboardInv
  <2>a. LayersTyped /\ openTouches \subseteq Touches /\ downTouches \subseteq openTouches
    BY DEF TypeOK, LayersTyped
  <2>b. ASSUME LayersTyped', SoundInv', TouchInv', openTouches' \subseteq Touches,
               downTouches' \subseteq openTouches', moving' \in (Touches \X Keys) \cup {NoMove}
        PROVE  KeyboardInv'
    BY <2>b DEF TypeOK, LayersTyped, SoundInv
  <2>c. ASSUME UNCHANGED keyVars, SoundInv', openTouches' = openTouches,
               downTouches' \subseteq openTouches, moving' \in {moving, NoMove},
               moving' # NoMove => downTouches' = downTouches
        PROVE  KeyboardInv'
    <3>1. LayersTyped' /\ TouchInv'
      BY <2>a, <2>c DEF LayersTyped, TouchInv, keyVars
    <3> QED BY <2>a, <2>b, <2>c, <3>1 DEF TypeOK
  <2>d. ASSUME UNCHANGED soundVars, UNCHANGED keyVars PROVE SoundInv'
    BY <2>d DEF SoundInv, SoundTypeOK, OwnChannel, TurnOffIsOwn, soundVars, keyVars
  <2>1. ASSUME NEW t \in Touches, NEW place \in Keys \cup {Nowhere}, TouchBegan(t, place)
        PROVE  KeyboardInv'
    <3>1. /\ t \notin openTouches /\ moving' = NoMove /\ PressAt(place, t)
          /\ openTouches' = openTouches \cup {t} /\ downTouches' = downTouches \cup {t}
      BY <2>1 DEF TouchBegan
    <3>2. \A j \in Keys : layers[j].touch # t
      BY <3>1, KeyboardAssumption DEF TouchInv
    <3>3. openTouches' \subseteq Touches /\ downTouches' \subseteq openTouches'
      BY <2>a, <3>1
    <3>4. LayersTyped' /\ SoundInv' /\ TouchInv'
      <4>1. CASE place = Nowhere
        <5>1. UNCHANGED <<soundVars, keyVars>>
          BY <3>1, <4>1 DEF PressAt
        <5>2. LayersTyped' /\ TouchInv'
          BY <2>a, <3>1, <3>2, <5>1 DEF LayersTyped, TouchInv, keyVars
        <5> QED BY <2>d, <5>1, <5>2
      <4>2. CASE place \in Keys /\ place # Nowhere
        <5>1. PressedKeyLayer(place, t)
          BY <3>1, <4>2 DEF PressAt
        <5> QED BY <2>a, <3>1, <3>2, <3>3, <4>2, <5>1, PressedKeyLayerKeeps
      <4> QED BY <4>1, <4>2
    <3> QED BY <2>b, <3>1, <3>3, <3>4
  <2>2. ASSUME NEW t \in Touches, NEW place \in Keys \cup {Nowhere}, TouchMovedOff(t, place)
        PROVE  KeyboardInv'
    <3>1. PICK k \in Keys : layers[k].touch = t /\ ReleasedKeyLayer(k)
      BY <2>2 DEF TouchMovedOff, KeyPressedByTouch
    <3>2. /\ openTouches' = openTouches /\ downTouches' = downTouches /\ t \in downTouches
          /\ moving' = IF place = Nowhere THEN NoMove ELSE <<t, place>>
      BY <2>2 DEF TouchMovedOff
    <3>3. moving' = NoMove \/ (moving'[1] = t /\ t \in downTouches')
      BY <3>2
    <3>4. LayersTyped' /\ SoundInv' /\ TouchInv'
      BY <2>a, <3>1, <3>2, <3>3, ReleasedKeyLayerKeeps
    <3> QED BY <2>a, <2>b, <3>2, <3>4
  <2>3. CASE TouchMovedOn
    <3>1. /\ moving \in Touches \X Keys /\ moving[1] \in downTouches /\ moving' = NoMove
          /\ UNCHANGED <<openTouches, downTouches>> /\ PressedKeyLayer(moving[2], moving[1])
      BY <2>3 DEF TouchMovedOn, TypeOK, TouchInv
    <3>2. \A j \in Keys : layers[j].touch # moving[1]
      BY <2>3 DEF TouchMovedOn, TouchInv
    <3>3. LayersTyped' /\ SoundInv' /\ TouchInv'
      BY <2>a, <3>1, <3>2, PressedKeyLayerKeeps
    <3> QED BY <2>a, <2>b, <3>1, <3>3
  <2>4. ASSUME NEW t \in Touches, NEW place \in Keys \cup {Nowhere}, TouchMovedOnto(t, place)
        PROVE  KeyboardInv'
    <3>1. /\ moving' = NoMove /\ UNCHANGED <<openTouches, downTouches>>
          /\ t \in downTouches /\ PressAt(place, t)
      BY <2>4 DEF TouchMovedOnto, touchVars
    <3>2. \A j \in Keys : layers[j].touch = t => j = place
      BY <2>4 DEF TouchMovedOnto, KeyPressedByTouch
    <3>3. CASE place = Nowhere
      BY <2>a, <2>c, <2>d, <3>1, <3>3 DEF PressAt
    <3>4. CASE place \in Keys /\ place # Nowhere
      <4>1. PressedKeyLayer(place, t)
        BY <3>1, <3>4 DEF PressAt
      <4>2. LayersTyped' /\ SoundInv' /\ TouchInv'
        BY <2>a, <3>1, <3>2, <3>4, <4>1, PressedKeyLayerKeeps
      <4> QED BY <2>a, <2>b, <3>1, <4>2
    <3> QED BY <3>3, <3>4
  <2>5. ASSUME NEW t \in Touches, TouchEnded(t) PROVE KeyboardInv'
    <3>1. /\ moving' = NoMove /\ t \in openTouches
          /\ openTouches' = openTouches \ {t} /\ downTouches' = downTouches \ {t}
      BY <2>5, <2>a DEF TouchEnded
    <3>2. CASE KeyPressedByTouch(t) = {}
      <4>1. UNCHANGED <<soundVars, keyVars>>
        BY <2>5, <3>2 DEF TouchEnded
      <4>2. \A j \in Keys : layers[j].touch # t
        BY <3>2 DEF KeyPressedByTouch
      <4>3. LayersTyped' /\ TouchInv'
        BY <2>a, <3>1, <4>1, <4>2 DEF LayersTyped, TouchInv, keyVars
      <4> QED BY <2>a, <2>b, <2>d, <3>1, <4>1, <4>3
    <3>3. CASE KeyPressedByTouch(t) # {}
      <4>1. PICK k \in Keys : layers[k].touch = t /\ ReleasedKeyLayer(k)
        BY <2>5, <3>3 DEF TouchEnded, KeyPressedByTouch
      <4>2. LayersTyped' /\ SoundInv' /\ TouchInv'
        BY <2>a, <3>1, <4>1, ReleasedKeyLayerKeeps
      <4> QED BY <2>a, <2>b, <3>1, <4>2
    <3> QED BY <3>2, <3>3
  <2>6. ASSUME NEW t \in Touches, TouchCancelled(t) PROVE KeyboardInv'
    BY <2>6, <2>a, <2>c, <2>d DEF TouchCancelled
  <2>7. ASSUME NEW c \in Channels, TurnOffLater(c) PROVE KeyboardInv'
    BY <2>7, <2>a, <2>c, DelayedTurnOffKeeps DEF TurnOffLater, touchVars
  <2>8. ASSUME NEW c \in Channels, Rendering(c) PROVE KeyboardInv'
    BY <2>8, <2>a, <2>c, RenderKeeps DEF Rendering, touchVars
  <2>9. CASE UNCHANGED vars
    BY <2>9, <2>a, <2>c, <2>d DEF vars, touchVars
  <2> QED
    BY <2>1, <2>2, <2>3, <2>4, <2>5, <2>6, <2>7, <2>8, <2>9 DEF Next
<1> QED BY <1>1, <1>2, PTL DEF Spec

-----------------------------------------------------------------------------
(* The notes that sound.                                                   *)

\* A callback that may still end a note is on a channel whose note was released, or
\* on one that was taken back under it.
SilenceInv ==
  /\ NoteSounds
  /\ rendering # NoCallback /\ rendering.left > 0 /\ rendering.channel \notin overtaken =>
       sineDatas[rendering.channel].amp = 0 /\ rendering.channel \in activeInputs

noteVars == <<soundVars, pressedKeys, channelFreqLookup>>

\* What a step of a touch, of a message or of a callback does to the notes.
LEMMA NoteSteps ==
  ASSUME TypeOK, [Next]_vars
  PROVE  \/ \E k \in Keys : PressedKey(k) \/ ReleasedKey(k)
         \/ \E c \in Channels : (DelayedTurnOff(c) \/ Render(c)) /\ UNCHANGED keyVars
         \/ UNCHANGED noteVars
<1>1. ASSUME NEW k \in Keys, NEW t, PressedKeyLayer(k, t)
      PROVE  PressedKey(k) \/ UNCHANGED noteVars
  BY <1>1 DEF PressedKeyLayer, noteVars, keyVars
<1>2. ASSUME NEW k \in Keys, ReleasedKeyLayer(k)
      PROVE  ReleasedKey(k) \/ UNCHANGED noteVars
  BY <1>2 DEF ReleasedKeyLayer, noteVars, keyVars
<1>3. ASSUME NEW place \in Keys \cup {Nowhere}, NEW t, PressAt(place, t)
      PROVE  (\E k \in Keys : PressedKey(k)) \/ UNCHANGED noteVars
  BY <1>1, <1>3 DEF PressAt, noteVars, keyVars
<1>4. ASSUME NEW t \in Touches, NEW place \in Keys \cup {Nowhere},
             TouchBegan(t, place) \/ TouchMovedOnto(t, place)
      PROVE  (\E k \in Keys : PressedKey(k)) \/ UNCHANGED noteVars
  BY <1>3, <1>4 DEF TouchBegan, TouchMovedOnto
<1>5. ASSUME NEW t \in Touches, NEW place \in Keys \cup {Nowhere}, TouchMovedOff(t, place)
      PROVE  (\E k \in Keys : ReleasedKey(k)) \/ UNCHANGED noteVars
  BY <1>2, <1>5 DEF TouchMovedOff, KeyPressedByTouch
<1>6. ASSUME NEW t \in Touches, TouchEnded(t)
      PROVE  (\E k \in Keys : ReleasedKey(k)) \/ UNCHANGED noteVars
  BY <1>2, <1>6 DEF TouchEnded, KeyPressedByTouch, noteVars, keyVars
<1>7. ASSUME NEW t \in Touches, TouchCancelled(t) PROVE UNCHANGED noteVars
  BY <1>7 DEF TouchCancelled, noteVars, keyVars
<1>8. ASSUME TypeOK, TouchMovedOn
      PROVE  (\E k \in Keys : PressedKey(k)) \/ UNCHANGED noteVars
  BY <1>1, <1>8 DEF TouchMovedOn, TypeOK
<1>9. ASSUME NEW c \in Channels, TurnOffLater(c) \/ Rendering(c)
      PROVE  (DelayedTurnOff(c) \/ Render(c)) /\ UNCHANGED keyVars
  BY <1>9 DEF TurnOffLater, Rendering
<1>10. CASE UNCHANGED vars
  BY <1>10 DEF vars, noteVars, keyVars
<1> QED
  BY <1>4, <1>5, <1>6, <1>7, <1>8, <1>9, <1>10 DEF Next

\* Only a callback that has been overtaken can end the note of a pressed key.
LEMMA SilenceStep ==
  ASSUME SoundInv, SilenceInv, TypeOK, [Next]_vars
  PROVE  SilenceInv'
<1> USE DEF SilenceInv, NoteSounds
<1>1. ASSUME NEW k \in Keys, PressedKey(k) PROVE SilenceInv'
  <2>1. CASE KeyFails(k)
    BY <1>1, <2>1 DEF PressedKey, soundVars
  <2>2. CASE ~KeyFails(k)
    <3>1. PICK c \in Channels \ activeInputs :
            /\ sineDatas' = [sineDatas EXCEPT ![c] =
                 [status |-> "NOTE_ATTACK", freq |-> k, amp |-> 1, ampz |-> 0, sustain |-> 0]]
            /\ channelFreqLookup' = [channelFreqLookup EXCEPT ![k] = c]
            /\ activeInputs' = activeInputs \cup {c}
            /\ pressedKeys' = pressedKeys \cup {k}
            /\ UNCHANGED <<rendering, overtaken>>
      BY <1>1, <2>2, NextFreeChannelIsFree
      DEF PressedKey, PlaySine, TurnOnSine, EnableInput, KeyFails
    <3>2. \A j \in pressedKeys : channelFreqLookup[j] \in activeInputs
      BY DEF SoundInv, OwnChannel
    <3>3. sineDatas'[c].status = "NOTE_ATTACK"
          /\ \A d \in activeInputs : sineDatas'[d] = sineDatas[d]
      BY <3>1 DEF SoundInv, SoundTypeOK
    <3>4. \A j \in Keys : channelFreqLookup'[j] = IF j = k THEN c ELSE channelFreqLookup[j]
      BY <3>1 DEF SoundInv, SoundTypeOK
    <3>5. NoteSounds'
      BY <3>1, <3>2, <3>3, <3>4 DEF SoundInv, SoundTypeOK
    <3> QED BY <3>1, <3>3, <3>5
  <2> QED BY <2>1, <2>2
<1>2. ASSUME NEW k \in Keys, ReleasedKey(k) PROVE SilenceInv'
  <2>1. CASE k \notin pressedKeys
    BY <1>2, <2>1 DEF ReleasedKey, soundVars
  <2>2. CASE k \in pressedKeys
    <3>1. PICK c : /\ c = channelFreqLookup[k]
                   /\ sineDatas' = [sineDatas EXCEPT ![c].amp = 0, ![c].status = "NOTE_RELEASE"]
                   /\ pressedKeys' = pressedKeys \ {k}
                   /\ UNCHANGED <<activeInputs, rendering, overtaken, channelFreqLookup>>
      BY <1>2, <2>2 DEF ReleasedKey, TurnOffSine
    <3>2. c \in Channels /\ \A j \in pressedKeys \ {k} : channelFreqLookup[j] \in Channels \ {c}
      BY <2>2, <3>1 DEF SoundInv, SoundTypeOK, OwnChannel
    <3>3. sineDatas'[c].amp = 0 /\ \A d \in Channels \ {c} : sineDatas'[d] = sineDatas[d]
      BY <3>1, <3>2 DEF SoundInv, SoundTypeOK, Sine
    <3>4. activeInputs \subseteq Channels
      BY DEF SoundInv, SoundTypeOK
    <3> QED BY <3>1, <3>2, <3>3, <3>4
  <2> QED BY <2>1, <2>2
<1>3. ASSUME NEW c \in Channels, DelayedTurnOff(c), UNCHANGED keyVars PROVE SilenceInv'
  <2>1. CASE TryAgain(c)
    BY <1>3, <2>1 DEF TryAgain, soundVars, keyVars
  <2>2. CASE TakeBack(c)
    <3>1. sineDatas[c].amp = 0
      BY <1>3 DEF DelayedTurnOff, SoundInv, SoundTypeOK, TurnOffIsOwn
    <3>2. \A k \in pressedKeys : channelFreqLookup[k] \in Channels \ {c}
      BY <3>1 DEF SoundInv, SoundTypeOK, OwnChannel
    <3>3. \A d \in Channels \ {c} : /\ sineDatas'[d] = sineDatas[d]
                                    /\ d \in overtaken' <=> d \in overtaken
                                    /\ d \in activeInputs' <=> d \in activeInputs
      BY <2>2 DEF TakeBack, DisableInput, SoundInv, SoundTypeOK
    <3>4. /\ rendering' = rendering /\ UNCHANGED <<pressedKeys, channelFreqLookup>>
          /\ rendering.channel = c => c \in overtaken'
      BY <1>3, <2>2 DEF TakeBack, keyVars
    <3>5. activeInputs \subseteq Channels
      BY DEF SoundInv, SoundTypeOK
    <3>6. rendering # NoCallback => rendering.channel \in Channels
      BY DEF SoundInv, SoundTypeOK, RenderCallback
    <3> QED BY <3>2, <3>3, <3>4, <3>5, <3>6
  <2> QED BY <1>3, <2>1, <2>2 DEF DelayedTurnOff
<1>4. ASSUME NEW c \in Channels, Render(c), UNCHANGED keyVars PROVE SilenceInv'
  <2>1. CASE RenderBegins(c)
    <3>1. /\ c \in activeInputs /\ rendering'.channel = c
          /\ rendering'.left > 0 => sineDatas[c].status = "NOTE_RELEASE"
          /\ UNCHANGED <<sineDatas, activeInputs, overtaken>>
      BY <2>1 DEF RenderBegins
    <3>2. sineDatas[c].status = "NOTE_RELEASE" => c \in overtaken \/ sineDatas[c].amp = 0
      <4>1. sineDatas[c].amp \in {0, 1}
        BY DEF SoundInv, SoundTypeOK, Sine
      <4>2. sineDatas[c].amp = 1 => \E k \in pressedKeys : channelFreqLookup[k] = c
        BY DEF SoundInv, OwnChannel
      <4> QED BY <4>1, <4>2
    <3> QED BY <1>4, <3>1, <3>2 DEF keyVars
  <2>2. CASE rendering.channel = c /\ RenderFrame
    <3>0. rendering \in RenderCallback /\ rendering.left > 0 /\ rendering # NoCallback
      BY <2>2 DEF RenderFrame, SoundInv, SoundTypeOK
    <3>1. CASE FrameOfRelease
      <4>1. rendering'.channel = c
        BY <3>0, <2>2, <3>1 DEF FrameOfRelease, RenderCallback
      <4> QED BY <1>4, <2>2, <3>0, <3>1, <4>1 DEF RenderFrame, FrameOfRelease, keyVars
    <3>2. CASE EndNote
      <4>1. /\ rendering'.channel = c
            /\ sineDatas' = [sineDatas EXCEPT ![c].status = "NOTE_ENDED"]
            /\ UNCHANGED <<activeInputs, overtaken, pressedKeys, channelFreqLookup>>
        BY <1>4, <2>2, <3>0, <3>2 DEF EndNote, RenderFrame, RenderCallback, keyVars
      <4>2. /\ sineDatas'[c].amp = sineDatas[c].amp
            /\ \A d \in Channels \ {c} : sineDatas'[d] = sineDatas[d]
        BY <4>1 DEF SoundInv, SoundTypeOK, Sine
      <4>3. c \in overtaken \/ (sineDatas[c].amp = 0 /\ c \in activeInputs)
        BY <2>2, <3>0
      <4>4. \A k \in pressedKeys : channelFreqLookup[k] \in Channels /\
              (sineDatas[c].amp = 0 => channelFreqLookup[k] # c)
        BY DEF SoundInv, SoundTypeOK, OwnChannel
      <4>5. NoteSounds'
        BY <4>1, <4>2, <4>3, <4>4
      <4> QED BY <4>1, <4>2, <4>3, <4>5
    <3> QED BY <2>2, <3>1, <3>2 DEF RenderFrame
  <2>3. CASE rendering.channel = c /\ RenderEnds
    <3>1. rendering' = NoCallback /\ UNCHANGED <<overtaken, pressedKeys, channelFreqLookup>>
      BY <1>4, <2>3 DEF RenderEnds, keyVars
    <3>2. \A d \in Channels : sineDatas'[d].status = sineDatas[d].status
      BY <2>3 DEF RenderEnds, SoundInv, SoundTypeOK, Sine
    <3>3. \A k \in pressedKeys : channelFreqLookup[k] \in Channels
      BY DEF SoundInv, SoundTypeOK, OwnChannel
    <3> QED BY <3>1, <3>2, <3>3
  <2> QED BY <1>4, <2>1, <2>2, <2>3 DEF Render
<1>5. CASE UNCHANGED noteVars
  BY <1>5 DEF noteVars, soundVars
<1> QED BY <1>1, <1>2, <1>3, <1>4, <1>5, NoteSteps

-----------------------------------------------------------------------------
(* Theorems.                                                               *)

\* Whatever touches cross on however few channels, each pressed key has a channel
\* of its own that plays its note, and the channel handed to a new note has the
\* amplitude zero that turnOnSine:freq:amp: asserts.
THEOREM ChannelsAreOwn == Spec => []OwnChannel
<1>1. KeyboardInv => OwnChannel
  BY DEF KeyboardInv, SoundInv
<1> QED BY <1>1, KeyboardInvHolds, PTL

\* Each released note has one _delayedTurnOff: on its way, which will find it ended
\* once it is rendered to its end, and no other channel has any.
THEOREM ReleasedNotesEnd == Spec => []TurnOffIsOwn
<1>1. KeyboardInv => TurnOffIsOwn
  BY DEF KeyboardInv, SoundInv
<1> QED BY <1>1, KeyboardInvHolds, PTL

\* Keys are down under open touches only, one each, and the keyboard agrees with
\* its layers (touchBegan:, touchMoved:, touchEnded:, pressedKey:, releasedKey:).
THEOREM KeysUnderTouches == Spec => []KeyUnderTouch
<1>1. ASSUME KeyboardInv PROVE KeyUnderTouch
  <2>1. ASSUME NEW t \in Touches PROVE Cardinality(KeyPressedByTouch(t)) <= 1
    <3>1. t # NoTouch
      BY KeyboardAssumption
    <3>2. CASE KeyPressedByTouch(t) = {}
      BY <3>2, FS_EmptySet
    <3>3. CASE KeyPressedByTouch(t) # {}
      <4>1. PICK k : k \in KeyPressedByTouch(t)
        BY <3>3
      <4>2. KeyPressedByTouch(t) = {k}
        BY <1>1, <3>1, <4>1 DEF KeyPressedByTouch, KeyboardInv, TouchInv
      <4> QED BY <4>2, FS_Singleton
    <3> QED BY <3>2, <3>3
  <2> QED BY <1>1, <2>1 DEF KeyUnderTouch, KeyboardInv, TouchInv
<1> QED BY <1>1, KeyboardInvHolds, PTL

\* The note of a pressed key sounds until it is released: no callback can end it but one
\* that was running when its channel was taken from another note (renderInput and
\* _delayedTurnOff:).
THEOREM PressedNotesSound == Spec => []NoteSounds
<1>1. Init => SilenceInv
  BY DEF Init, SoundInit, SilenceInv, NoteSounds
<1>2. KeyboardInv /\ SilenceInv /\ [Next]_vars => SilenceInv'
  BY SilenceStep DEF KeyboardInv
<1>3. SilenceInv => NoteSounds
  BY DEF SilenceInv
<1> QED BY <1>1, <1>2, <1>3, KeyboardInvHolds, PTL DEF Spec
=============================================================================
