SPECIFICATION Spec
CONSTANTS
  MaxInputs = 2
  MaxAmp = 1
  MinimumSustain = 0
  Frames = 2
  StopsWhenSilent = TRUE
  NoFreq = NoFreq
  Keys = {k1, k2}
  Touches = {t1, t2}
  NoTouch = NoTouch
  Nowhere = Nowhere
  MaxCancelled = 1
INVARIANTS
  OwnChannel
  TurnOffIsOwn
  NoteSounds
  KeyUnderTouch
