SPECIFICATION Spec
CONSTANTS
  FFTSize = 4
  HopSize = 2
  MaxFrames = 4
  mIOBufSize = 8
  MaxSamples = 19
INVARIANTS
  WindowsOverlap
  EverySampleSeen
  OverlapAdded
CHECK_DEADLOCK FALSE
