SPECIFICATION Spec
CONSTANTS
  BlockSize = 4
  SizeMod = 4096
  FFTSize = 4
  HopSize = 2
  mIOBufSize = 8
  SampleRate = 43
  FrameBytes = 2
  CaptureBytes = 4
  MaxBufferSize = 64
  MinBufferSize = 16
  MaxFileFrames = 12
  ApiErrors = FALSE
INVARIANTS
  CountAsAsserted
