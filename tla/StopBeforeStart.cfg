SPECIFICATION Spec
CONSTANTS
  NumBufs = 2
  BufSize = 2
  MaxDescs = 2
  SizeMod = 64
  PacketSizes <- FewPackets
  MaxBatch = 2
  ApiErrors = FALSE
  NetErrors = FALSE
INVARIANTS
  StopIsReported
