SPECIFICATION FairSpec
CONSTANTS
  NumBufs = 2
  BufSize = 2
  MaxDescs = 2
  SizeMod = 64
  PacketSizes <- FewPackets
  MaxBatch = 2
  ApiErrors = TRUE
  NetErrors = TRUE
INVARIANTS
  AwaitedComesBack
  AtMostOneLateBuffer
PROPERTIES
  EnqueueReturns
  StopEndsWorker
  EndIsReported
