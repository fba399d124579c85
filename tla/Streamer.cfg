SPECIFICATION Spec
CONSTANTS
  NumBufs = 3
  BufSize = 2
  MaxDescs = 2
  SizeMod = 64
  PacketSizes <- MixedPackets
  MaxBatch = 3
  ApiErrors = FALSE
  NetErrors = TRUE
INVARIANTS
  TypeOK
  BufferOwnership
  CopyIntoIdleBuffer
  PacketFits
  HeardInOrder
  OnlyEarlyStopAborts
PROPERTY
  ListenerSpec
