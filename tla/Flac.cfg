SPECIFICATION Spec
CONSTANTS
  BlockSize = 2
  FrameSizes = {1, 2}
  NoMinimum = 9
  Faults = {"memory", "output"}
  ReadSize = 3
  ChunkSize = 5
  PcmMax = 15
  Loudest = 7
  Before = 1
  MaxSamples = 7
INVARIANTS
 SamplesInOrder StreamInfoTrue HeaderNeverLies
PROPERTIES OnlyInfoIsRewritten ChunkReturns
CHECK_DEADLOCK FALSE
