SPECIFICATION Spec
CONSTANTS
  WordBits = 4
  ByteBits = 2
  WriterCapacity = 1
  WriterIncrement = 2
  Memory = {1, 3, 9}
  MaxWritten = 8
  ReaderCapacity = 2
  RawSizes = {4}
  RiceParameters = {0, 2}
  SkipSizes = {7}
  BlockLength = 2
INVARIANTS
  TypeOK WrittenIntact InBuffer CrcCovers
  FailsOnlyAtEnd ReadBack
PROPERTY CallsReturn
