CONSTANTS
  Byte = {0, 1, 2, 3, 4, 5}
  Images <- MCImages
  ChunkSize = 2
  LastChunk = 2
  CallSizes = {0, 1, 3}
  MaxGeneration = 3
  None = None
SPECIFICATION FairImageSpec
INVARIANTS
  TypeOK
  StoredImageWhole
  HandsOutImage
  TrustedCopyIsStored
PROPERTIES
  ReadEnds
