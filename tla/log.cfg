CONSTANTS
  Rowid = {1, 2}
  Vector <- MCVectors
  None = None
  MaxGeneration = 2
  MinDeltaBase = 8
  MinCompactionDelta = 5
  OperationFloor = 3
  ImageOverhead = 0
  ImageRowBytes = 4
  DeltaFrame = 4
  OpBytes = 2
  VectorBytes = 2
  MaxLog = 4
  Dimensions = 2
  Cell = {0, 1, 2, 3}
  Formats = {"v7", "v8", "v6"}
  Shapes <- MCShapes
SPECIFICATION LogSpec
INVARIANTS
  ReplayIsTheLoop
  UndoIsTheLoop
  NetRowsCounts
  ReplayComposes
  UndoReturns
  CodecRoundTrip
  BlobMirrorsTable
CHECK_DEADLOCK FALSE
