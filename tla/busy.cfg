CONSTANTS
  Rowid = {r1, r2}
  Vector = {v1, v2}
  None = None
  MaxGeneration = 3
  MinDeltaBase = 8
  MinCompactionDelta = 5
  OperationFloor = 3
  ImageOverhead = 0
  ImageRowBytes = 4
  DeltaFrame = 1
  OpBytes = 1
  VectorBytes = 1
  Mark = {}
  Connections = {c1, c2}
  Journal = "delete"
  EarlyMarks = 0
  PartialAfterBusy = FALSE
  MaxMarks = 0
  MaxChanges = 2
  InitialLayouts = {"current"}
  InitialCounts = {2}
SYMMETRY AllSymmetry
SPECIFICATION RecordedSpec
INVARIANTS
  GenerationIdentifiesCopy
  CommitNeverRefused
PROPERTIES
  ImplementsSqlTable
