CONSTANTS
  Rowid = {r1, r2}
  Vector = {v1, v2}
  None = None
  MaxGeneration = 3
  MinDeltaBase = 8
  MinCompactionDelta = 5
  OperationFloor = 3
  ImageOverhead = 0
  ImageRowBytes = 4
  DeltaFrame = 1
  OpBytes = 1
  VectorBytes = 1
  Mark = {}
  Connections = {c1, c2}
  Journal = "wal"
  EarlyMarks = 1
  PartialAfterBusy = FALSE
  MaxMarks = 0
  MaxChanges = 1
  InitialLayouts = {"current"}
  InitialCounts = {2}
SYMMETRY RowSymmetry
SPECIFICATION Spec
INVARIANTS
  WarmCopySurvivesDeltas
