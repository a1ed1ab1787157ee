CONSTANTS
  Rowid = {r1, r2}
  Vector = {v1, v2}
  None = None
  MaxGeneration = 3
  MinDeltaBase = 8
  MinCompactionDelta = 5
  OperationFloor = 3
  ImageOverhead = 0
  ImageRowBytes = 4
  DeltaFrame = 1
  OpBytes = 1
  VectorBytes = 1
  Mark = {0}
  Connections = {c1, c2}
  Journal = "delete"
  EarlyMarks = 1
  PartialAfterBusy = TRUE
  MaxMarks = 1
  MaxChanges = 2
  InitialLayouts = {"current"}
  InitialCounts = {0}
SYMMETRY RowSymmetry
SPECIFICATION Spec
INVARIANTS
  CommitNeverRefused
