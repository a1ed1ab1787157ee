CONSTANTS
  Rowid = {r1, r2}
  Vector = {v1, v2}
  None = None
  MaxGeneration = 3
  MinDeltaBase = 8
  MinCompactionDelta = 5
  OperationFloor = 3
  ImageOverhead = 0
  ImageRowBytes = 4
  DeltaFrame = 1
  OpBytes = 1
  VectorBytes = 1
  Mark = {0, 1}
  Connections = {c1}
  Journal = "wal"
  EarlyMarks = 2
  PartialAfterBusy = FALSE
  MaxMarks = 2
  MaxChanges = 1
  InitialLayouts = {"current"}
  InitialCounts = {0, 2}
SYMMETRY RowSymmetry
SPECIFICATION Spec
INVARIANTS
  CommittedIntegrity
