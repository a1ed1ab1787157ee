CONSTANTS
  Rowid = {r1, r2}
  Vector = {v1}
  None = None
  MaxGeneration = 4
  MinDeltaBase = 8
  MinCompactionDelta = 12
  OperationFloor = 5
  ImageOverhead = 0
  ImageRowBytes = 4
  DeltaFrame = 1
  OpBytes = 1
  VectorBytes = 0
  Mark = {0}
  Connections = {c1, c2}
  Journal = "delete"
  EarlyMarks = 1
  PartialAfterBusy = TRUE
  MaxMarks = 1
  MaxChanges = 1
  InitialLayouts = {"current"}
  InitialCounts = {2}
SPECIFICATION Spec
INVARIANTS
  ChainUnbroken
