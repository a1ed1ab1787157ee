CONSTANTS
  Rowid = {r1, r2}
  Vector = {v1, v2}
  None = None
  MaxGeneration = 4
  MinDeltaBase = 8
  MinCompactionDelta = 12
  OperationFloor = 3
  ImageOverhead = 0
  ImageRowBytes = 4
  DeltaFrame = 1
  OpBytes = 1
  VectorBytes = 3
  Mark = {}
  Connections = {c1, c2}
  Journal = "wal"
  EarlyMarks = 0
  PartialAfterBusy = FALSE
  MaxMarks = 0
  MaxChanges = 1
  InitialLayouts = {"current", "legacy"}
  InitialCounts = {2}
SYMMETRY AllSymmetry
SPECIFICATION RecordedSpec
INVARIANTS
  IntegrityCheckPasses
  GenerationIdentifiesCopy
  PathsAgree
  CommitNeverRefused
PROPERTIES
  GenerationAdvances
  DeltasStayInBudget
  ImplementsSqlTable
