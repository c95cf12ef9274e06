SPECIFICATION Spec
CONSTANTS
  Tool <- MCTool
  Histories <- MCHistories
  Requests = {r1, r2}
  MaxRows = 3
  NIterations = 3
  Window = 2
  MinFrequency = 1
  TriggerThreshold = 5000
  TopK = 1
  None = None
SYMMETRY RequestSymmetry
INVARIANTS
  ShowsWhatHappened
  LoneBuildSettles
CHECK_DEADLOCK FALSE
