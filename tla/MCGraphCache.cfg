SPECIFICATION Spec
CONSTANTS
  Ids = {1, 2}
  Vals = {a, b}
  Absent = Absent
  None = None
  CompactAttempts = 2
  WriteAtTag = FALSE
  WriteAtSwap = FALSE
  SkewedCrash = FALSE
  MaxCommits = 3
  MaxPersists = 2
  MaxCompactions = 1
  MaxRestarts = 2
SYMMETRY ValSymmetry
CHECK_DEADLOCK FALSE
INVARIANTS CacheNeverWrong RestartLoads
