SPECIFICATION Spec
CONSTANTS
  Ids = {1, 2}
  Vals = {a, b}
  Absent = Absent
  None = None
  CompactAttempts = 2
  WriteAtTag = TRUE
  WriteAtSwap = FALSE
  SkewedCrash = FALSE
  MaxCommits = 2
  MaxPersists = 1
  MaxCompactions = 0
  MaxRestarts = 1
SYMMETRY ValSymmetry
CHECK_DEADLOCK FALSE
INVARIANTS CacheNeverWrong
