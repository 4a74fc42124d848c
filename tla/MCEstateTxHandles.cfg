SPECIFICATION Spec
CONSTANTS
  w1 = w1  w2 = w2  h1 = h1  h2 = h2
  c = c  g = g  b = b  t = t  u = u
  Ids = {x, y}
  Colls = {c}
  Nums = {g}
  Texts = {b}
  Terms = {t, u}
  None = None
  Absent = Absent
  Docs <- MixedDocs
  Writers = {w1, w2}
  HandleOf <- OwnHandles
  MaxDocs = 2
  MaxOps = 1
  MaxTx = 2
  MaxAdmin = 0
  RepeatIds = FALSE
  DropRaces = FALSE
  BuildRaces = FALSE
SYMMETRY IdSymmetry
CHECK_DEADLOCK FALSE
INVARIANT CountersExact
