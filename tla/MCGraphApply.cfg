SPECIFICATION Spec
CONSTANTS
  w1 = w1  w2 = w2  h1 = h1  h2 = h2
  Ids = {x, y}
  Vals = {a, b}
  Absent = Absent
  NoOp = NoOp
  Writers = {w1, w2}
  Droppers = {}
  HandleOf <- OneHandle
  Readers = {r1}
  PendingCap = 1
  ApplyBatch = 1
  MinCorpus = 1
  MaxOps = 2
  MaxTx = 3
SYMMETRY ValSymmetry
INVARIANTS TypeOK ReadYourWrites QuiescedIsExact NoStrandedOp
