SPECIFICATION FairSpec
CONSTANTS
  w1 = w1  w2 = w2  h1 = h1  h2 = h2
  Ids = {x, y}
  Vals = {a}
  Absent = Absent
  NoOp = NoOp
  Writers = {w1, w2}
  Droppers = {w2}
  HandleOf <- OwnHandles
  Readers = {r1}
  PendingCap = 2
  ApplyBatch = 2
  MinCorpus = 1
  MaxOps = 2
  MaxTx = 2
PROPERTIES EventuallyDrained WritesReturn ImplementsView
