SPECIFICATION FairSpec
CONSTANTS
  MaxDocs = 3
  QueueDepth = 1
  BatchSize = 2
  Concurrency = 1
  Watchers = {v1}
  PageLimit = 2
  MaxDrops = 1
INVARIANTS Accounted MemoryFlat StreamInOrder
PROPERTIES Drains Delivered
CHECK_DEADLOCK FALSE
