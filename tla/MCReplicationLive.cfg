SPECIFICATION FairSpec
CONSTANTS
  f1 = f1  f2 = f2
  Followers = {f1}
  Rank <- RankOf
  Ids = {x}
  Vals = {a, b}
  Absent = Absent
  Nobody = Nobody
  Limit = 2
  MaxWrites = 3
  MaxRestarts = 1
  FromZero = TRUE
PROPERTIES CatchesUp WaitsEnd
CHECK_DEADLOCK FALSE
