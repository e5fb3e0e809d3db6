SPECIFICATION FairSpec
CONSTANTS
  Null = Null
  Ids = {1, 2, 3}
  Stocks = {{1, 2}, {1, 3}}
  Workers = {w1, w2}
  BatchSize = 2
  MaxWrites = 1
  MaxChanges = 1
  MaxRotations = 1
  MaxCrashes = 1
  Deletable = {2}
CHECK_DEADLOCK FALSE
INVARIANTS Reach
PROPERTIES JobsEnd
