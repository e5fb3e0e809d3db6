SPECIFICATION Spec
CONSTANTS
  Null = Null
  Ids = {1, 2, 3}
  Stocks = {{1, 2, 3}, {1, 3}}
  Workers = {w1}
  BatchSize = 2
  MaxWrites = 0
  MaxChanges = 0
  MaxRotations = 1
  MaxCrashes = 0
  Deletable = {1}
CHECK_DEADLOCK FALSE
INVARIANTS RotationComplete
