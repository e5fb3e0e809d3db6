SPECIFICATION FairSpec
CONSTANTS
  Null = Null
  Items = {i1, i2}
  Users = {u1, u2}
  Workers = {w1, w2}
  Answers = {"ok", "refused", "unheard"}
  MaxCrashes = 1
  MaxFailures = 2
  MaxToggles = 1
  Deletable = {u2}
CHECK_DEADLOCK FALSE
INVARIANTS AtMostOnce NothingDropped
PROPERTIES DigestArrives
