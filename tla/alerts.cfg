SPECIFICATION SumSpec
CONSTANTS
  Null = Null
  Alerts = {x1, x2}
  Workers = {w1, w2}
  Editors = {f1}
  Periods = {1}
  MaxTime = 2
  MaxCrashes = 1
  Managed = {x2}
  Hooks = {1, 2}
  AlertEvent = e1
  PingEvent = e2
  Events = {e1, e2}
  KindOf <- OneOfEach
  MaxAttempts = 2
  MaxEdits = 1
CHECK_DEADLOCK FALSE
INVARIANTS NotifiedOnce DeliveriesHold
PROPERTIES DueIsNotified DispatchesEnd
