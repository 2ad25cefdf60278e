SPECIFICATION Spec
CONSTANTS
  Dispatchers = {d1, d2}
  Analysts = {}
  Claims = {1, 2, 3}
  None = None
  Interval = 2
  PauseSteps = {1}
  Horizon = 1
  Threshold = 1
  Limit = 2
  Backend = "sqlite"
  Budgets <- NoEvent
INVARIANT NoDuplicates
CHECK_DEADLOCK FALSE
