SPECIFICATION FairSpec
CONSTANTS
  Dispatchers = {d1, d2}
  Analysts = {}
  Claims = {1, 2, 3}
  None = None
  Interval = 2
  PauseSteps = {1}
  Horizon = 2
  Threshold = 1
  Limit = 2
  Backend = "postgres"
  Budgets <- OneCrash
PROPERTY FailedRunUnblocks
CHECK_DEADLOCK FALSE
