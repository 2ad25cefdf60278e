SPECIFICATION ServicesSpec
CONSTANTS
  Dispatchers = {d1, d2}
  Analysts = {u1}
  Claims = {1, 2}
  None = None
  Interval = 2
  PauseSteps = {1}
  Horizon = 3
  Threshold = 1
  Limit = 2
  Backend = "postgres"
  Budgets <- AtMostOne
  a = a
  b = b
  c = c
  web = web
  worker = worker
  Syncs = {a, b, c}
  Processes = {web, worker}
  Home <- Homes
  NoToken = NoToken
  Mishaps <- FewMishaps
  Rounds = {a, b}
  Whole = {a, b}
  Records = {1, 2, 3}
  MaxEnrichments = 2
  MaxTotal = 1
  NoSync = NoSync
  Beginnings <- FewBeginnings
  r1 = r1
  r2 = r2
  r3 = r3
  t1 = t1
  t2 = t2
  Scans = {1, 2}
  Requests = {r1, r2, r3}
  Tasks = {t1, t2}
  PoolSize = 1
  Plans <- FewPlans
  NoScan = NoScan
INVARIANTS TypeOK OneJobPerSlot NeverWedged OwnJob
INVARIANTS Exclusive ProcessLockKept FeedStored BackfillMisses
INVARIANTS NoScanForgotten Agreed NotResurrected
PROPERTIES RobbedAtHome FeedScoreKept
SYMMETRY Symmetry
CHECK_DEADLOCK FALSE
