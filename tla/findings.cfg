SPECIFICATION RowsSpec
CONSTANTS
  Requests = {q1, q2}
  Scans = {s1, s2}
  Checks = {c1}
  Expiries = {x1}
  Acceptances = {r1}
  Targets = {"VERIFIED", "REMEDIATED", "VERIFICATION_PENDING", "RISK_ACCEPTED"}
  Databases = {"sqlite", "postgres"}
  Allowances <- WithUntouched
  web = web
  u1 = u1
  Threads = {l1, l2}
  WebProcesses = {web}
  ProcessOf <- SameProcess
  Editors = {u1}
  Edits <- EveryEdit
  Period = 2
  LastHour = 3
  Restarts = {0, 1}
INVARIANTS FindingTypeOK HistoryTellsAll VerifiedByTheLatest OneRow
INVARIANTS OnePerInterval StaysOff
PROPERTIES DecidedOnWhatWasSeen AcceptanceEnds BreachNoticed
CHECK_DEADLOCK FALSE
