SPECIFICATION Spec
CONSTANTS
  Callers = {c1, c2, c3}
  FailureThreshold = 2
  HalfOpenSuccessThreshold = 2
  Exports = 7
  Monitors = {m1}
  Processors = {p1, p2}
  Reapers = {r1, r2}
  Events = {e1, e2}
  Prefixes <- BothPrefixes
  MaxAttempts = 2
  AttemptCap = 3
  Backends = {"sqlite", "postgres"}
  Budgets <- Scenarios
INVARIANTS OutboxTypeOK ClaimsPaidFor SingleDispatch DeliveredIsScanned TrippedByCount
PROPERTIES ResolvedOnSqlite BreakerRefines
CHECK_DEADLOCK FALSE
