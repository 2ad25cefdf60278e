SPECIFICATION Spec
CONSTANTS
  Callers = {c1, c2, c3}
  FailureThreshold = 2
  HalfOpenSuccessThreshold = 2
  Exports = 0
  Monitors = {m1}
  Processors = {p1}
  Reapers = {r1}
  Events = {e1}
  Prefixes <- BothPrefixes
  MaxAttempts = 3
  AttemptCap = 4
  Backends = {"postgres"}
  Budgets <- JustAnnounced
PROPERTY EventResolved
CHECK_DEADLOCK FALSE
