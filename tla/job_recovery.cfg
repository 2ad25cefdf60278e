SPECIFICATION RecoverySpec
CONSTANTS
  w1 = w1  w2 = w2  s1 = s1  s2 = s2  u1 = u1
  j1 = j1  j2 = j2  j3 = j3  a1 = a1  tenant1 = tenant1  tenant2 = tenant2
  Jobs = {j1}
  Workers = {w1, w2}
  Analysts = {u1}
  Beats = {s1, s2}
  Tasks = {1, 2, 3, 4}
  NoJob = NoJob  NoTask = NoTask  NoMessage = NoMessage  NoAsset = NoAsset
  AssetOf <- OneAsset
  TenantOf <- OneTenant
  MaxPerAsset = 1  MaxPerTenant = 5  MaxGlobal = 25
  MaxRetries = 1
  MaxAttempts = 2
  Backend = "postgres"
  Budgets <- FaultsOrRetry
INVARIANT AttemptsBounded
PROPERTIES AbandonedRecovered FinishesUnlessSweepLost
CHECK_DEADLOCK FALSE
