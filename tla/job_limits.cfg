SPECIFICATION SerialSpec
CONSTANTS
  j1 = j1  j2 = j2  j3 = j3  a1 = a1  tenant1 = tenant1  tenant2 = tenant2
  Jobs = {j1, j2, j3, j4}
  Workers = {w1, w2}
  Analysts = {}
  Beats = {s1}
  Tasks = {1, 2}
  NoJob = NoJob  NoTask = NoTask  NoMessage = NoMessage  NoAsset = NoAsset
  AssetOf <- SharedAsset
  TenantOf <- TwoTenants
  MaxPerAsset = 1  MaxPerTenant = 1  MaxGlobal = 1
  MaxRetries = 0
  MaxAttempts = 2
  Backend = "postgres"
  Budgets <- OneLoss
INVARIANT ConcurrencyLimits
SYMMETRY Symmetry
CHECK_DEADLOCK FALSE
