SPECIFICATION FairSpec
CONSTANTS
  j1 = j1  j2 = j2  j3 = j3  a1 = a1  tenant1 = tenant1  tenant2 = tenant2
  Jobs = {j1, j2}
  Workers = {w1, w2}
  Analysts = {}
  Beats = {s1}
  Tasks = {1, 2}
  NoJob = NoJob  NoTask = NoTask  NoMessage = NoMessage  NoAsset = NoAsset
  AssetOf <- OneAsset
  TenantOf <- OneTenant
  MaxPerAsset = 1  MaxPerTenant = 5  MaxGlobal = 25
  MaxRetries = 1
  MaxAttempts = 2
  Backend = "postgres"
  Budgets <- NoFault
PROPERTY EveryJobFinishes
CHECK_DEADLOCK FALSE
