SPECIFICATION RoutesSpec
CONSTANTS
  j1 = j1  j2 = j2  j3 = j3  a1 = a1  tenant1 = tenant1  tenant2 = tenant2
  Jobs = {j1}
  Workers = {w1, w2}
  Analysts = {u1}
  Beats = {s1}
  Tasks = {1, 2}
  NoJob = NoJob  NoTask = NoTask  NoMessage = NoMessage  NoAsset = NoAsset
  AssetOf <- OneAsset
  TenantOf <- OneTenant
  MaxPerAsset = 1  MaxPerTenant = 5  MaxGlobal = 25
  MaxRetries = 0
  MaxAttempts = 1
  Backend = "postgres"
  Budgets <- WithNoFault
  web = web  other = other
  Asks = {1, 2, 3}
  Servers = {web, other}
  Window = 2
  LastTick = 3
  Scenes <- FewScenes
  NoAsk = NoAsk
INVARIANTS TypeOK UniqueClaim ScanMatchesJob NeverForsaken WindowKept
PROPERTIES TerminalOnlyLostToRace JobKeepsContract
SYMMETRY Symmetry
CHECK_DEADLOCK FALSE
