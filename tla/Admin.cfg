SPECIFICATION Spec
CONSTANTS
  Parts = {"reads", "access", "limiter", "slos"}
  DefaultListLimit = 3
  MaxListLimit = 4
  CheckListLimit = 2
  MaxRows = 5
  Tables <- MCTables
  Callers <- MCCallers
  Queries <- MCQueries
  Seeds <- MCSeeds
  Owners <- MCOwners
  Newcomers <- MCNewcomers
  Workers = {"w1", "w2"}
  Starters = {"s1", "s2"}
  configured <- configuredMC
  Backend = "local"
  Tenant = "default"
  Presets <- PresetsMC
  KnownActions <- KnownActionsMC
  Calls <- CallsMC
  MaxKeys = 3
  MaxPolicies = 3
  MaxFailures = 1
  MaxReruns = 1
  MaxCalls = 3
  Tenants = {t1}
  limits <- limitsMC
  Routes <- RoutesMC
  TicksPerSecond = 2
  ReapInterval = 3
  Horizon = 5
  Evaluators = {e1, e2}
  SLIInputs <- MCSLIInputs
  SLOInputs <- MCSLOInputs
  Scale = 10
  SecondLength = 2
  SnapshotWindow = 1
  MonthLength = 4
  SloStart = 1
  MaxSloTime = 2
  MaxEvents = 1
  MaxSloVersion = 2
  MaxSloFaults = 1
INVARIANTS
  
  GetAgreesWithList
  
  BoundedKeysStayBounded
  SecretMatchesStoredKey
  RateBounded
PROPERTIES
  BudgetSettles
  AlertsSettle
CHECK_DEADLOCK FALSE
