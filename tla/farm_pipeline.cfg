SPECIFICATION SpecNoSteal
CONSTANTS
  a1 = a1  a2 = a2  a3 = a3  v1 = v1  e1 = e1
  NoWorker = NoWorker
  Workers <- OneEach
  RoleOf <- OneEachRole
  Mortal = {}
  MaxTasks = 5
  MaxRetries = 1
  AncestorDepth = 1
  MaxSubmits = 1
  MaxMasterCrash = 1
  KeepRecent = 1
  HistoryLimit = 2
  PlannerRoles = {"agent"}
  MaxRecover = 1
  MaxPerPlan = 1
  MaxLive = 2
  LegacyOrphan = TRUE
PROPERTIES ClaimableUntilClaimed
INVARIANTS NoNewOrphans
