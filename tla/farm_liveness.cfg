SPECIFICATION CalmSpec
CONSTANTS
  a1 = a1  a2 = a2  a3 = a3  v1 = v1  e1 = e1
  NoWorker = NoWorker
  Workers <- AgentPair
  RoleOf <- AgentPairRole
  Mortal = {a1}
  MaxTasks = 2
  MaxRetries = 0
  AncestorDepth = 1
  MaxSubmits = 1
  MaxMasterCrash = 1
  KeepRecent = 1
  HistoryLimit = 1
  PlannerRoles = {"agent"}
  MaxRecover = 1
  MaxPerPlan = 1
  MaxLive = 1
  LegacyOrphan = FALSE
PROPERTIES DeadRowsRecovered ClaimableIsClaimed EventuallyPlanned
