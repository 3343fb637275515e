SPECIFICATION Spec
CONSTANTS
  a1 = a1  a2 = a2  a3 = a3  v1 = v1  e1 = e1
  NoWorker = NoWorker
  Workers <- AgentTrio
  RoleOf <- AgentTrioRole
  Mortal = {a1}
  MaxTasks = 2
  MaxRetries = 1
  AncestorDepth = 1
  MaxSubmits = 0
  MaxMasterCrash = 1
  KeepRecent = 1
  HistoryLimit = 2
  PlannerRoles = {"agent"}
  MaxRecover = 1
  MaxPerPlan = 1
  MaxLive = 3
  LegacyOrphan = FALSE
SYMMETRY Survivors
INVARIANTS TypeOK OwnerUnlessExposed
PROPERTIES CompletedIsFinal
