SPECIFICATION Spec
CONSTANTS
  risk = risk  safe = safe  plain = plain  audit = audit  receipt = receipt  outcome = outcome
  Atoms = {risk, safe, plain, audit, receipt, outcome}
  Findings = {risk, safe, plain}
  Audit = audit  Receipt = receipt  Outcome = outcome
  Reporters <- AllReporters
  Results <- Reports
  Opposite <- Contradicting
  Round = r1  None = None
  MaxTasks = 3
  MaxRoots = 2
  MaxObservations = 2
  KeepDepth = 1
  MaxEvents = 2
INVARIANTS CorroborationIsReal ConflictKnown DroppedIsDurable HonestCaseExports PublishedIsWhole
CHECK_DEADLOCK FALSE
