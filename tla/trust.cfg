SPECIFICATION HandoffSpec
CONSTANTS
  MinTrusted = 1  MaxFailed = 0
  root = root  other = other  k1 = k1  k2 = k2
  TrustedIssuers = {root}
  Callers = {c1, c2}
  Intents <- SomeIntents
  EvidenceSets <- SomeEvidence
  Proofs <- SomeProofs
  Attestations <- SomeAttestations
  Registries <- SomeRegistries
  Ages = {0, 1, 2}
  Remit <- SomeRemit
  Versions = {"capability-policy-v1", "capability-policy-v2"}
  Absent = Absent  Empty = Empty
  b1 = b1  b2 = b2
  Builds = {b1, b2}
  Executors <- Deletes
  MaxCalls = 4
  MaxKills = 1
INVARIANTS HandoffsHold DeadStaysDead AcceptedIsPermitted ElevatedIsEarned
SYMMETRY Same
CHECK_DEADLOCK FALSE
