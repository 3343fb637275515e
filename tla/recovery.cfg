SPECIFICATION Spec
CONSTANTS
  BaseGrants = {g1}
  Execs = {p1, p2}
  Coords = {c1, c2}
  MaxAttempts = 2
  MaxCrashes = 2
  MaxClaims = 2
SYMMETRY Alike
INVARIANTS OneActivePerKey RetryIsReviewed RecoveredIsReal
PROPERTIES ImplementsOneTimeGrant
CHECK_DEADLOCK FALSE
