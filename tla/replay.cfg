SPECIFICATION Spec
CONSTANTS
  Attestations = {a1, a2}
  RunOf <- Own
  NonceOf <- Own
  Copies = {c1, c2}
  Callers = {p1, p2}
  MaxHistory = 2
  MaxCalls = 4
  MaxLost = 1
  MaxForeign = 1
SYMMETRY Alike
INVARIANTS FinalizedIsAnchored LocalNeverAhead HeadIsHeld
PROPERTY ImplementsLedger
CHECK_DEADLOCK FALSE
