SPECIFICATION Spec
CONSTANTS
  o1 = o1  o2 = o2  k1 = k1  k2 = k2  e1 = e1  e2 = e2  c1 = c1  c2 = c2  d1 = d1  d2 = d2
  Operators = {o1, o2}
  Keys = {k1, k2}
  Evidence = {e1, e2}
  Cases = {c1, c2}
  CaseOf <- OneCase
  Unfit = {}
  Dirs = {d1, d2}
  Archive = d2
  MaxArchive = 2
  MaxEvents = 2
INVARIANTS SummaryIsOfOneRun SnapshotsAreSound AcceptedIsSigned
PROPERTIES FinishedIsKept
CHECK_DEADLOCK FALSE
SYMMETRY SameRoles
