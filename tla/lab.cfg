SPECIFICATION Spec
CONSTANTS
  r1 = r1  r2 = r2  k1 = k1  k2 = k2  m1 = m1  m2 = m2  p1 = p1  p2 = p2  d1 = d1  d2 = d2
  case1 = case1  case2 = case2
  Runs = {r1, r2}
  Contracts = {k1, k2}
  CommitOf <- CommitOfEach
  CaseOf <- CaseOfEach
  Case = case1
  Paths = {p1, p2}
  Dirs = {d1, d2}
  MaxOutput = 1
  MaxEvents = 3
INVARIANTS ReportsAreTrue WhatOutlivesAnAnswer
PROPERTIES CollectedAtRest
CHECK_DEADLOCK FALSE
SYMMETRY SameRoles
