SPECIFICATION Spec
CONSTANTS
  c1 = c1  c2 = c2  r1 = r1  r2 = r2
  Cases = {c1, c2}
  Rounds = {r1, r2}
  SourceRounds = {r1}
  Payloads <- TwoCases
  Manual = Manual
  NoRound = NoRound
  MaxTasks = 3
  MaxPerPlan = 1
  Results = {"REPRODUCED"}
  OldKey = TRUE
  MaxEvents = 3
INVARIANTS RoundsAreWhole RoundNumbersGrow
PROPERTIES ClosedIsFinal CloseTellsBranch
CHECK_DEADLOCK FALSE
