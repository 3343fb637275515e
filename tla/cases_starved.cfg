SPECIFICATION FairSpec
CONSTANTS
  c1 = c1  c2 = c2  r1 = r1  r2 = r2
  Cases = {c1}
  Rounds = {r1, r2}
  SourceRounds = {r1}
  Payloads <- OneCase
  Manual = Manual
  NoRound = NoRound
  MaxTasks = 3
  MaxPerPlan = 1
  Results = {"none", "REPRODUCED"}
  OldKey = FALSE
  MaxEvents = 0

PROPERTIES EveryResultPlanned
CHECK_DEADLOCK FALSE
