SPECIFICATION FeedbackSpec
CONSTANTS
  analyst = analyst  validator = validator
  Roles = {analyst, validator}
  Cost <- CostOfEach
  Base <- BaseOfEach
  MinSamples = 1
  FullSamples = 1
  ViabilitySamples = 1
  RecentSamples = 1
  ContextRows = 2
  RootRole = analyst
  MaxTasks = 4
  MaxChildren = 2
  MaxPerPlan = 2
  MaxRows = 2
  MaxMishaps = 2
INVARIANTS CreditIsEarned ShadowsOnlyCompare DecidedIsMeasured
PROPERTIES LearnsFromFailure
CHECK_DEADLOCK FALSE
