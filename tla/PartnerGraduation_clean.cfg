SPECIFICATION Spec
CONSTANTS
  q1 = q1
  q2 = q2
  c1 = c1
  Loop = Loop
  Cli = Cli
  None = None
  Partners <- OnePartner
  Chains <- OneChain
  Operators <- LoopOnly
  Summaries <- GoodSummaries
  Kinds <- ToolOffence
  FailedThreshold = 2
  RateThreshold = 2
  BurstSize = 9
  MaxOffences = 1
  MaxHandoffs = 2
  MaxGraduations = 3
  MaxCrashes = 0
INVARIANT CleanHistory
CHECK_DEADLOCK FALSE
