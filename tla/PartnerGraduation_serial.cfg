SPECIFICATION FairSpec
CONSTANTS
  q1 = q1
  q2 = q2
  c1 = c1
  Loop = Loop
  Cli = Cli
  None = None
  Partners <- OnePartner
  Chains <- OneChain
  Operators <- LoopOnly
  Summaries <- MixedSummaries
  Kinds <- LoopOffences
  FailedThreshold = 2
  RateThreshold = 2
  BurstSize = 4
  MaxOffences = 2
  MaxHandoffs = 2
  MaxGraduations = 3
  MaxCrashes = 1
INVARIANTS CleanHistory GraduatedHoldsKey NoSecondKey GraduatedIsFinal
PROPERTIES ReadyIsGraduated ImplementsLifecycle
CHECK_DEADLOCK FALSE
