SPECIFICATION FairSpec
CONSTANTS
  p1 = p1
  p2 = p2
  x1 = x1
  t1 = t1
  None = None
  Partners <- TwoPartners
  Patterns <- OnePattern
  Events <- SomeEvents
  MinActors = 2
  Campaign <- ShortFigures
  OwnWords <- OneThought
  Line <- Lines
  Threads <- OneThread
  DemoReports <- OneReport
  LlmSignals <- SomeLlmSignals
  MinDeals = 1
  AutoApply = TRUE
  MaxEvents = 1
  Histories <- SomeHistories
  Ongoing <- DealsOnly
  MaxTroubles = 1
INVARIANTS TypeOK NothingFromSandbox OnlyReviewed AppliedIsKept
PROPERTIES DealsAreLearned
