SPECIFICATION FairSpec
CONSTANTS
  c1 = c1
  c2 = c2
  s1 = s1
  d1 = d1
  d2 = d2
  None = None
  Torn = Torn
  Chains <- TwoChains
  Requests <- AllRequests
  Replies <- SomeReplies
  Tools <- TwoTools
  Sellers <- OneSeller
  Deals <- TwoDeals
  Available <- MailOnly
  ForceDryRun = TRUE
  FastChain = TRUE
  MaxAttempts = 2
  MaxCrashes = 1
INVARIANTS TypeOK ActsAreEarned ActsAreLogged BilledIsEarned RetryBillsOnce CloseIsBilled
PROPERTIES ImplementsProtocol ChainsEnd
CHECK_DEADLOCK FALSE
