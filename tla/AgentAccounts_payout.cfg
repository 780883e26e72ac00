SPECIFICATION Spec
CONSTANTS
  a1 = a1
  a2 = a2
  e1 = e1
  e2 = e2
  v1 = v1
  v2 = v2
  Keep = Keep
  None = None
  Agents <- TwoAgents
  Emails <- OneEmail
  Versions <- OneVersion
  Codes <- FirstCode
  Patches <- ReferralPatches
  Settings <- DefaultSettings
  Requested <- KeyRequests
  Profiles <- Blank
  Reward = 5
  MaxKeys = 1
  MaxTokens = 2
  MaxWaiting = 1
  MaxCredits = 2
  MaxCrashes = 0
INVARIANT CompletedIsPaid
CHECK_DEADLOCK FALSE
