SPECIFICATION Spec
CONSTANTS
  a1 = a1
  a2 = a2
  e1 = e1
  e2 = e2
  v1 = v1
  v2 = v2
  Keep = Keep
  None = None
  Agents <- TwoAgents
  Emails <- TwoEmails
  Versions <- TwoVersions
  Codes <- NoCodes
  Patches <- MailPatches
  Settings <- MailSettings
  Requested <- MailRequests
  Profiles <- Blank
  Reward = 5
  MaxKeys = 1
  MaxTokens = 2
  MaxWaiting = 1
  MaxCredits = 2
  MaxCrashes = 1
SYMMETRY Symmetry
INVARIANTS TypeOK EmailsAreUnique VerifiedIsProven OneUsableLink ListedIsActive
PROPERTY ShownByOwnAct
CHECK_DEADLOCK FALSE
