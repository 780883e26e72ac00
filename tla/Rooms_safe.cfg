SPECIFICATION Spec
CONSTANTS
  None = None
  NaN = NaN
  Infinite = Infinite
  a1 = a1
  a2 = a2
  r1 = r1
  r2 = r2
  l1 = l1
  p1 = p1
  d1 = d1
  t1 = t1
  wide = wide
  narrow = narrow
  sales = sales
  Agents <- TwoAgents
  RoomIds <- TwoRooms
  ListingIds <- OneListing
  PaymentIds <- OnePayment
  Deals <- OneDeal
  Topics <- TwoTopics
  Finds <- Search
  Titles <- OneTitle
  Prices <- FreeOrPaid
  Invites <- Guests
  Figures <- SomeFigures
  Confidences <- LowConfidence
  Tiers <- OneTier
  MinMargin <- TierMargin
  Outcomes <- SomeOutcomes
  Histories <- SomeHistories
  MaxParticipants = 2
  MaxMessages = 1
  MaxActive = 1
  MaxListings = 1
  MaxHubs = 1
  MaxMembers = 2
  MaxRequests = 2
  MaxRuns = 2
  MaxDays = 2
  MaxReferrals = 1
  MaxCrashes = 1
INVARIANTS CommitmentIsChecked BonusIsEarned
CHECK_DEADLOCK FALSE
