SPECIFICATION SeriesSpec
CONSTANTS
  Resources = {1}
  Paths = {}
  NoPath = "noPath"
  Domains = {}
  NoDomain = "noDomain"
  Ids = {1, 2, 3, 4, 5}
  Attempts = {"c1", "c2", "m1", "v1"}
  Claimants = {"A", "B"}
  Sessions = {"s1"}
  Boots = {"b1"}
  Policies = {"std"}
  NoClaimant = "noClaimant"
  NoSession = "noSession"
  NoBoot = "noBoot"
  Creates <- CompetingCreates
  Amends <- Nobody
  Releases <- Nobody
  Recalls <- Nobody
  Revokes <- MemberRevokes
  Revalidates <- Nobody
  HoldRequests <- Nobody
  HoldReleases <- Nobody
  SessionEnds <- Nobody
  Snapshots <- SeriesResource
  PathSnapshots <- Nobody
  PolicyRecords <- Nobody
  Registrations <- Nobody
  Fences <- Nobody
  Resolutions <- Nobody
  Shutdowns = FALSE
  StrictHoldTtl = 2
  StrictHoldCount = 2
  StrictHoldAmount = 3
  EnablePreemption = FALSE
  MaxLive = 4
  MaxHistory = 1
  MaxAttempts = 4
  MaxTime = 3
  MaxGeneration = 3
  SeriesIds = {"s"}
  MemberIds <- OneSeries
  SeriesCreates <- RecurringCreates
  SeriesAmends <- RecurringAmends
  MaxMembers = 3
  LastInstant = 6
INVARIANTS
  Closure
  WholeSeries
PROPERTIES
  EndedMembersStay
