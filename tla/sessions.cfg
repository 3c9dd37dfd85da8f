SPECIFICATION FairSpec
CONSTANTS
  Resources = {1}
  Paths = {}
  NoPath = "noPath"
  Domains = {}
  NoDomain = "noDomain"
  Ids = {1}
  Attempts = {"c1", "h1", "h2", "k1", "x"}
  Claimants = {"A", "B"}
  Sessions = {"s1", "s2"}
  Boots = {"b1", "b2"}
  Policies = {"std"}
  NoClaimant = "noClaimant"
  NoSession = "noSession"
  NoBoot = "noBoot"
  Creates <- SessionCreates
  Amends <- Nobody
  Releases <- Nobody
  Recalls <- SessionRecalls
  Revokes <- Nobody
  Revalidates <- Nobody
  HoldRequests <- SessionHolds
  HoldReleases <- SessionHoldReleases
  SessionEnds <- SessionEnd
  Snapshots <- SessionSnapshots
  PathSnapshots <- Nobody
  PolicyRecords <- Nobody
  Registrations <- SessionRegistrations
  Fences <- SessionFences
  Resolutions <- Nobody
  Shutdowns = TRUE
  StrictHoldTtl = 2
  StrictHoldCount = 2
  StrictHoldAmount = 3
  EnablePreemption = FALSE
  MaxLive = 3
  MaxHistory = 2
  MaxAttempts = 4
  MaxTime = 4
  MaxGeneration = 2
INVARIANTS
  HoldAccounting
  HoldsCarryAuthority
PROPERTIES
  CapacityReturns
  HoldsLapse
