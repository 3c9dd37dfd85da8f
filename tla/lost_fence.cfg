SPECIFICATION RSpec
CONSTANTS
  Resources = {1}
  Paths = {"p"}
  NoPath = "noPath"
  Domains = {}
  NoDomain = "noDomain"
  Ids = {1}
  Attempts = {"c1", "m1", "v1"}
  Claimants = {"A", "B"}
  Sessions = {"s1"}
  Boots = {"b1"}
  Policies = {"std"}
  NoClaimant = "noClaimant"
  NoSession = "noSession"
  NoBoot = "noBoot"
  Creates <- Nobody
  Amends <- Nobody
  Releases <- Nobody
  Recalls <- Nobody
  Revokes <- Nobody
  Revalidates <- Nobody
  HoldRequests <- Nobody
  HoldReleases <- Nobody
  SessionEnds <- Nobody
  Snapshots <- Nobody
  PathSnapshots <- Nobody
  PolicyRecords <- Nobody
  Registrations <- Nobody
  Fences <- WideFences
  Resolutions <- Nobody
  Shutdowns = FALSE
  StrictHoldTtl = 2
  StrictHoldCount = 2
  StrictHoldAmount = 3
  EnablePreemption = FALSE
  MaxLive = 3
  MaxHistory = 0
  MaxAttempts = 2
  MaxTime = 2
  MaxGeneration = 2
  IdentityOrder <- Identities
  MaxEpoch = 2
PROPERTIES
  FencesSurvive
