SPECIFICATION Spec
CONSTANTS
  Resources = {1, 2}
  Paths = {"p"}
  NoPath = "noPath"
  Domains = {"d"}
  NoDomain = "noDomain"
  Ids = {1, 2}
  Attempts = {"c1", "c2", "h1", "v1"}
  Claimants = {"A", "B"}
  Sessions = {"s1", "s2"}
  Boots = {"b1", "b2"}
  Policies = {"std", "auto"}
  NoClaimant = "noClaimant"
  NoSession = "noSession"
  NoBoot = "noBoot"
  Creates <- AuthorityCreates
  Amends <- Nobody
  Releases <- Nobody
  Recalls <- Nobody
  Revokes <- Nobody
  Revalidates <- AuthorityRevalidates
  HoldRequests <- AuthorityHolds
  HoldReleases <- Nobody
  SessionEnds <- Nobody
  Snapshots <- AuthoritySnapshots
  PathSnapshots <- AuthorityPathSnapshots
  PolicyRecords <- AuthorityPolicies
  Registrations <- Nobody
  Fences <- Nobody
  Resolutions <- AuthorityResolutions
  Shutdowns = FALSE
  StrictHoldTtl = 2
  StrictHoldCount = 2
  StrictHoldAmount = 3
  EnablePreemption = FALSE
  MaxLive = 3
  MaxHistory = 1
  MaxAttempts = 4
  MaxTime = 2
  MaxGeneration = 2
INVARIANTS
  IndexAgrees
  ApplicabilityHonest
  HoldsOnLiveTables
PROPERTIES
  NoObligationDropped
  EmergencyBlocks
