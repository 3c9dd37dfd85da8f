SPECIFICATION RSpec
CONSTANTS
  Resources = {1, 2}
  Paths = {"p"}
  NoPath = "noPath"
  Domains = {}
  NoDomain = "noDomain"
  Ids = {1}
  Attempts = {"c1", "m1", "v1"}
  Claimants = {"A", "B"}
  Sessions = {"s1"}
  Boots = {"b1"}
  Policies = {"std"}
  NoClaimant = "noClaimant"
  NoSession = "noSession"
  NoBoot = "noBoot"
  Creates <- RecoveryCreates
  Amends <- RecoveryAmends
  Releases <- Nobody
  Recalls <- RecoveryRecalls
  Revokes <- Nobody
  Revalidates <- Nobody
  HoldRequests <- Nobody
  HoldReleases <- Nobody
  SessionEnds <- Nobody
  Snapshots <- RecoverySnapshots
  PathSnapshots <- RecoveryPaths
  PolicyRecords <- RecoveryPolicies
  Registrations <- Nobody
  Fences <- RecoveryFences
  Resolutions <- RecoveryResolutions
  Shutdowns = FALSE
  StrictHoldTtl = 2
  StrictHoldCount = 2
  StrictHoldAmount = 3
  EnablePreemption = FALSE
  MaxLive = 3
  MaxHistory = 0
  MaxAttempts = 2
  MaxTime = 2
  MaxGeneration = 2
  IdentityOrder <- Identities
  MaxEpoch = 3

  
PROPERTIES
  RestartKeepsFacts
  NoSecondLife
  OpensConsistent
  EpochsNeverReused
