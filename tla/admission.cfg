SPECIFICATION Spec
CONSTANTS
  Resources = {1, 2}
  Paths = {}
  NoPath = "noPath"
  Domains = {}
  NoDomain = "noDomain"
  Ids = {1, 2, 3}
  Attempts = {"c1", "c2", "c3", "h1", "m1", "r1", "k1", "v1"}
  Claimants = {"A", "B"}
  Sessions = {"s1", "s2"}
  Boots = {"b1", "b2"}
  Policies = {"std", "pre"}
  NoClaimant = "noClaimant"
  NoSession = "noSession"
  NoBoot = "noBoot"
  Creates <- AdmissionCreates
  Amends <- AdmissionAmends
  Releases <- AdmissionReleases
  Recalls <- AdmissionRecalls
  Revokes <- AdmissionRevokes
  Revalidates <- Nobody
  HoldRequests <- AdmissionHolds
  HoldReleases <- Nobody
  SessionEnds <- Nobody
  Snapshots <- AdmissionSnapshots
  PathSnapshots <- Nobody
  PolicyRecords <- AdmissionPolicies
  Registrations <- Nobody
  Fences <- Nobody
  Resolutions <- Nobody
  Shutdowns = FALSE
  StrictHoldTtl = 2
  StrictHoldCount = 2
  StrictHoldAmount = 3
  EnablePreemption = TRUE
  MaxLive = 2
  MaxHistory = 1
  MaxAttempts = 2
  MaxTime = 5
  MaxGeneration = 2
INVARIANTS
  TypeOK
  SingleLiveGeneration
  IndexSound
  Closure
  AcceptedAttemptsAnswerable
PROPERTIES
  TerminalIsFinal
  NoGenerationReuse
  AdmissionCloses
  PreemptsOnlyWeaker
