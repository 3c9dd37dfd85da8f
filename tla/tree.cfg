SPECIFICATION ISpec
CONSTANTS
  Resources = {1, 2}
  Paths = {}
  NoPath = "noPath"
  Domains = {}
  NoDomain = "noDomain"
  Horizon = 5
  Saturation = 5
  Demands <- SomeDemands
INVARIANTS
  PeaksExact
