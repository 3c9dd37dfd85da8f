SPECIFICATION SFairSpec
CONSTANTS
  Clients <- SomeClients
  Says <- SomeFrames
  Wakes = {TRUE, FALSE}
  AcceptMayFail = TRUE
  MaxFrames = 1
INVARIANTS
  DrainedBeforeShutdown
  AtMostOneUnsent
PROPERTIES
  ShutdownHonoured
  SessionsEnd
CHECK_DEADLOCK FALSE
