SPECIFICATION Spec
CHECK_DEADLOCK FALSE
CONSTANTS
  Paths <- MCPaths
  Fixed <- MCHub
  Parent <- MCParent
  Rank <- MCRank
  Boot <- MCHubAtBoot
  Rules <- MCAllow
  AuthorizedDefault = "allow"
  PresentControllerPolicy = "apply-policy"
  PresentDevicePolicy = "apply-policy"
  InsertedDevicePolicy = "apply-policy"
  MaxPlugs = 3
  RequestTargets <- MCNoTargets
  MaxRequests = 0
  StartupEvents = TRUE
  FastReplug = FALSE
  Errors = FALSE
  NoPath = none
  none = none
  hub = hub
  leaf = leaf
INVARIANTS
  DevicesTracked
