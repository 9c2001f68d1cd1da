SPECIFICATION Spec
CHECK_DEADLOCK FALSE
CONSTANTS
  Paths <- MCPaths
  Fixed <- MCNoPaths
  Parent <- MCParent
  Rank <- MCRank
  Boot <- MCBoot
  Rules <- MCAllowBlock
  AuthorizedDefault = "allow"
  PresentControllerPolicy = "apply-policy"
  PresentDevicePolicy = "apply-policy"
  InsertedDevicePolicy = "apply-policy"
  MaxPlugs = 3
  RequestTargets <- MCNoTargets
  MaxRequests = 0
  StartupEvents = FALSE
  FastReplug = FALSE
  Errors = TRUE
  NoPath = none
  none = none
  hub = hub
  leaf = leaf
PROPERTIES
  FailedInsertionsRejected
