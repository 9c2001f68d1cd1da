SPECIFICATION AdminSpec
CHECK_DEADLOCK FALSE
CONSTANTS
  Paths <- MCPaths
  Fixed <- MCNoPaths
  Parent <- MCParent
  Rank <- MCRank
  Boot <- MCBoot
  Rules <- MCAllowBlock
  AuthorizedDefault = "allow"
  PresentControllerPolicy = "apply-policy"
  PresentDevicePolicy = "apply-policy"
  InsertedDevicePolicy = "apply-policy"
  MaxPlugs = 3
  RequestTargets <- MCAllRules
  MaxRequests = 1
  StartupEvents = FALSE
  FastReplug = FALSE
  Errors = FALSE
  Queries <- MCQueries
  NoPath = none
  none = none
  hub = hub
  leaf = leaf
  port = port
INVARIANTS
  TargetsCurrent
  AuditTrue
  CommandEffective
