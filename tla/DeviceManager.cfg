SPECIFICATION FairSpec
CHECK_DEADLOCK FALSE
CONSTANTS
  Paths <- MCPaths
  Fixed <- MCNoPaths
  Parent <- MCParent
  Rank <- MCRank
  Boot <- MCBoot
  Rules <- MCAllRules
  AuthorizedDefault = "allow"
  PresentControllerPolicy = "keep"
  PresentDevicePolicy = "allow"
  InsertedDevicePolicy = "apply-policy"
  MaxPlugs = 4
  RequestTargets <- MCNoTargets
  MaxRequests = 0
  StartupEvents = FALSE
  FastReplug = TRUE
  Errors = FALSE
  NoPath = none
  none = none
  hub = hub
  leaf = leaf
INVARIANTS
  DevicesTracked
  DevicesDecided
  PresenceAnnounced
PROPERTIES
  FailedInsertionsRejected
  EveryDeviceProcessed
