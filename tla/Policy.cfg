CONSTANTS
  d1 = d1
  d2 = d2
  p1 = p1
  p2 = p2
  h1 = h1
  Devices <- MCDevices
  Ports <- MCPorts
  Parents <- MCParents
  Bodies <- MCBodies
  InitialFiles <- MCInitialFiles
  Decisions <- MCDecisions
  ImplicitTargets <- MCImplicitTargets
  NumSets = 2
  LastID = 5
  RuleFile = TRUE
  RuleFolder = TRUE
  DeviceRulesWithPort = TRUE
  WriteErrors = FALSE
SPECIFICATION Spec
INVARIANTS RuleIdsUnique DecisionHolds EvaluationFollowsListing RestartLoads
PROPERTIES PolicyIsDurable
