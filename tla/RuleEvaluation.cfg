CONSTANTS
  Devices <- MCDevices
  Rules <- MCRules
  Threads = {"uevent"}
  Initial = {"block"}
  RequestTargets = {"allow", "block"}
  Width = 3
  Day = 2
  MaxTime = 2
SPECIFICATION Spec
INVARIANTS
  OneAllowed
PROPERTIES
  ConditionsDecide
