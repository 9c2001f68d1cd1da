CONSTANTS
  Numeric = {"1000", "1001", "10", "100"}
  UserName <- MCUserName
  GroupName <- MCGroupName
  Members <- MCMembers
  Clients = {"c"}
  Accounts <- MCAccounts
  Configurations <- MCConfigurations
  Methods = {"applyDevicePolicy", "listRules"}
  MaxCalls = 2
  MaxSignals = 2
  MaxConnects = 2
  MaxStops = 1
  QueueSize = 2
SPECIFICATION FairSpec
CHECK_DEADLOCK FALSE
INVARIANTS
  PrivilegesRespected
  CallsAccounted
PROPERTIES
  EveryCallReturns
