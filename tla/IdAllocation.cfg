SPECIFICATION Spec
CHECK_DEADLOCK FALSE
CONSTANTS
  LastID = 8
  DeviceThreads <- MCDeviceThreads
  NoThread = nobody
  nobody = nobody
  main = main
  uevent = uevent
  LDAP = TRUE
  LDAPRules = 2
  MaxIDs = 5
INVARIANTS
  TypeOK
  DeviceIdsUniqueAlone
