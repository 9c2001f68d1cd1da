CONSTANTS
  Targets = {"allow"}
  Attributes <- MCAttributes
  TextAttributes <- MCTextAttributes
  Ids <- MCIds
  Interfaces <- MCInterfaces
  Literals <- MCLiterals
  Conditions <- MCConditions
  Devices <- MCDevices
  MaxValues = 2
  Catchalls = {"none", "allow", "block"}
  MaxPresent = 2
  Descriptors <- MCDescriptors
  MaxDescriptors = 5
  AuthorizedValues = {"0", "1", "2"}
  UEventKeys = {"ACTION", "DEVPATH", "SUBSYSTEM"}
  UEventValues = {"", "add", "/d", "tab"}
  LowerCase = {"add"}
  Printable = {"add", "/d"}
  MaxAttributes = 3
  Bytes <- MCBytes
  MaxBytes = 4
  ConfigFiles <- MCConfigFiles
  KnownNames <- MCKnownNames
  SettingValues <- MCSettingValues
  NSSwitchFiles <- MCNSSwitchFiles
  LDAPFiles <- MCLDAPFiles
  Numeric = {"100"}
  UserName <- MCUserName
  GroupName <- MCUserName
  Members <- MCUserName
  AllowedUsers = {"joe"}
  AllowedGroups = {"wheel"}
  Names = {"joe", "100", "-bad"}
  ValidNames = {"joe", "100"}
  Grants <- MCGrants
  MaxCommands = 3
  Listable <- MCListable
  MaxPrinted = 7
  SignalValues = {"v"}
  Inherited <- MCInherited
  MaxConnections = 2
  MaxCalls = 4
SPECIFICATION FormatsSpec
CHECK_DEADLOCK FALSE
INVARIANTS
  RoundTrip
  OperatorsAsDocumented
  GeneratedRuleApplies
  GeneratedPolicyAllows
  InterfacesComplete
  HashStandsForDevice
  UEventTrue
  EncodingsReadBack
  SourceAsConfigured
  TreeComplete
  ExecutablesFollow
PROPERTIES
  ConfigKept
  GrantsInForce
