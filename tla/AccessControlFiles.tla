------------------------ MODULE AccessControlFiles ------------------------
(***************************************************************************)
(* The commands "usbguard add-user" and "usbguard remove-user", which      *)
(* write and unlink access control files while the daemon may be running.  *)
(* The daemon reads the files when it is started, after the users and      *)
(* groups of its configuration.                                            *)
(***************************************************************************)
EXTENDS AccessControl, FiniteSets, SequencesExt

CONSTANTS
  AllowedUsers,   \* the setting IPCAllowedUsers of the daemon
  AllowedGroups,  \* the setting IPCAllowedGroups
  Names,          \* names of users and of groups
  ValidNames,     \* those that checkAccessControlName accepts
  Grants,         \* the privilege options that the command is called with
  MaxCommands     \* bound on the number of commands

VARIABLES
  acDir,      \* the directory: [names of files -> their lines]
  granted,    \* history: [names of files -> what the options say]
  loaded,     \* the maps of the running daemon
  commands    \* number of commands so far

acVars == <<acDir, granted, loaded, commands>>

SectionOrder == <<"Devices", "Policy", "Parameters", "Exceptions">>
PrivilegeOrder == <<"list", "modify", "listen">>

\* getIPCAccessControlFileBasename and parseIPCAccessControlFilename: the parts of
\* the name before and after the colon
Basename(name, isGroup) == IF isGroup THEN <<"", name>> ELSE <<name, "">>

\* Mutation: a section that has all privileges is skipped
SaveSkipsFull(ac) ==
  LET line(s) == <<s, SelectSeq(PrivilegeOrder, LAMBDA p : p \in ac[s])>>
      used == SelectSeq(SectionOrder, LAMBDA s : ac[s] # {} /\ ac[s] # Privileges)
  IN  [i \in DOMAIN used |-> line(used[i])]

\* AccessControl::save
Save(ac) ==
  LET line(s) == <<s, SelectSeq(PrivilegeOrder, LAMBDA p : HasPrivilege(ac, s, p))>>
      used == SelectSeq(SectionOrder, LAMBDA s : \E p \in Privileges : HasPrivilege(ac, s, p))
  IN  [i \in DOMAIN used |-> line(used[i])]

\* The options are merged one by one; each is parsed like a line of a file
MergedOptions(options) ==
  Merged({Load(<<options[i]>>) : i \in DOMAIN options})

Update(f, x, v) == [y \in DOMAIN f \cup {x} |-> IF y = x THEN v ELSE f[y]]

-----------------------------------------------------------------------------

\* usbguard add-user: an existing file is written anew.  An option or a name that
\* is not valid raises an exception before the file is opened.
AddUser(name, isGroup, options) ==
  /\ commands < MaxCommands
  /\ commands' = commands + 1
  /\ LET file == Basename(name, isGroup)
         valid == LinesValid(options) /\ name \in ValidNames
     IN  /\ acDir' = IF valid THEN Update(acDir, file, Save(MergedOptions(options)))
                     ELSE acDir
         /\ granted' = IF valid THEN Update(granted, file, options) ELSE granted
  /\ UNCHANGED loaded

\* usbguard remove-user
RemoveUser(name, isGroup) ==
  /\ commands < MaxCommands
  /\ commands' = commands + 1
  /\ LET files == DOMAIN acDir \ {Basename(name, isGroup)}
     IN  /\ acDir' = [f \in files |-> acDir[f]]
         /\ granted' = [f \in files |-> granted[f]]
  /\ UNCHANGED loaded

\* Daemon::loadConfiguration and loadIPCAccessControlFiles, in the order of the names of
\* the files or any other
StartDaemon ==
  /\ LET names == SetToSeq(DOMAIN acDir)
         file(f) == [user |-> f[1], group |-> f[2], lines |-> acDir[f]]
     IN  loaded' = LoadMaps([users |-> AllowedUsers, groups |-> AllowedGroups,
                             files |-> [i \in DOMAIN names |-> file(names[i])]])
  /\ UNCHANGED <<acDir, granted, commands>>

ACInit ==
  /\ acDir = <<>> /\ granted = <<>> /\ loaded = <<>>
  /\ commands = 0

ACNext ==
  \/ \E name \in Names, isGroup \in BOOLEAN :
       \/ \E options \in Grants : AddUser(name, isGroup, options)
       \/ RemoveUser(name, isGroup)
  \/ StartDaemon

-----------------------------------------------------------------------------
(* Properties *)

\* What the options of one command say
OptionsSay(options, s) ==
  UNION {UNION {Bits(p) : p \in ToSet(options[i][2])} :
           i \in {j \in DOMAIN options : options[j][1] = s}} \cap Available(s)

\* A daemon that is started after a sequence of add-user and remove-user commands
\* knows the users and groups of its configuration, with all privileges whatever was
\* added or removed, and besides them exactly those that were added and not removed,
\* each with the privileges of its last add-user command, and never those of another
\* or of an earlier one (Daemon::loadConfiguration, usbguard_add_user,
\* AccessControl::save and load).
GrantsInForce ==
  [][StartDaemon =>
       LET key(f) == IF f[1] = "" THEN GroupKey(f[2]) ELSE UserKey(f[1])
           configured == {UserKey(u) : u \in AllowedUsers}
                           \cup {GroupKey(g) : g \in AllowedGroups}
       IN  /\ DOMAIN loaded' = configured \cup {key(f) : f \in DOMAIN granted}
           /\ \A s \in Sections :
                /\ \A k \in configured : loaded'[k][s] = Available(s)
                /\ \A f \in DOMAIN granted :
                     key(f) \notin configured => loaded'[key(f)][s] = OptionsSay(granted[f], s)]_acVars
=============================================================================
