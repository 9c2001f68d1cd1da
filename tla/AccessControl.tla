---------------------------- MODULE AccessControl ----------------------------
(***************************************************************************)
(* Access control of the IPC interface: the privileges of a section, the   *)
(* maps of allowed users and groups, filled from the daemon's              *)
(* configuration and then from the access control files, and the           *)
(* privileges that a connection is given from them.                        *)
(*                                                                         *)
(* A configuration is [users, groups, files]: the names in IPCAllowedUsers *)
(* and IPCAllowedGroups, and the files in the order of loading.  A file is *)
(* [user, group, lines]: the parts of its name before and after the colon  *)
(* ("" if empty) and its lines <<section, privileges>>.  A name of digits  *)
(* only is a UID or a GID.                                                 *)
(***************************************************************************)
EXTENDS Naturals, Sequences

CONSTANTS
  Numeric,     \* the names that consist of digits
  UserName,    \* [UIDs -> names]: "" if there is none
  GroupName,   \* [GIDs -> names]: "" if there is none
  Members      \* the names of the members of a group, by name and by GID

Sections == {"Devices", "Policy", "Parameters", "Exceptions"}
Privileges == {"list", "modify", "listen"}

NoAccess == [s \in Sections |-> {}]

\* The privileges that a section has: what AccessControl::ac_mask leaves
Available(s) == CASE s \in {"Devices", "Parameters"} -> Privileges
                  [] s = "Policy" -> {"modify", "list"}
                  [] s = "Exceptions" -> {"listen"}

Bits(p) == IF p = "ALL" THEN Privileges ELSE {p} \cap Privileges

\* AccessControl::hasPrivilege, for a section that may be tested
HasPrivilege(ac, s, p) == p = "none" \/ Bits(p) \subseteq ac[s]

\* AccessControl::setPrivilege and the names that sectionFromString and
\* privilegeFromString know: does it throw, and what does it add to a section?
PrivilegeValid(s, p) ==
  /\ s \in Sections \cup {"ALL"} /\ p \in Privileges \cup {"ALL", "none"}
  /\ s # "ALL" /\ p # "ALL" => Bits(p) \subseteq Available(s)

SetPrivilege(section, p) ==
  [s \in Sections |-> IF section \in {"ALL", s} THEN Bits(p) \cap Available(s) ELSE {}]

\* AccessControl::merge, of any number of access controls
Merged(acs) == [s \in Sections |-> UNION {ac[s] : ac \in acs}]

\* AccessControl::load; privileges are only ever added.  The section is looked up
\* also if no privilege follows it.
LinesValid(lines) ==
  \A i \in DOMAIN lines :
    /\ lines[i][1] \in Sections \cup {"ALL"}
    /\ \A j \in DOMAIN lines[i][2] : PrivilegeValid(lines[i][1], lines[i][2][j])

LoadLine(line) == Merged({SetPrivilege(line[1], line[2][j]) : j \in DOMAIN line[2]})

Load(lines) == Merged({LoadLine(lines[i]) : i \in DOMAIN lines})

-----------------------------------------------------------------------------
(* The maps _allowed_uids, _allowed_gids, _allowed_usernames and              *)
(* _allowed_groupnames, as one map from <<kind, key>>                         *)

\* Daemon::addIPCAllowedUser, Daemon::addIPCAllowedGroup
UserKey(user) == <<IF user \in Numeric THEN "uid" ELSE "username", user>>
GroupKey(group) == <<IF group \in Numeric THEN "gid" ELSE "groupname", group>>

\* Mutation: a file with an error in it counts as far as it is valid
LoadedRegardless(file) == file.user # "" \/ file.group # ""

\* Daemon::loadIPCAccessControlFile: a file with an error in it is ignored, and one
\* that names nobody adds nothing
Loaded(file) == LinesValid(file.lines)

FileKeys(file) ==
  {UserKey(user) : user \in {file.user} \ {""}}
    \cup {GroupKey(group) : group \in {file.group} \ {""}}

\* Daemon::loadIPCAccessControlFiles; std::map::emplace keeps the entry of the first
\* file that has the key
Holders(files, key) ==
  {i \in DOMAIN files : Loaded(files[i]) /\ key \in FileKeys(files[i])}

Emplaced(files, key) ==
  CHOOSE i \in Holders(files, key) : \A j \in Holders(files, key) : i <= j

\* Daemon::loadConfiguration: the entries of IPCAllowedUsers and IPCAllowedGroups, with
\* the default access control
ConfiguredKeys(settings) ==
  {UserKey(user) : user \in settings.users} \cup {GroupKey(group) : group \in settings.groups}

FullAccess == SetPrivilege("ALL", "ALL")

\* The entries of the configuration come first, and the files do not replace them
LoadMaps(settings) ==
  LET files == settings.files
      loaded == {j \in DOMAIN files : Loaded(files[j])}
      configured == ConfiguredKeys(settings)
  IN  [key \in configured \cup UNION {FileKeys(files[i]) : i \in loaded} |->
         IF key \in configured THEN FullAccess ELSE Load(files[Emplaced(files, key)].lines)]

-----------------------------------------------------------------------------
(* Connections *)

\* getNameFromUID, which fails at times; getNameFromGID and getGroupMemberNames
NameFromUID(uid, lookup) == IF lookup THEN UserName[uid] ELSE ""
NameFromGID(gid) == GroupName[gid]
GroupMemberNames(group) == Members[group]

\* matchACLByUID, matchACLByGID, matchACLByName: the entries for a user whose name
\* could be looked up or not
MatchedKeys(map, uid, gid, lookup) ==
  LET name == NameFromUID(uid, lookup)
      group == NameFromGID(gid)
  IN  {k \in DOMAIN map :
         \/ k \in {<<"uid", uid>>, <<"gid", gid>>}
         \/ name # "" /\ k = <<"username", name>>
         \/ group # "" /\ k = <<"groupname", group>>
         \/ k[1] \in {"gid", "groupname"} /\ name # "" /\ name \in GroupMemberNames(k[2])}

\* authenticateIPCConnectionDAC
MergedAccess(map, keys) == Merged({map[k] : k \in keys})

\* qbIPCConnectionAllowed; without any entry everyone may connect
ConnectionAllowed(map, keys) == DOMAIN map = {} \/ keys # {}
=============================================================================
