-------------------------------- MODULE MCIPC --------------------------------
(***************************************************************************)
(* Instance of IPC: joe, a member of the group wheel, and a process that   *)
(* has a group but no name; files for a user, a UID, a group, a GID and a  *)
(* user with a group, one with an error in it, and none; IPCAllowedUsers   *)
(* and IPCAllowedGroups empty, and with joe, who also has a file.          *)
(***************************************************************************)
EXTENDS IPC, TLC

File(user, group, lines) == [user |-> user, group |-> group, lines |-> lines]

MCUserName == ("1000" :> "joe") @@ ("1001" :> "")
MCGroupName == ("100" :> "users") @@ ("10" :> "wheel")
MCMembers == ("wheel" :> {"joe"}) @@ ("10" :> {"joe"}) @@ ("users" :> {}) @@ ("100" :> {})

MCAccounts == {[uid |-> "1000", gid |-> "100"], [uid |-> "1001", gid |-> "10"]}

Settings(users, groups, files) == [users |-> users, groups |-> groups, files |-> files]

MCConfigurations ==
  {Settings({}, {}, <<>>),
   Settings({}, {},
     <<File("1000", "", <<<<"Devices", <<"listen">>>>>>),
       File("", "wheel", <<<<"Policy", <<"list">>>>, <<"Exceptions", <<"modify">>>>>>),
       File("", "10", <<<<"Devices", <<"modify">>>>>>)>>),
   Settings({}, {"users"},
     <<File("", "wheel", <<<<"Audit", <<>>>>, <<"Policy", <<"list">>>>>>)>>),
   Settings({"joe"}, {}, <<File("joe", "wheel", <<<<"Exceptions", <<"listen">>>>>>)>>),
   Settings({}, {},
     <<File("joe", "", <<<<"Devices", <<"modify">>>>>>),
       File("joe", "wheel", <<<<"ALL", <<"listen">>>>, <<"Policy", <<"ALL">>>>>>)>>)}
=============================================================================
