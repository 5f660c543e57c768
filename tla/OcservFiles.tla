---------------------------- MODULE OcservFiles ----------------------------
(***************************************************************************)
(* The files ocserv-admin manages and the pure functions over them: what   *)
(* each loader reads back, what each check accepts and what each write     *)
(* leaves in a file.  A disk is a function from file to content, so that   *)
(* the snapshots of src/src/adapter_mutations.py are restrictions of it.   *)
(*                                                                         *)
(* A name, an address or a text is an atom.  A group file is the set of    *)
(* addresses its ipv4-network covers ({} when it sets none).  A user file  *)
(* is the one address it pins, or HandMade for text the tool never wrote.  *)
(***************************************************************************)
EXTENDS Naturals, FiniteSets

CONSTANTS
  User,            \* user names
  Group,           \* policy group names
  ProtectedGroup,  \* "default" and "admins": always known, never deleted
  Ip,              \* IPv4 addresses
  NoUser, NoGroup, NoIp,  \* None in a record of the code
  Absent,          \* content of a file that does not exist
  DefaultText,     \* text of the built-in main template
  HandMade,        \* text an administrator wrote by hand
  JsonStore        \* TRUE: users_file is *.json; FALSE: ocpasswd format

ASSUME GroupAssumption   == ProtectedGroup \subseteq Group
ASSUME JsonStoreAssumption == JsonStore \in BOOLEAN
ASSUME AtomsDistinct ==
  /\ NoGroup \notin Group /\ NoIp \notin Ip
  /\ NoUser \notin [group : Group \cup {NoGroup}, disabled : BOOLEAN, ip : Ip \cup {NoIp}]
  /\ Absent \notin Ip /\ HandMade \notin Ip
  /\ Absent # HandMade /\ Absent # DefaultText

(***************************************************************************)
(* File names.                                                             *)
(***************************************************************************)
UsersFile        == <<"users">>
UserGroupMapFile == <<"map">>
GroupsFile       == <<"groups">>
MainTemplate     == <<"main template">>
MainConfig       == <<"main config">>
GroupTemplate(g) == <<"group template", g>>
GroupConfig(g)   == <<"group config", g>>
UserConfig(u)    == <<"user config", u>>

GroupTemplates == {GroupTemplate(g) : g \in Group}
GroupConfigs   == {GroupConfig(g) : g \in Group}
UserConfigs    == {UserConfig(u) : u \in User}
\* What ocserv itself reads when it (re)starts.
ServiceFiles   == {MainConfig} \cup GroupConfigs \cup UserConfigs
File == {UsersFile, UserGroupMapFile, GroupsFile, MainTemplate}
          \cup ServiceFiles \cup GroupTemplates

UserRecord == [group : Group \cup {NoGroup}, disabled : BOOLEAN, ip : Ip \cup {NoIp}]
UserTable  == [User -> UserRecord \cup {NoUser}]
\* What the users file can say: a line of an ocpasswd file has no field for the address.
UserLines  == {T \in UserTable :
                 JsonStore \/ \A u \in User : T[u] # NoUser => T[u].ip = NoIp}
GroupMap   == [User -> Group \cup {NoGroup}]
IpMap      == [User -> Ip \cup {NoIp}]
MapContent == [groups : GroupMap, ips : IpMap]
ASSUME AbsentIsNoContent ==
  /\ Absent \notin UserTable /\ Absent \notin MapContent
  /\ \A groups \in SUBSET Group : Absent # groups

\* What the tool, or an administrator, may leave in a file.
Content(f) ==
  {Absent} \cup
    CASE f[1] = "users"  -> UserLines
      [] f[1] = "map"    -> MapContent
      [] f[1] = "groups" -> SUBSET Group
      [] f[1] \in {"main template", "main config"}   -> {DefaultText, HandMade}
      [] f[1] \in {"group template", "group config"} -> SUBSET Ip
      [] f[1] = "user config" -> Ip \cup {HandMade}

PartialDisk(d) == /\ d = [f \in DOMAIN d |-> d[f]]
                  /\ DOMAIN d \subseteq File
                  /\ \A f \in DOMAIN d : d[f] \in Content(f)
Disk(d) == PartialDisk(d) /\ DOMAIN d = File

(***************************************************************************)
(* Loading.                                                                *)
(***************************************************************************)
\* The users file as it is on disk; a missing file holds no user.
StoredUsers(d) == IF d[UsersFile] = Absent THEN [u \in User |-> NoUser] ELSE d[UsersFile]

\* _load_user_metadata: assignments and addresses of user-groups.json.
Metadata(d) ==
  IF d[UserGroupMapFile] = Absent
  THEN [groups |-> [u \in User |-> NoGroup], ips |-> [u \in User |-> NoIp]]
  ELSE d[UserGroupMapFile]

\* _load_user_payload: a plain store takes the group from its own line only,
\* a JSON store falls back to the map; both fall back to the map for the address.
LoadUser(d, u) ==
  LET stored == StoredUsers(d)[u] IN
  IF stored = NoUser THEN NoUser
  ELSE [stored EXCEPT
          !.group = IF JsonStore /\ @ = NoGroup THEN Metadata(d).groups[u] ELSE @,
          !.ip    = IF @ = NoIp THEN Metadata(d).ips[u] ELSE @]

LoadUsers(d) == [u \in User |-> LoadUser(d, u)]

\* _load_user_group_map and _load_user_ipv4_map: the map file wins as a whole, and
\* the records of the users are consulted only while its section is empty.
LoadGroupMap(d) ==
  IF \E u \in User : Metadata(d).groups[u] # NoGroup THEN Metadata(d).groups
  ELSE [u \in User |-> IF LoadUser(d, u) = NoUser THEN NoGroup ELSE LoadUser(d, u).group]

LoadIpMap(d) ==
  IF \E u \in User : Metadata(d).ips[u] # NoIp THEN Metadata(d).ips
  ELSE [u \in User |-> IF LoadUser(d, u) = NoUser THEN NoIp ELSE LoadUser(d, u).ip]

\* _save_user_payload: an ocpasswd line has no field for the address.
SavedUsers_Enabled(users) ==
  [u \in User |-> IF users[u] = NoUser THEN NoUser
                  ELSE [users[u] EXCEPT !.disabled = FALSE,
                                        !.ip = IF JsonStore THEN @ ELSE NoIp]]
SavedUsers(users) ==
  IF JsonStore THEN users
  ELSE [u \in User |-> IF users[u] = NoUser THEN NoUser ELSE [users[u] EXCEPT !.ip = NoIp]]

\* _planned_group_names, which is also listAllowedGroups.
AllowedGroups(d) ==
  ProtectedGroup
    \cup {g \in Group : d[GroupTemplate(g)] # Absent \/ d[GroupConfig(g)] # Absent}
    \cup (IF d[GroupsFile] = Absent THEN {} ELSE d[GroupsFile])

\* _group_ipv4_network: the rendered file first, then the template.
GroupPool(d, g) ==
  IF d[GroupConfig(g)] \notin {Absent, {}} THEN d[GroupConfig(g)]
  ELSE IF d[GroupTemplate(g)] # Absent THEN d[GroupTemplate(g)] ELSE {}

(***************************************************************************)
(* Checks.                                                                 *)
(***************************************************************************)
\* _inventory_conflicts: who stands in the way of every managed mutation.
Conflicts(d) ==
  {u \in User :
     \/ LoadGroupMap(d)[u] \notin AllowedGroups(d) \cup {NoGroup}
     \/ LoadGroupMap(d)[u] # NoGroup /\ LoadUser(d, u) = NoUser
     \/ /\ LoadUser(d, u) # NoUser
        /\ LoadUser(d, u).group \notin AllowedGroups(d) \cup {NoGroup}}

\* _validate_user_ipv4_address, for an address the parser accepts.
IpAccepted_AnyoneElse(d, u, g, ip, users) ==
  ip = NoIp \/ (g # NoGroup /\ ip \in GroupPool(d, g))
IpAccepted_AnyPool(d, u, g, ip, users) ==
  ip = NoIp \/ \A v \in User \ {u} : users[v] # NoUser => users[v].ip # ip
IpAccepted(d, u, g, ip, users) ==
  \/ ip = NoIp
  \/ /\ \A v \in User \ {u} : users[v] # NoUser => users[v].ip # ip
     /\ g # NoGroup
     /\ ip \in GroupPool(d, g)

ManagedAction == {"create_user", "assign_group", "update_user_ip", "disable_user", "delete_user"}

\* validateRequest: a request carries the fields its action requires.
RequestOK(r) ==
  /\ r.group \in Group \cup {NoGroup} /\ r.ip \in Ip \cup {NoIp} /\ r.pool \subseteq Ip
  /\ r.action \in ManagedAction => r.user \in User
  /\ r.action \in {"assign_group", "create_group", "delete_group", "disable_group_users"}
       => r.group \in Group
  /\ r.action = "update_user_ip" => r.ip \in Ip

\* preflightMutation.  blocked is the answer of its session check for delete_user:
\* the user is connected and force is not set.
PreflightOk(d, r, blocked) ==
  LET users   == LoadUsers(d)
      present == users[r.user] # NoUser
  IN
  /\ Conflicts(d) = {}
  /\ CASE r.action = "create_user" ->
            /\ ~present
            /\ r.group \in AllowedGroups(d) \cup {NoGroup}
            /\ IpAccepted(d, r.user, r.group, r.ip, users)
       [] r.action = "assign_group" -> present /\ r.group \in AllowedGroups(d)
       [] r.action = "update_user_ip" ->
            present /\ IpAccepted(d, r.user, users[r.user].group, r.ip, users)
       [] r.action = "disable_user" -> present
       [] r.action = "delete_user" -> present /\ ~blocked

\* _planned_mutation_paths and the data files preflight adds, which are among them.
DataFiles(r) ==
  {UsersFile} \cup (IF r.action = "disable_user" THEN {} ELSE {UserGroupMapFile})
RenderedFiles(r) ==
  IF r.action \notin {"create_user", "assign_group"} THEN {}
  ELSE {MainTemplate, MainConfig}
         \cup (IF r.group = NoGroup THEN {} ELSE {GroupTemplate(r.group), GroupConfig(r.group)})
PlannedUserConfig(r) ==
  IF r.action \in {"create_user", "update_user_ip", "delete_user"}
  THEN {UserConfig(r.user)} ELSE {}

PlannedFiles_NoUserConfig(r) == DataFiles(r) \cup RenderedFiles(r)
PlannedFiles_NoMap(r) == {UsersFile} \cup RenderedFiles(r) \cup PlannedUserConfig(r)
PlannedFiles(r) == DataFiles(r) \cup RenderedFiles(r) \cup PlannedUserConfig(r)

\* _determine_activation_mode: restart when any file the service reads changed.
NeedsRestart_MainOnly(changed) == MainConfig \in changed
NeedsRestart(changed) ==
  changed \cap (ServiceFiles \cup GroupTemplates) # {}

\* verifyMutation, without what occtl reports of the running service.
Verified(d, r) ==
  LET user == LoadUser(d, r.user) IN
  CASE r.action = "create_user" ->
         /\ user # NoUser
         /\ r.group # NoGroup => LoadGroupMap(d)[r.user] = r.group
         /\ r.ip # NoIp => user.ip = r.ip /\ d[UserConfig(r.user)] # Absent
    [] r.action = "assign_group" ->
         /\ user # NoUser /\ user.group = r.group
         /\ LoadGroupMap(d)[r.user] = r.group
         /\ d[GroupConfig(r.group)] # Absent
    [] r.action = "update_user_ip" ->
         /\ user # NoUser /\ user.ip = r.ip
         /\ d[UserConfig(r.user)] # Absent
    [] r.action = "disable_user" -> user # NoUser /\ user.disabled
    [] r.action = "delete_user" ->
         /\ user = NoUser /\ LoadGroupMap(d)[r.user] = NoGroup
         /\ d[UserConfig(r.user)] = Absent

(***************************************************************************)
(* Writes.  l is what the record function loaded before its first write:   *)
(* l.users, l.groups and l.ips.                                            *)
(***************************************************************************)
\* sync_managed_files: missing templates in scope get the built-in text, and the
\* rendered files in scope are overwritten from their templates.
Synced(d, r) ==
  LET Text(f)  == IF d[f] # Absent THEN d[f]
                  ELSE IF f = MainTemplate THEN DefaultText ELSE {}
      group   == r.group
  IN [f \in File |->
        IF f \notin RenderedFiles(r) THEN d[f]
        ELSE IF f = MainConfig THEN Text(MainTemplate)
        ELSE IF f = GroupConfig(group) THEN Text(GroupTemplate(group))
        ELSE Text(f)]

Loaded(d) == [users |-> LoadUsers(d), groups |-> LoadGroupMap(d), ips |-> LoadIpMap(d)]

\* The checks each record function repeats on what it loaded.
RecordAccepted(d, l, r) ==
  LET present == l.users[r.user] # NoUser IN
  CASE r.action = "create_user" ->
         /\ ~present
         /\ r.group \in AllowedGroups(d) \cup {NoGroup}
         /\ IpAccepted(d, r.user, r.group, r.ip, l.users)
    [] r.action = "assign_group" ->
         /\ r.group \in AllowedGroups(d) /\ present
         /\ IpAccepted(d, r.user, r.group, l.users[r.user].ip, l.users)
    [] r.action = "update_user_ip" ->
         present /\ IpAccepted(d, r.user, l.users[r.user].group, r.ip, l.users)
    [] OTHER -> present

\* A JSON store is written back from what was loaded; ocpasswd edits one line of the
\* file as it is now.
EditedUsers(d, l) == IF JsonStore THEN l.users ELSE StoredUsers(d)

WritesUsers(r) == JsonStore \/ r.action # "update_user_ip"
UsersAfter(d, l, r) ==
  LET edited == EditedUsers(d, l) IN
  CASE r.action = "create_user" ->
         [edited EXCEPT ![r.user] = [group |-> r.group, disabled |-> FALSE,
                                     ip |-> IF JsonStore THEN r.ip ELSE NoIp]]
    [] r.action = "disable_user" -> [edited EXCEPT ![r.user].disabled = TRUE]
    [] r.action = "delete_user"  -> [edited EXCEPT ![r.user] = NoUser]
    [] r.action = "assign_group" -> SavedUsers([l.users EXCEPT ![r.user].group = r.group])
    [] r.action = "update_user_ip" -> SavedUsers([l.users EXCEPT ![r.user].ip = r.ip])

WritesMap(r) == r.action # "disable_user"
\* assign_group re-reads the addresses of the map when it writes (_save_user_group_map).
MapAfter_KeepsAddress(d, l, r) ==
  [groups |-> CASE r.action = "delete_user" -> [l.groups EXCEPT ![r.user] = NoGroup]
                [] OTHER -> IF r.group = NoGroup THEN l.groups
                            ELSE [l.groups EXCEPT ![r.user] = r.group],
   ips    |-> IF r.ip = NoIp THEN l.ips ELSE [l.ips EXCEPT ![r.user] = r.ip]]
MapAfter_ForgetsAddresses(d, l, r) ==
  [groups |-> IF r.action = "delete_user" THEN [l.groups EXCEPT ![r.user] = NoGroup]
              ELSE IF r.group = NoGroup THEN l.groups ELSE [l.groups EXCEPT ![r.user] = r.group],
   ips    |-> CASE r.action = "assign_group" -> [u \in User |-> NoIp]
                [] r.action = "delete_user"  -> [l.ips EXCEPT ![r.user] = NoIp]
                [] OTHER -> IF r.ip = NoIp THEN l.ips ELSE [l.ips EXCEPT ![r.user] = r.ip]]
MapAfter(d, l, r) ==
  LET group == IF r.action \in {"create_user", "assign_group"} THEN r.group ELSE NoGroup IN
  [groups |-> IF r.action = "delete_user" THEN [l.groups EXCEPT ![r.user] = NoGroup]
              ELSE IF group = NoGroup THEN l.groups ELSE [l.groups EXCEPT ![r.user] = group],
   ips    |-> CASE r.action = "assign_group" -> Metadata(d).ips
                [] r.action = "delete_user"  -> [l.ips EXCEPT ![r.user] = NoIp]
                [] OTHER -> IF r.ip = NoIp THEN l.ips ELSE [l.ips EXCEPT ![r.user] = r.ip]]

WritesUserConfig(r) == r.action # "disable_user"
\* _sync_user_config: the address is written, or the file is removed when there is none.
UserConfigAfter_WritesNone(d, l, r) ==
  IF r.action = "assign_group" THEN l.users[r.user].ip
  ELSE IF r.action = "delete_user" THEN Absent ELSE r.ip
UserConfigAfter(d, l, r) ==
  LET ip == CASE r.action = "assign_group" -> l.users[r.user].ip
              [] r.action = "delete_user"  -> NoIp
              [] OTHER -> r.ip
  IN IF ip = NoIp THEN Absent ELSE ip

\* _capture_file_snapshots and _restore_file_snapshots.
Snapshot(d, files)   == [f \in files |-> d[f]]
Restored_KeepsCreated(d, snap) ==
  [f \in File |-> IF f \in DOMAIN snap /\ snap[f] # Absent THEN snap[f] ELSE d[f]]
Restored(d, snap)    == [f \in File |-> IF f \in DOMAIN snap THEN snap[f] ELSE d[f]]
\* _detect_changed_files.
ChangedFiles(d, snap) == {f \in DOMAIN snap : d[f] # snap[f]}
=============================================================================
