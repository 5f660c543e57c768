-------------------------- MODULE OcservFilesProofs --------------------------
(***************************************************************************)
(* What the loaders and the writes of OcservFiles return: every write      *)
(* leaves in a file a content its own loader understands.                  *)
(***************************************************************************)
EXTENDS OcservFiles, TLAPS

\* The files and what they hold.
LEMMA ContentOf ==
  /\ UsersFile \in File /\ Content(UsersFile) = {Absent} \cup UserLines
  /\ UserGroupMapFile \in File /\ Content(UserGroupMapFile) = {Absent} \cup MapContent
  /\ GroupsFile \in File /\ Content(GroupsFile) = {Absent} \cup SUBSET Group
  /\ MainTemplate \in File /\ Content(MainTemplate) = {Absent, DefaultText, HandMade}
  /\ MainConfig \in File /\ Content(MainConfig) = {Absent, DefaultText, HandMade}
  /\ \A g \in Group : /\ GroupTemplate(g) \in File /\ GroupConfig(g) \in File
                      /\ Content(GroupTemplate(g)) = {Absent} \cup SUBSET Ip
                      /\ Content(GroupConfig(g)) = {Absent} \cup SUBSET Ip
                      /\ GroupTemplate(g) # MainTemplate /\ GroupConfig(g) # MainConfig
  /\ \A u \in User : UserConfig(u) \in File /\ Content(UserConfig(u)) = {Absent} \cup Ip \cup {HandMade}
<1>1. UsersFile \in File /\ Content(UsersFile) = {Absent} \cup UserLines
  BY DEF Content, UsersFile, File
<1>2. UserGroupMapFile \in File /\ Content(UserGroupMapFile) = {Absent} \cup MapContent
  BY DEF Content, UserGroupMapFile, File
<1>3. GroupsFile \in File /\ Content(GroupsFile) = {Absent} \cup SUBSET Group
  BY DEF Content, GroupsFile, File
<1>4. MainTemplate \in File /\ Content(MainTemplate) = {Absent, DefaultText, HandMade}
  BY DEF Content, MainTemplate, File
<1>5. MainConfig \in File /\ Content(MainConfig) = {Absent, DefaultText, HandMade}
  BY DEF Content, MainConfig, File, ServiceFiles
<1>6. ASSUME NEW g \in Group
      PROVE  /\ GroupTemplate(g) \in File /\ GroupConfig(g) \in File
             /\ Content(GroupTemplate(g)) = {Absent} \cup SUBSET Ip
             /\ Content(GroupConfig(g)) = {Absent} \cup SUBSET Ip
             /\ GroupTemplate(g) # MainTemplate /\ GroupConfig(g) # MainConfig
  <2>1. GroupTemplate(g) \in File /\ GroupConfig(g) \in File
    BY DEF File, ServiceFiles, GroupTemplates, GroupConfigs
  <2>2. Content(GroupTemplate(g)) = {Absent} \cup SUBSET Ip
    BY DEF Content, GroupTemplate
  <2>3. Content(GroupConfig(g)) = {Absent} \cup SUBSET Ip
    BY DEF Content, GroupConfig
  <2>4. GroupTemplate(g) # MainTemplate /\ GroupConfig(g) # MainConfig
    BY DEF GroupTemplate, GroupConfig, MainTemplate, MainConfig
  <2> QED
    BY <2>1, <2>2, <2>3, <2>4
<1>7. ASSUME NEW u \in User
      PROVE  UserConfig(u) \in File /\ Content(UserConfig(u)) = {Absent} \cup Ip \cup {HandMade}
  BY DEF Content, UserConfig, File, ServiceFiles, UserConfigs
<1> QED
  BY <1>1, <1>2, <1>3, <1>4, <1>5, <1>6, <1>7

\* Writing or removing one file.
LEMMA WriteTyped ==
  ASSUME NEW d, Disk(d), NEW f \in File, NEW v \in Content(f)
  PROVE  Disk([d EXCEPT ![f] = v])
  BY DEF Disk, PartialDisk

\* Snapshots and restores.
LEMMA SnapshotTyped ==
  ASSUME NEW d, Disk(d), NEW files \in SUBSET File
  PROVE  PartialDisk(Snapshot(d, files))
  BY DEF Disk, PartialDisk, Snapshot

LEMMA RestoredTyped ==
  ASSUME NEW d, Disk(d), NEW s, PartialDisk(s)
  PROVE  Disk(Restored(d, s))
  BY DEF Disk, PartialDisk, Restored

\* The loaders.
LEMMA StoredTyped ==
  ASSUME NEW d, Disk(d)
  PROVE  /\ StoredUsers(d) \in UserLines /\ StoredUsers(d) \in UserTable
         /\ Metadata(d) \in MapContent
<1>1. d[UsersFile] \in {Absent} \cup UserLines /\ d[UserGroupMapFile] \in {Absent} \cup MapContent
  BY ContentOf DEF Disk, PartialDisk
<1>2. [u \in User |-> NoUser] \in UserLines
  BY DEF UserLines, UserTable
<1>3. StoredUsers(d) \in UserLines
  BY <1>1, <1>2 DEF StoredUsers
<1> QED
  BY <1>1, <1>3 DEF Metadata, UserLines, MapContent, GroupMap, IpMap

LEMMA LineHasNoAddress ==
  ASSUME NEW T \in UserLines, ~JsonStore, NEW u \in User, T[u] # NoUser
  PROVE  T[u].ip = NoIp
  BY DEF UserLines

\* The table a record function edits can be written back as lines.
LEMMA EditedTyped ==
  ASSUME NEW d, Disk(d), NEW l, l.users \in UserTable
  PROVE  EditedUsers(d, l) \in UserLines
  BY StoredTyped DEF EditedUsers, UserLines

LEMMA LoadUserTyped ==
  ASSUME NEW d, Disk(d), NEW u \in User
  PROVE  LoadUser(d, u) \in UserRecord \cup {NoUser}
<1>1. CASE StoredUsers(d)[u] = NoUser
  BY <1>1 DEF LoadUser
<1>2. CASE StoredUsers(d)[u] # NoUser
  <2>1. StoredUsers(d)[u] \in UserRecord
    BY <1>2, StoredTyped DEF UserTable
  <2>2. Metadata(d).groups[u] \in Group \cup {NoGroup} /\ Metadata(d).ips[u] \in Ip \cup {NoIp}
    BY StoredTyped DEF MapContent, GroupMap, IpMap
  <2> QED
    BY <1>2, <2>1, <2>2 DEF LoadUser, UserRecord
<1> QED
  BY <1>1, <1>2

LEMMA LoadedTyped ==
  ASSUME NEW d, Disk(d)
  PROVE  /\ Loaded(d) \in [users : UserTable, groups : GroupMap, ips : IpMap]
         /\ \A u \in User : Loaded(d).users[u] = LoadUser(d, u)
<1>1. LoadUsers(d) \in UserTable
  BY LoadUserTyped DEF LoadUsers, UserTable
<1>2. LoadGroupMap(d) \in GroupMap
  <2>1. \A u \in User : LoadUser(d, u) # NoUser => LoadUser(d, u).group \in Group \cup {NoGroup}
    BY LoadUserTyped DEF UserRecord
  <2> QED
    BY <2>1, StoredTyped DEF LoadGroupMap, GroupMap, MapContent
<1>3. LoadIpMap(d) \in IpMap
  <2>1. \A u \in User : LoadUser(d, u) # NoUser => LoadUser(d, u).ip \in Ip \cup {NoIp}
    BY LoadUserTyped DEF UserRecord
  <2> QED
    BY <2>1, StoredTyped DEF LoadIpMap, IpMap, MapContent
<1> QED
  BY <1>1, <1>2, <1>3 DEF Loaded, LoadUsers

-----------------------------------------------------------------------------
\* The writes of a managed mutation.
LEMMA PlannedFilesAreFiles ==
  ASSUME NEW r, RequestOK(r), r.action \in ManagedAction
  PROVE  PlannedFiles(r) \in SUBSET File
  BY ContentOf DEF PlannedFiles, DataFiles, RenderedFiles, PlannedUserConfig, RequestOK, ManagedAction

LEMMA SyncedTyped ==
  ASSUME NEW d, Disk(d), NEW r, RequestOK(r)
  PROVE  Disk(Synced(d, r))
<1> DEFINE Text(f) == IF d[f] # Absent THEN d[f]
                      ELSE IF f = MainTemplate THEN DefaultText ELSE {}
<1>1. Text(MainTemplate) \in Content(MainTemplate) \cap Content(MainConfig)
  BY ContentOf DEF Disk, PartialDisk
<1>2. \A g \in Group : Text(GroupTemplate(g)) \in Content(GroupTemplate(g)) \cap Content(GroupConfig(g))
  BY ContentOf DEF Disk, PartialDisk
<1>3. ASSUME NEW f \in File PROVE Synced(d, r)[f] \in Content(f)
  <2>1. CASE f \notin RenderedFiles(r)
    BY <2>1 DEF Synced, Disk, PartialDisk
  <2>2. CASE f \in RenderedFiles(r) /\ f = MainConfig
    BY <2>2, <1>1 DEF Synced
  <2>3. CASE f \in RenderedFiles(r) /\ f = GroupConfig(r.group) /\ r.group \in Group
    BY <2>3, <1>2, ContentOf DEF Synced
  <2>4. CASE f = MainTemplate
    BY <2>4, <1>1, <2>1 DEF Synced, MainTemplate, MainConfig, GroupConfig
  <2>5. CASE f = GroupTemplate(r.group) /\ r.group \in Group
    BY <2>5, <1>2, <2>1 DEF Synced, GroupTemplate, MainConfig, GroupConfig
  <2> QED
    BY <2>1, <2>2, <2>3, <2>4, <2>5 DEF RenderedFiles, RequestOK
<1> QED
  BY <1>3 DEF Synced, Disk, PartialDisk

\* What LoadRecords hands to the writes: typed records, and the user unless it is created.
LoadedFor(l, r) ==
  /\ l \in [users : UserTable, groups : GroupMap, ips : IpMap]
  /\ r.action # "create_user" => l.users[r.user] # NoUser

LEMMA SavedTyped == ASSUME NEW users \in UserTable PROVE SavedUsers(users) \in UserLines
<1>1. CASE JsonStore
  BY <1>1 DEF SavedUsers, UserLines
<1>2. CASE ~JsonStore
  <2>1. ASSUME NEW u \in User, users[u] # NoUser
        PROVE  [users[u] EXCEPT !.ip = NoIp] \in UserRecord /\ [users[u] EXCEPT !.ip = NoIp].ip = NoIp
    <3>1. users[u] \in UserRecord
      BY <2>1 DEF UserTable
    <3> QED
      BY <3>1 DEF UserRecord
  <2>2. SavedUsers(users) = [u \in User |-> IF users[u] = NoUser THEN NoUser
                                            ELSE [users[u] EXCEPT !.ip = NoIp]]
    BY <1>2 DEF SavedUsers
  <2> QED
    BY <2>1, <2>2 DEF UserLines, UserTable
<1> QED
  BY <1>1, <1>2

\* disable_user on one user of the store.
LEMMA DisabledTyped ==
  ASSUME NEW users \in UserLines, NEW u \in User, users[u] # NoUser
  PROVE  [users EXCEPT ![u].disabled = TRUE] \in UserLines
<1> DEFINE record == [users[u] EXCEPT !.disabled = TRUE]
<1>1. users[u] \in UserRecord /\ users \in UserTable
  BY DEF UserLines, UserTable
<1>2. record \in UserRecord /\ record.ip = users[u].ip
  BY <1>1 DEF UserRecord
<1>3. [users EXCEPT ![u] = record] \in UserLines
  <2>1. [users EXCEPT ![u] = record] \in UserTable
    BY <1>1, <1>2 DEF UserTable
  <2>2. \A v \in User : [users EXCEPT ![u] = record][v] = IF v = u THEN record ELSE users[v]
    BY <1>1 DEF UserTable
  <2> HIDE DEF record
  <2> QED
    BY <1>2, <2>1, <2>2 DEF UserLines
<1> QED
  BY <1>3

LEMMA UsersAfterTyped ==
  ASSUME NEW d, Disk(d), NEW r, RequestOK(r), r.action \in ManagedAction,
         NEW l, LoadedFor(l, r),
         r.action \in {"disable_user", "delete_user"} => EditedUsers(d, l)[r.user] # NoUser
  PROVE  UsersAfter(d, l, r) \in UserLines
<1>1. EditedUsers(d, l) \in UserLines /\ r.user \in User
  BY EditedTyped DEF LoadedFor, RequestOK
<1>2. CASE r.action = "create_user"
  <2> DEFINE E == EditedUsers(d, l)
             line == [group |-> r.group, disabled |-> FALSE, ip |-> IF JsonStore THEN r.ip ELSE NoIp]
  <2>1. UsersAfter(d, l, r) = [E EXCEPT ![r.user] = line]
    BY <1>2 DEF UsersAfter
  <2>2. line \in UserRecord /\ (~JsonStore => line.ip = NoIp)
    BY DEF RequestOK, UserRecord
  <2> HIDE DEF E, line
  <2>3. [E EXCEPT ![r.user] = line] \in UserTable
    BY <1>1, <2>2 DEF UserLines, UserTable, E
  <2>4. \A u \in User : [E EXCEPT ![r.user] = line][u] = IF u = r.user THEN line ELSE E[u]
    BY <1>1 DEF UserLines, UserTable, E
  <2> QED
    BY <1>1, <2>1, <2>2, <2>3, <2>4 DEF UserLines, E
<1>3. CASE r.action = "disable_user"
  BY <1>1, <1>3, DisabledTyped DEF UsersAfter
<1>4. CASE r.action = "delete_user"
  BY <1>1, <1>4 DEF UsersAfter, UserLines, UserTable
<1>5. CASE r.action = "assign_group"
  <2>1. [l.users EXCEPT ![r.user].group = r.group] \in UserTable
    BY <1>1, <1>5 DEF LoadedFor, RequestOK, UserTable, UserRecord
  <2> QED
    BY <1>5, <2>1, SavedTyped DEF UsersAfter
<1>6. CASE r.action = "update_user_ip"
  <2>1. [l.users EXCEPT ![r.user].ip = r.ip] \in UserTable
    BY <1>1, <1>6 DEF LoadedFor, RequestOK, UserTable, UserRecord
  <2> QED
    BY <1>6, <2>1, SavedTyped DEF UsersAfter
<1> QED
  BY <1>2, <1>3, <1>4, <1>5, <1>6 DEF ManagedAction

LEMMA MapAfterTyped ==
  ASSUME NEW d, Disk(d), NEW r, RequestOK(r), r.action \in ManagedAction, NEW l, LoadedFor(l, r)
  PROVE  MapAfter(d, l, r) \in MapContent
<1>1. l.groups \in GroupMap /\ l.ips \in IpMap /\ Metadata(d).ips \in IpMap /\ r.user \in User
  BY StoredTyped DEF LoadedFor, MapContent, RequestOK
<1>2. MapAfter(d, l, r).groups \in GroupMap
  BY <1>1 DEF MapAfter, GroupMap, RequestOK
<1>3. MapAfter(d, l, r).ips \in IpMap
  BY <1>1 DEF MapAfter, IpMap, RequestOK
<1>4. MapAfter(d, l, r) \in MapContent
  BY <1>2, <1>3 DEF MapAfter, MapContent
<1> QED
  BY <1>4

LEMMA UserConfigAfterTyped ==
  ASSUME NEW d, NEW r, RequestOK(r), r.action \in ManagedAction, NEW l, LoadedFor(l, r)
  PROVE  UserConfigAfter(d, l, r) \in Content(UserConfig(r.user))
<1>1. r.user \in User /\ r.ip \in Ip \cup {NoIp}
  BY DEF RequestOK
<1>2. r.action = "assign_group" => l.users[r.user].ip \in Ip \cup {NoIp}
  BY <1>1 DEF LoadedFor, UserTable, UserRecord
<1> QED
  BY <1>1, <1>2, ContentOf DEF UserConfigAfter, ManagedAction
=============================================================================
