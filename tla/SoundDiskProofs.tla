--------------------------- MODULE SoundDiskProofs ---------------------------
(***************************************************************************)
(* Every completed change of the accounts or of the groups leaves a sound  *)
(* disk sound, whatever the store, the users, the groups and the pools.    *)
(***************************************************************************)
EXTENDS SoundDisk, OcservFilesProofs

-----------------------------------------------------------------------------
(***************************************************************************)
(* Loading what was stored.                                                *)
(***************************************************************************)
LEMMA FilesDistinct ==
  /\ UsersFile # UserGroupMapFile /\ GroupsFile # UsersFile /\ GroupsFile # UserGroupMapFile
  /\ \A g \in Group :
       /\ GroupTemplate(g) # UsersFile /\ GroupTemplate(g) # UserGroupMapFile
       /\ GroupTemplate(g) # GroupsFile
       /\ GroupConfig(g) # UsersFile /\ GroupConfig(g) # UserGroupMapFile
       /\ GroupConfig(g) # GroupsFile
  /\ \A g, h \in Group : /\ GroupTemplate(g) # GroupConfig(h)
                         /\ g # h => /\ GroupTemplate(g) # GroupTemplate(h)
                                     /\ GroupConfig(g) # GroupConfig(h)
  /\ \A u \in User, g \in Group :
       UserConfig(u) # GroupTemplate(g) /\ UserConfig(u) # GroupConfig(g)
  /\ \A u \in User : /\ UserConfig(u) # UsersFile /\ UserConfig(u) # UserGroupMapFile
                     /\ UserConfig(u) # GroupsFile
<1>1. UsersFile # UserGroupMapFile /\ GroupsFile # UsersFile /\ GroupsFile # UserGroupMapFile
  BY DEF UsersFile, UserGroupMapFile, GroupsFile
<1>2. ASSUME NEW g \in Group
      PROVE  /\ GroupTemplate(g) # UsersFile /\ GroupTemplate(g) # UserGroupMapFile
             /\ GroupTemplate(g) # GroupsFile
             /\ GroupConfig(g) # UsersFile /\ GroupConfig(g) # UserGroupMapFile
             /\ GroupConfig(g) # GroupsFile
  BY DEF UsersFile, UserGroupMapFile, GroupsFile, GroupTemplate, GroupConfig
<1>3. ASSUME NEW g \in Group, NEW h \in Group
      PROVE  /\ GroupTemplate(g) # GroupConfig(h)
             /\ g # h => GroupTemplate(g) # GroupTemplate(h) /\ GroupConfig(g) # GroupConfig(h)
  BY DEF GroupTemplate, GroupConfig
<1>4. ASSUME NEW u \in User, NEW g \in Group
      PROVE  UserConfig(u) # GroupTemplate(g) /\ UserConfig(u) # GroupConfig(g)
  BY DEF UserConfig, GroupTemplate, GroupConfig
<1>5. ASSUME NEW u \in User
      PROVE  /\ UserConfig(u) # UsersFile /\ UserConfig(u) # UserGroupMapFile
             /\ UserConfig(u) # GroupsFile
  BY DEF UserConfig, UsersFile, UserGroupMapFile, GroupsFile
<1> QED
  BY <1>1, <1>2, <1>3, <1>4, <1>5

LEMMA LoadUserFields ==
  ASSUME NEW d, Disk(d), NEW u \in User
  PROVE  /\ LoadUser(d, u) = NoUser <=> StoredUsers(d)[u] = NoUser
         /\ StoredUsers(d)[u] # NoUser =>
              LET s == StoredUsers(d)[u] IN
              /\ LoadUser(d, u).disabled = s.disabled
              /\ LoadUser(d, u).group = IF JsonStore /\ s.group = NoGroup
                                        THEN Metadata(d).groups[u] ELSE s.group
              /\ LoadUser(d, u).ip = IF s.ip = NoIp THEN Metadata(d).ips[u] ELSE s.ip
<1>1. CASE StoredUsers(d)[u] = NoUser
  BY <1>1 DEF LoadUser
<1>2. CASE StoredUsers(d)[u] # NoUser
  <2>1. StoredUsers(d)[u] \in UserRecord
    BY <1>2, StoredTyped DEF UserTable
  <2>2. LoadUser(d, u) = [StoredUsers(d)[u] EXCEPT
          !.group = IF JsonStore /\ @ = NoGroup THEN Metadata(d).groups[u] ELSE @,
          !.ip    = IF @ = NoIp THEN Metadata(d).ips[u] ELSE @]
    BY <1>2 DEF LoadUser
  <2>3. LoadUser(d, u).group = IF JsonStore /\ StoredUsers(d)[u].group = NoGroup
                               THEN Metadata(d).groups[u] ELSE StoredUsers(d)[u].group
    BY <2>1, <2>2 DEF UserRecord
  <2>4. LoadUser(d, u).ip = IF StoredUsers(d)[u].ip = NoIp
                            THEN Metadata(d).ips[u] ELSE StoredUsers(d)[u].ip
    BY <2>1, <2>2 DEF UserRecord
  <2>5. LoadUser(d, u).disabled = StoredUsers(d)[u].disabled
    BY <2>1, <2>2 DEF UserRecord
  <2>6. LoadUser(d, u) # NoUser
    <3>1. LoadUser(d, u) \in UserRecord
      <4>1. Metadata(d).groups[u] \in Group \cup {NoGroup} /\ Metadata(d).ips[u] \in Ip \cup {NoIp}
        BY StoredTyped DEF MapContent, GroupMap, IpMap
      <4> QED
        BY <2>1, <2>2, <4>1 DEF UserRecord
    <3> QED
      BY <3>1, AtomsDistinct DEF UserRecord
  <2> QED
    BY <1>2, <2>3, <2>4, <2>5, <2>6
<1> QED
  BY <1>1, <1>2

LEMMA RecordsEqual ==
  ASSUME NEW r \in UserRecord, NEW s \in UserRecord,
         r.group = s.group, r.disabled = s.disabled, r.ip = s.ip
  PROVE  r = s
  BY DEF UserRecord

\* One line of the users file, with what the map says of its user, gives the record t.
RowStores(s, group, ip, t) ==
  /\ t = NoUser <=> s = NoUser
  /\ t # NoUser =>
       /\ s.disabled = t.disabled
       /\ s.group = t.group \/ (JsonStore /\ s.group = NoGroup /\ group = t.group)
       /\ s.ip = t.ip \/ (s.ip = NoIp /\ ip = t.ip)
       /\ ~JsonStore => s.ip = NoIp
GroupsAgree(m, T) == \/ \A u \in User : m.groups[u] = NoGroup
                     \/ \A u \in User : m.groups[u] = GroupIn(T, u)
IpsAgree(m, T) == \/ \A u \in User : m.ips[u] = NoIp
                  \/ \A u \in User : m.ips[u] = IpIn(T, u)

\* A disk stores a table: its users file and its map together say what T says.
Stores(d, T) ==
  /\ \A u \in User :
       RowStores(StoredUsers(d)[u], Metadata(d).groups[u], Metadata(d).ips[u], T[u])
  /\ GroupsAgree(Metadata(d), T) /\ IpsAgree(Metadata(d), T)

LEMMA RowsStored ==
  ASSUME NEW d, Disk(d), NEW u \in User
  PROVE  RowStores(StoredUsers(d)[u], Metadata(d).groups[u], Metadata(d).ips[u], LoadUsers(d)[u])
<1>1. LoadUsers(d)[u] = LoadUser(d, u)
  BY DEF LoadUsers
<1> QED
  BY <1>1, LoadUserFields, StoredTyped, LineHasNoAddress DEF RowStores

LEMMA SoundStores ==
  ASSUME NEW d, Disk(d), MapAgrees(d)
  PROVE  Stores(d, LoadUsers(d))
  BY RowsStored DEF Stores, MapAgrees, GroupsAgree, IpsAgree

\* What a disk stores is what every loader returns.
LEMMA ReadBack ==
  ASSUME NEW d, Disk(d), NEW T \in UserTable, Stores(d, T)
  PROVE  /\ LoadUsers(d) = T
         /\ \A u \in User : /\ LoadUser(d, u) = T[u]
                            /\ LoadGroupMap(d)[u] = GroupIn(T, u)
                            /\ LoadIpMap(d)[u] = IpIn(T, u)
         /\ MapAgrees(d)
<1>1. ASSUME NEW u \in User PROVE LoadUser(d, u) = T[u]
  <2>1. CASE T[u] = NoUser
    BY <2>1, LoadUserFields DEF Stores, RowStores
  <2>2. CASE T[u] # NoUser
    <3>1. T[u] \in UserRecord /\ LoadUser(d, u) \in UserRecord
      BY <2>2, LoadUserTyped, LoadUserFields DEF Stores, RowStores, UserTable
    <3>2. /\ Metadata(d).groups[u] = NoGroup \/ Metadata(d).groups[u] = T[u].group
          /\ Metadata(d).ips[u] = NoIp \/ Metadata(d).ips[u] = T[u].ip
      BY <2>2 DEF Stores, GroupsAgree, IpsAgree, GroupIn, IpIn
    <3>3. LoadUser(d, u).disabled = T[u].disabled
      BY <2>2, LoadUserFields DEF Stores, RowStores
    <3>4. LoadUser(d, u).group = T[u].group
      BY <2>2, <3>2, LoadUserFields DEF Stores, RowStores
    <3>5. LoadUser(d, u).ip = T[u].ip
      BY <2>2, <3>2, LoadUserFields DEF Stores, RowStores
    <3> QED
      BY <3>1, <3>3, <3>4, <3>5, RecordsEqual
  <2> QED
    BY <2>1, <2>2
<1>2. LoadUsers(d) = T
  BY <1>1 DEF LoadUsers, UserTable
<1>3. ASSUME NEW u \in User PROVE LoadGroupMap(d)[u] = GroupIn(T, u)
  BY <1>1 DEF Stores, GroupsAgree, LoadGroupMap, GroupIn
<1>4. ASSUME NEW u \in User PROVE LoadIpMap(d)[u] = IpIn(T, u)
  BY <1>1 DEF Stores, IpsAgree, LoadIpMap, IpIn
<1>5. MapAgrees(d)
  BY <1>2 DEF Stores, GroupsAgree, IpsAgree, MapAgrees
<1> QED
  BY <1>1, <1>2, <1>3, <1>4, <1>5

\* The stores of a sound disk agree on every user.
LEMMA SoundReads ==
  ASSUME NEW d, Disk(d), Sound(d)
  PROVE  /\ Stores(d, LoadUsers(d)) /\ LoadUsers(d) \in UserTable
         /\ \A u \in User : /\ LoadUsers(d)[u] = LoadUser(d, u)
                            /\ LoadGroupMap(d)[u] = GroupIn(LoadUsers(d), u)
                            /\ LoadIpMap(d)[u] = IpIn(LoadUsers(d), u)
<1>1. Stores(d, LoadUsers(d))
  BY SoundStores DEF Sound
<1>2. LoadUsers(d) \in UserTable
  BY LoadedTyped DEF Loaded
<1> QED
  BY <1>1, <1>2, ReadBack DEF LoadUsers

-----------------------------------------------------------------------------
(***************************************************************************)
(* What a managed mutation does to the table of accounts.                  *)
(***************************************************************************)
NextRecord(t, r) ==
  CASE r.action = "create_user"    -> [group |-> r.group, disabled |-> FALSE, ip |-> r.ip]
    [] r.action = "assign_group"   -> [t EXCEPT !.group = r.group]
    [] r.action = "update_user_ip" -> [t EXCEPT !.ip = r.ip]
    [] r.action = "disable_user"   -> [t EXCEPT !.disabled = TRUE]
    [] r.action = "delete_user"    -> NoUser
NextTable(T, r) == [T EXCEPT ![r.user] = NextRecord(@, r)]

\* A request with a record it can be carried out on.
Applies(t, r) == /\ RequestOK(r) /\ r.action \in ManagedAction
                 /\ t \in UserRecord \cup {NoUser}
                 /\ r.action # "create_user" => t # NoUser

LEMMA NextRecordFields ==
  ASSUME NEW t, NEW r, Applies(t, r)
  PROVE  LET n == NextRecord(t, r) IN
         /\ n \in UserRecord \cup {NoUser}
         /\ n = NoUser <=> r.action = "delete_user"
         /\ r.action # "delete_user" =>
              /\ n.group = IF r.action \in {"create_user", "assign_group"} THEN r.group ELSE t.group
              /\ n.ip = IF r.action \in {"create_user", "update_user_ip"} THEN r.ip ELSE t.ip
              /\ n.disabled = IF r.action = "create_user" THEN FALSE
                              ELSE IF r.action = "disable_user" THEN TRUE ELSE t.disabled
<1>0. \A x \in UserRecord : x # NoUser
  BY AtomsDistinct DEF UserRecord
<1>1. CASE r.action = "create_user"
  BY <1>0, <1>1 DEF Applies, RequestOK, NextRecord, UserRecord
<1>2. CASE r.action = "assign_group"
  <2>1. NextRecord(t, r) = [t EXCEPT !.group = r.group] /\ t \in UserRecord /\ r.group \in Group
    BY <1>2 DEF Applies, RequestOK, NextRecord
  <2>2. /\ NextRecord(t, r) \in UserRecord /\ NextRecord(t, r).group = r.group
        /\ NextRecord(t, r).ip = t.ip /\ NextRecord(t, r).disabled = t.disabled
    BY <2>1 DEF UserRecord
  <2> QED
    BY <1>0, <1>2, <2>2
<1>3. CASE r.action = "update_user_ip"
  <2>1. NextRecord(t, r) = [t EXCEPT !.ip = r.ip] /\ t \in UserRecord /\ r.ip \in Ip
    BY <1>3 DEF Applies, RequestOK, NextRecord
  <2>2. /\ NextRecord(t, r) \in UserRecord /\ NextRecord(t, r).group = t.group
        /\ NextRecord(t, r).ip = r.ip /\ NextRecord(t, r).disabled = t.disabled
    BY <2>1 DEF UserRecord
  <2> QED
    BY <1>0, <1>3, <2>2
<1>4. CASE r.action = "disable_user"
  <2>1. NextRecord(t, r) = [t EXCEPT !.disabled = TRUE] /\ t \in UserRecord
    BY <1>4 DEF Applies, NextRecord
  <2>2. /\ NextRecord(t, r) \in UserRecord /\ NextRecord(t, r).group = t.group
        /\ NextRecord(t, r).ip = t.ip /\ NextRecord(t, r).disabled = TRUE
    BY <2>1 DEF UserRecord
  <2> QED
    BY <1>0, <1>4, <2>2
<1>5. CASE r.action = "delete_user"
  BY <1>5 DEF NextRecord
<1> QED
  BY <1>1, <1>2, <1>3, <1>4, <1>5 DEF Applies, ManagedAction

\* The line the users file holds for the target once it is written, t being its record
\* and s its line before.
NextLine(s, t, r) ==
  LET n == NextRecord(t, r) IN
  CASE r.action = "delete_user" -> NoUser
    [] r.action = "update_user_ip" /\ ~JsonStore -> s
    [] r.action = "disable_user" /\ ~JsonStore -> [s EXCEPT !.disabled = TRUE]
    [] OTHER -> [n EXCEPT !.ip = IF JsonStore THEN @ ELSE NoIp]

LEMMA NextLineFields ==
  ASSUME NEW s, NEW t, NEW r, NEW group, NEW ip, Applies(t, r),
         s \in UserRecord \cup {NoUser}, RowStores(s, group, ip, t)
  PROVE  LET l == NextLine(s, t, r) n == NextRecord(t, r) IN
         /\ l = NoUser <=> n = NoUser
         /\ n # NoUser => /\ l.disabled = n.disabled /\ l.group = n.group
                          /\ l.ip = IF JsonStore THEN n.ip ELSE NoIp
<1>0. \A x \in UserRecord : x # NoUser
  BY AtomsDistinct DEF UserRecord
<1>1. CASE r.action = "delete_user"
  BY <1>1, NextRecordFields DEF NextLine
<1>2. CASE r.action = "update_user_ip" /\ ~JsonStore
  <2>1. NextLine(s, t, r) = s /\ t # NoUser
    BY <1>2 DEF NextLine, Applies
  <2>2. NextRecord(t, r) # NoUser /\ NextRecord(t, r).group = t.group
        /\ NextRecord(t, r).disabled = t.disabled
    BY <1>2, NextRecordFields
  <2>3. s # NoUser /\ s.disabled = t.disabled /\ s.group = t.group /\ s.ip = NoIp
    BY <1>2, <2>1 DEF RowStores
  <2> QED
    BY <1>2, <2>1, <2>2, <2>3
<1>3. CASE r.action = "disable_user" /\ ~JsonStore
  <2>1. NextLine(s, t, r) = [s EXCEPT !.disabled = TRUE] /\ s \in UserRecord /\ t # NoUser
    BY <1>3 DEF NextLine, RowStores, Applies
  <2>2. /\ NextLine(s, t, r) \in UserRecord /\ NextLine(s, t, r).group = s.group
        /\ NextLine(s, t, r).ip = s.ip /\ NextLine(s, t, r).disabled = TRUE
    BY <2>1 DEF UserRecord
  <2> QED
    BY <1>0, <1>3, <2>1, <2>2, NextRecordFields DEF RowStores
<1>4. CASE r.action # "delete_user" /\ ~(r.action \in {"update_user_ip", "disable_user"} /\ ~JsonStore)
  <2> DEFINE n == NextRecord(t, r)
  <2>1. NextLine(s, t, r) = [n EXCEPT !.ip = IF JsonStore THEN @ ELSE NoIp]
    BY <1>4 DEF NextLine
  <2>2. n \in UserRecord
    BY <1>4, NextRecordFields
  <2> HIDE DEF n
  <2>3. /\ NextLine(s, t, r) \in UserRecord /\ NextLine(s, t, r).group = n.group
        /\ NextLine(s, t, r).ip = IF JsonStore THEN n.ip ELSE NoIp
        /\ NextLine(s, t, r).disabled = n.disabled
    BY <2>1, <2>2 DEF UserRecord
  <2> QED
    BY <1>0, <2>2, <2>3 DEF n
<1> QED
  BY <1>1, <1>2, <1>3, <1>4

LEMMA NextTableTyped ==
  ASSUME NEW T \in UserTable, NEW r, Applies(T[r.user], r)
  PROVE  NextTable(T, r) \in UserTable
BY NextRecordFields DEF NextTable, UserTable, Applies

\* The record functions accepted the request, and did so on a disk whose stores agree.
Taken(d, r) ==
  /\ Disk(d) /\ RequestOK(r) /\ r.action \in ManagedAction
  /\ RecordAccepted(d, Loaded(d), r)
Accepted(d, r) == Taken(d, r) /\ MapAgrees(d)

LEMMA AcceptedApplies ==
  ASSUME NEW d, NEW r, Taken(d, r)
  PROVE  /\ r.user \in User /\ LoadUsers(d) \in UserTable
         /\ Applies(LoadUsers(d)[r.user], r)
         /\ r.action = "create_user" => LoadUsers(d)[r.user] = NoUser
         /\ LoadedFor(Loaded(d), r)
<1>1. r.user \in User
  BY DEF Accepted, Taken, RequestOK
<1>2. LoadUsers(d) \in UserTable /\ Loaded(d).users = LoadUsers(d)
  BY LoadedTyped DEF Accepted, Taken, Loaded
<1>3. r.action # "create_user" => LoadUsers(d)[r.user] # NoUser
  BY <1>2 DEF Accepted, Taken, RecordAccepted, ManagedAction
<1>4. r.action = "create_user" => LoadUsers(d)[r.user] = NoUser
  BY <1>2 DEF Accepted, Taken, RecordAccepted
<1>5. LoadUsers(d)[r.user] \in UserRecord \cup {NoUser}
  BY <1>1, <1>2 DEF UserTable
<1> QED
  BY <1>1, <1>2, <1>3, <1>4, <1>5, LoadedTyped DEF Applies, Accepted, Taken, LoadedFor

\* The users file after the write: the line of the target is the new one, and every other
\* line says what it said (a JSON store takes over what was merged from the map).
LEMMA WrittenLines ==
  ASSUME NEW d, NEW r, Taken(d, r),
         NEW U, U = IF WritesUsers(r) THEN UsersAfter(d, Loaded(d), r) ELSE StoredUsers(d)
  PROVE  /\ U \in UserLines
         /\ U[r.user] = NextLine(StoredUsers(d)[r.user], LoadUsers(d)[r.user], r)
         /\ \A v \in User \ {r.user} :
              U[v] = IF JsonStore THEN LoadUsers(d)[v] ELSE StoredUsers(d)[v]
<1> DEFINE S == StoredUsers(d)  T == LoadUsers(d)
           E == IF JsonStore THEN T ELSE S
           u == r.user
<1>1. /\ u \in User /\ T \in UserTable /\ S \in UserTable /\ E \in UserTable /\ S \in UserLines
      /\ Applies(T[u], r) /\ LoadedFor(Loaded(d), r)
  BY AcceptedApplies, StoredTyped DEF Accepted, Taken
<1>2. Loaded(d).users = T /\ EditedUsers(d, Loaded(d)) = E
  BY DEF Loaded, EditedUsers
<1>3. \A v \in User : RowStores(S[v], Metadata(d).groups[v], Metadata(d).ips[v], T[v])
  BY RowsStored DEF Taken
<1>4. E[u] = NoUser <=> T[u] = NoUser
  BY <1>1, <1>3 DEF RowStores
<1>5. U \in UserLines
  <2>1. r.action \in {"disable_user", "delete_user"} => EditedUsers(d, Loaded(d))[r.user] # NoUser
    BY <1>1, <1>2, <1>4 DEF Applies
  <2> QED
    BY <1>1, <1>2, <2>1, UsersAfterTyped DEF Accepted, Taken
<1>6. ~JsonStore => \A v \in User : T[v] # NoUser => [T[v] EXCEPT !.ip = NoIp] = S[v]
  <2> SUFFICES ASSUME ~JsonStore, NEW v \in User, T[v] # NoUser
               PROVE  [T[v] EXCEPT !.ip = NoIp] = S[v]
    OBVIOUS
  <2>1. /\ S[v] # NoUser /\ S[v].disabled = T[v].disabled /\ S[v].group = T[v].group
        /\ S[v].ip = NoIp
    BY <1>3 DEF RowStores
  <2>2. T[v] \in UserRecord /\ S[v] \in UserRecord
    BY <1>1, <2>1 DEF UserTable
  <2> HIDE DEF T, S
  <2> QED
    BY <2>1, <2>2 DEF UserRecord
<1>7. ASSUME NEW v \in User \ {u} PROVE U[v] = E[v]
  <2>1. CASE r.action = "create_user"
    BY <1>1, <1>2, <2>1 DEF UsersAfter, WritesUsers, UserTable
  <2>2. CASE r.action = "disable_user"
    BY <1>1, <1>2, <2>2 DEF UsersAfter, WritesUsers, UserTable
  <2>3. CASE r.action = "delete_user"
    BY <1>1, <1>2, <2>3 DEF UsersAfter, WritesUsers, UserTable
  <2>4. CASE r.action = "assign_group"
    <3>1. U = SavedUsers([T EXCEPT ![u].group = r.group])
      BY <1>2, <2>4 DEF UsersAfter, WritesUsers
    <3>2. [T EXCEPT ![u].group = r.group][v] = T[v]
      BY <1>1 DEF UserTable
    <3>3. ~JsonStore => (T[v] = NoUser => S[v] = NoUser)
      BY <1>3 DEF RowStores
    <3> HIDE DEF T, S
    <3>4. CASE JsonStore
      BY <3>1, <3>2, <3>4 DEF SavedUsers
    <3>5. CASE ~JsonStore
      BY <1>6, <3>1, <3>2, <3>3, <3>5 DEF SavedUsers
    <3> QED
      BY <3>4, <3>5
  <2>5. CASE r.action = "update_user_ip"
    <3>1. CASE JsonStore
      <4>1. U = [T EXCEPT ![u].ip = r.ip]
        BY <1>2, <2>5, <3>1 DEF UsersAfter, WritesUsers, SavedUsers
      <4> QED
        BY <1>1, <3>1, <4>1 DEF UserTable
    <3>2. CASE ~JsonStore
      BY <2>5, <3>2 DEF WritesUsers
    <3> QED
      BY <3>1, <3>2
  <2> QED
    BY <2>1, <2>2, <2>3, <2>4, <2>5 DEF Accepted, Taken, ManagedAction
<1>8. U[u] = NextLine(S[u], T[u], r)
  <2>0. T[u] # NoUser => T[u] \in UserRecord
    BY <1>1 DEF UserTable
  <2>1. CASE r.action = "create_user"
    <3>1. U[u] = [group |-> r.group, disabled |-> FALSE, ip |-> IF JsonStore THEN r.ip ELSE NoIp]
      BY <1>1, <1>2, <2>1 DEF UsersAfter, WritesUsers, UserTable
    <3>2. NextLine(S[u], T[u], r)
            = [[group |-> r.group, disabled |-> FALSE, ip |-> r.ip]
                 EXCEPT !.ip = IF JsonStore THEN @ ELSE NoIp]
      BY <2>1 DEF NextLine, NextRecord
    <3> QED
      BY <3>1, <3>2
  <2>2. CASE r.action = "disable_user"
    <3>1. U = [E EXCEPT ![u].disabled = TRUE]
      BY <1>2, <2>2 DEF UsersAfter, WritesUsers
    <3>2. U[u] = [E[u] EXCEPT !.disabled = TRUE]
      BY <1>1, <3>1 DEF UserTable
    <3>3. CASE ~JsonStore
      BY <2>2, <3>2, <3>3 DEF NextLine
    <3>4. CASE JsonStore
      <4>1. NextLine(S[u], T[u], r) = [[T[u] EXCEPT !.disabled = TRUE] EXCEPT !.ip = @]
        BY <2>2, <3>4 DEF NextLine, NextRecord
      <4>2. T[u] \in UserRecord
        BY <1>1, <2>0, <2>2 DEF Applies
      <4> HIDE DEF T, S
      <4> QED
        BY <3>2, <3>4, <4>1, <4>2 DEF UserRecord
    <3> QED
      BY <3>3, <3>4
  <2>3. CASE r.action = "delete_user"
    BY <1>1, <1>2, <2>3 DEF UsersAfter, WritesUsers, UserTable, NextLine
  <2>4. CASE r.action = "assign_group"
    <3>1. U = SavedUsers([T EXCEPT ![u].group = r.group])
      BY <1>2, <2>4 DEF UsersAfter, WritesUsers
    <3>2. [T EXCEPT ![u].group = r.group][u] = NextRecord(T[u], r)
      BY <1>1, <2>4 DEF UserTable, NextRecord
    <3>3. NextRecord(T[u], r) \in UserRecord /\ NextRecord(T[u], r) # NoUser
      BY <1>1, <2>4, NextRecordFields
    <3>4. NextLine(S[u], T[u], r)
            = [NextRecord(T[u], r) EXCEPT !.ip = IF JsonStore THEN @ ELSE NoIp]
      BY <2>4 DEF NextLine
    <3> HIDE DEF T, S
    <3>5. CASE JsonStore
      BY <3>1, <3>2, <3>3, <3>4, <3>5 DEF SavedUsers, UserRecord
    <3>6. CASE ~JsonStore
      BY <1>1, <3>1, <3>2, <3>3, <3>4, <3>6 DEF SavedUsers
    <3> QED
      BY <3>5, <3>6
  <2>5. CASE r.action = "update_user_ip"
    <3>1. CASE JsonStore
      <4>1. U = [T EXCEPT ![u].ip = r.ip]
        BY <1>2, <2>5, <3>1 DEF UsersAfter, WritesUsers, SavedUsers
      <4>2. U[u] = [T[u] EXCEPT !.ip = r.ip]
        BY <1>1, <4>1 DEF UserTable
      <4>3. NextLine(S[u], T[u], r) = [[T[u] EXCEPT !.ip = r.ip] EXCEPT !.ip = @]
        BY <2>5, <3>1 DEF NextLine, NextRecord
      <4>4. T[u] \in UserRecord
        BY <1>1, <2>0, <2>5 DEF Applies
      <4> HIDE DEF T, S
      <4> QED
        BY <4>2, <4>3, <4>4 DEF UserRecord
    <3>2. CASE ~JsonStore
      BY <2>5, <3>2 DEF WritesUsers, NextLine
    <3> QED
      BY <3>1, <3>2
  <2> QED
    BY <2>1, <2>2, <2>3, <2>4, <2>5 DEF Accepted, Taken, ManagedAction
<1> QED
  BY <1>5, <1>7, <1>8

\* The map after the write: a section that is written says what the new table says, and
\* one that is kept is not about anything that changed.
LEMMA WrittenMap ==
  ASSUME NEW d, NEW r, Accepted(d, r), NEW e, Metadata(e) = Metadata(d),
         NEW m, m = IF WritesMap(r) THEN MapAfter(e, Loaded(d), r) ELSE Metadata(d)
  PROVE  LET T == LoadUsers(d)  N == NextTable(T, r) IN
         /\ m \in MapContent
         /\ \/ \A v \in User : m.groups[v] = GroupIn(N, v)
            \/ \A v \in User : m.groups[v] = Metadata(d).groups[v] /\ GroupIn(N, v) = GroupIn(T, v)
         /\ \/ \A v \in User : m.ips[v] = IpIn(N, v)
            \/ \A v \in User : m.ips[v] = Metadata(d).ips[v] /\ IpIn(N, v) = IpIn(T, v)
<1> DEFINE T == LoadUsers(d)  N == NextTable(T, r)  u == r.user  l == Loaded(d)
<1>1. /\ u \in User /\ T \in UserTable /\ Applies(T[u], r) /\ LoadedFor(l, r)
      /\ r.action = "create_user" => T[u] = NoUser
      /\ Metadata(d) \in MapContent
  BY AcceptedApplies, StoredTyped DEF Accepted, Taken
<1>2. /\ l.groups \in GroupMap /\ l.ips \in IpMap
      /\ \A v \in User : l.groups[v] = GroupIn(T, v) /\ l.ips[v] = IpIn(T, v)
  BY <1>1, SoundStores, ReadBack DEF Accepted, Taken, Loaded, LoadedFor
<1>3. /\ N[u] = NextRecord(T[u], r)
      /\ \A v \in User \ {u} : N[v] = T[v]
  BY <1>1 DEF NextTable, UserTable
<1>4. \A v \in User \ {u} : GroupIn(N, v) = GroupIn(T, v) /\ IpIn(N, v) = IpIn(T, v)
  BY <1>3 DEF GroupIn, IpIn
<1>5. /\ r.action = "delete_user" => GroupIn(N, u) = NoGroup /\ IpIn(N, u) = NoIp
      /\ r.action = "create_user" => /\ GroupIn(N, u) = r.group /\ IpIn(N, u) = r.ip
                                     /\ GroupIn(T, u) = NoGroup /\ IpIn(T, u) = NoIp
      /\ r.action = "assign_group" => /\ GroupIn(N, u) = r.group /\ r.group \in Group
                                      /\ IpIn(N, u) = IpIn(T, u)
      /\ r.action = "update_user_ip" => /\ GroupIn(N, u) = GroupIn(T, u)
                                        /\ IpIn(N, u) = r.ip /\ r.ip \in Ip
      /\ r.action = "disable_user" => /\ GroupIn(N, u) = GroupIn(T, u)
                                      /\ IpIn(N, u) = IpIn(T, u)
  <2> DEFINE t == T[u]  n == NextRecord(t, r)
  <2>1. /\ n = NoUser <=> r.action = "delete_user"
        /\ r.action # "delete_user" =>
             /\ n.group = IF r.action \in {"create_user", "assign_group"} THEN r.group ELSE t.group
             /\ n.ip = IF r.action \in {"create_user", "update_user_ip"} THEN r.ip ELSE t.ip
    BY <1>1, NextRecordFields
  <2>2. /\ r.action # "create_user" => t # NoUser
        /\ r.action = "assign_group" => r.group \in Group
        /\ r.action = "update_user_ip" => r.ip \in Ip
    BY <1>1 DEF Applies, RequestOK
  <2>3. GroupIn(N, u) = (IF n = NoUser THEN NoGroup ELSE n.group) /\ IpIn(N, u) = (IF n = NoUser THEN NoIp ELSE n.ip)
    BY <1>3 DEF GroupIn, IpIn
  <2>4. GroupIn(T, u) = (IF t = NoUser THEN NoGroup ELSE t.group) /\ IpIn(T, u) = (IF t = NoUser THEN NoIp ELSE t.ip)
    BY DEF GroupIn, IpIn
  <2> HIDE DEF T, N, t, n
  <2> QED
    BY <1>1, <2>1, <2>2, <2>3, <2>4 DEF t
<1> HIDE DEF T, N
<1>6. m \in MapContent
  <2>1. Disk(d) /\ RequestOK(r) /\ r.action \in ManagedAction
    BY DEF Accepted, Taken
  <2>2. MapAfter(e, l, r) = MapAfter(d, l, r)
    BY DEF MapAfter
  <2> QED
    BY <1>1, <2>1, <2>2, MapAfterTyped
<1>7. CASE r.action = "disable_user"
  BY <1>4, <1>5, <1>6, <1>7 DEF WritesMap, T, N
<1>8. CASE r.action # "disable_user"
  <2>1. m = MapAfter(e, l, r) /\ r.action \in ManagedAction \ {"disable_user"}
    BY <1>8 DEF WritesMap, Accepted, Taken
  <2>2. \A v \in User : m.groups[v] = GroupIn(N, v)
    <3>1. CASE r.action = "delete_user"
      BY <1>1, <1>2, <1>4, <1>5, <2>1, <3>1 DEF MapAfter, GroupMap
    <3>2. CASE r.action \in {"create_user", "assign_group"}
      <4>1. m.groups = IF r.group = NoGroup THEN l.groups ELSE [l.groups EXCEPT ![u] = r.group]
        BY <2>1, <3>2 DEF MapAfter
      <4> QED
        BY <1>1, <1>2, <1>4, <1>5, <3>2, <4>1, AtomsDistinct DEF GroupMap
    <3>3. CASE r.action = "update_user_ip"
      BY <1>1, <1>2, <1>4, <1>5, <2>1, <3>3 DEF MapAfter, GroupMap
    <3> QED
      BY <2>1, <3>1, <3>2, <3>3 DEF ManagedAction
  <2>3. CASE r.action = "assign_group"
    <3>1. m.ips = Metadata(d).ips
      BY <2>1, <2>3 DEF MapAfter
    <3> QED
      BY <1>4, <1>5, <1>6, <2>2, <2>3, <3>1 DEF T, N
  <2>4. CASE r.action # "assign_group"
    <3>1. \A v \in User : m.ips[v] = IpIn(N, v)
      <4>1. CASE r.action = "delete_user"
        BY <1>1, <1>2, <1>4, <1>5, <2>1, <4>1 DEF MapAfter, IpMap
      <4>2. CASE r.action \in {"create_user", "update_user_ip"}
        <5>1. m.ips = IF r.ip = NoIp THEN l.ips ELSE [l.ips EXCEPT ![u] = r.ip]
          BY <2>1, <4>2 DEF MapAfter
        <5> QED
          BY <1>1, <1>2, <1>4, <1>5, <4>2, <5>1, AtomsDistinct DEF IpMap
      <4> QED
        BY <2>1, <2>4, <4>1, <4>2 DEF ManagedAction
    <3> QED
      BY <1>6, <2>2, <3>1 DEF T, N
  <2> QED
    BY <2>3, <2>4
<1> QED
  BY <1>6, <1>7, <1>8 DEF T, N

\* A disk with the written users file and the written map stores the new table.
LEMMA WritesStore ==
  ASSUME NEW d, NEW r, Accepted(d, r), NEW e, Disk(e), NEW x, Metadata(x) = Metadata(d),
         StoredUsers(e) = IF WritesUsers(r) THEN UsersAfter(d, Loaded(d), r) ELSE StoredUsers(d),
         Metadata(e) = IF WritesMap(r) THEN MapAfter(x, Loaded(d), r) ELSE Metadata(d)
  PROVE  Stores(e, NextTable(LoadUsers(d), r))
<1> DEFINE T == LoadUsers(d)  N == NextTable(T, r)  u == r.user  S == StoredUsers(d)
           m == Metadata(d)  U == StoredUsers(e)  k == Metadata(e)
<1>1. /\ u \in User /\ T \in UserTable /\ Applies(T[u], r) /\ S \in UserTable
  BY AcceptedApplies, StoredTyped DEF Accepted, Taken
<1>2. /\ \A v \in User : RowStores(S[v], m.groups[v], m.ips[v], T[v])
      /\ GroupsAgree(m, T) /\ IpsAgree(m, T)
  BY SoundStores DEF Accepted, Taken, Stores
<1>3. /\ U[u] = NextLine(S[u], T[u], r)
      /\ \A v \in User \ {u} : U[v] = IF JsonStore THEN T[v] ELSE S[v]
  BY WrittenLines DEF Accepted
<1>4. /\ \/ \A v \in User : k.groups[v] = GroupIn(N, v)
         \/ \A v \in User : k.groups[v] = m.groups[v] /\ GroupIn(N, v) = GroupIn(T, v)
      /\ \/ \A v \in User : k.ips[v] = IpIn(N, v)
         \/ \A v \in User : k.ips[v] = m.ips[v] /\ IpIn(N, v) = IpIn(T, v)
  BY WrittenMap
<1>5. N[u] = NextRecord(T[u], r) /\ \A v \in User \ {u} : N[v] = T[v]
  BY <1>1 DEF NextTable, UserTable
<1> HIDE DEF T, N, S, m, U, k
<1>6. GroupsAgree(k, N) /\ IpsAgree(k, N)
  BY <1>2, <1>4 DEF GroupsAgree, IpsAgree
<1>7. ASSUME NEW v \in User \ {u} PROVE RowStores(U[v], k.groups[v], k.ips[v], N[v])
  <2>1. /\ RowStores(S[v], m.groups[v], m.ips[v], T[v]) /\ N[v] = T[v]
        /\ U[v] = IF JsonStore THEN T[v] ELSE S[v]
    BY <1>2, <1>3, <1>5
  <2>2. /\ k.groups[v] = GroupIn(N, v) \/ k.groups[v] = m.groups[v]
        /\ k.ips[v] = IpIn(N, v) \/ k.ips[v] = m.ips[v]
    BY <1>4
  <2> QED
    BY <2>1, <2>2 DEF RowStores, GroupIn, IpIn
<1>8. RowStores(U[u], k.groups[u], k.ips[u], N[u])
  <2>1. RowStores(S[u], m.groups[u], m.ips[u], T[u])
    BY <1>1, <1>2
  <2>2. /\ U[u] = NoUser <=> N[u] = NoUser
        /\ N[u] # NoUser => /\ U[u].disabled = N[u].disabled /\ U[u].group = N[u].group
                            /\ U[u].ip = IF JsonStore THEN N[u].ip ELSE NoIp
    <3>1. S[u] \in UserRecord \cup {NoUser}
      BY <1>1 DEF UserTable
    <3> QED
      BY <1>1, <1>3, <1>5, <2>1, <3>1, NextLineFields
  <2>3. ~JsonStore /\ N[u] # NoUser => N[u].ip = NoIp \/ k.ips[u] = N[u].ip
    <3>1. CASE \A v \in User : k.ips[v] = IpIn(N, v)
      BY <1>1, <3>1 DEF IpIn
    <3>2. CASE \A v \in User : k.ips[v] = m.ips[v] /\ IpIn(N, v) = IpIn(T, v)
      BY <1>1, <2>1, <3>2 DEF IpIn, RowStores
    <3> QED
      BY <1>4, <3>1, <3>2
  <2> QED
    BY <2>2, <2>3 DEF RowStores
<1> QED
  BY <1>6, <1>7, <1>8 DEF Stores, N, T, U, k

-----------------------------------------------------------------------------
(***************************************************************************)
(* The disk a managed mutation goes through.                               *)
(***************************************************************************)
\* What LoadRecords loads, and the disk after each of the three writes.
Records(b, r)    == Loaded(Synced(b, r))
AtUsers(b, r)    == Synced(b, r)
AtMap(b, r)      == LET d == AtUsers(b, r) IN
                    IF WritesUsers(r) THEN [d EXCEPT ![UsersFile] = UsersAfter(d, Records(b, r), r)]
                    ELSE d
AtUserConfig(b, r) == LET d == AtMap(b, r) IN
                    IF WritesMap(r)
                    THEN [d EXCEPT ![UserGroupMapFile] = MapAfter(d, Records(b, r), r)] ELSE d
Changed(b, r)    == LET d == AtUserConfig(b, r) IN
                    IF WritesUserConfig(r)
                    THEN [d EXCEPT ![UserConfig(r.user)] = UserConfigAfter(d, Records(b, r), r)]
                    ELSE d

LEMMA SameRecords ==
  ASSUME NEW d, NEW e, StoredUsers(e) = StoredUsers(d), Metadata(e) = Metadata(d)
  PROVE  /\ LoadUsers(e) = LoadUsers(d) /\ Loaded(e) = Loaded(d)
         /\ MapAgrees(d) => MapAgrees(e)
<1>1. \A u \in User : LoadUser(e, u) = LoadUser(d, u)
  BY DEF LoadUser
<1>2. LoadUsers(e) = LoadUsers(d)
  BY <1>1 DEF LoadUsers
<1>3. LoadGroupMap(e) = LoadGroupMap(d) /\ LoadIpMap(e) = LoadIpMap(d)
  BY <1>1 DEF LoadGroupMap, LoadIpMap
<1> QED
  BY <1>2, <1>3 DEF Loaded, MapAgrees

\* What sync_managed_files leaves alone, and what it does to the pools.
LEMMA SyncedKeeps ==
  ASSUME NEW d, Disk(d), NEW r, RequestOK(r)
  PROVE  LET e == Synced(d, r) IN
         /\ Disk(e)
         /\ StoredUsers(e) = StoredUsers(d) /\ Metadata(e) = Metadata(d)
         /\ \A f \in File \ RenderedFiles(r) : e[f] = d[f]
         /\ \A u \in User : e[UserConfig(u)] = d[UserConfig(u)]
         /\ AllowedGroups(d) \subseteq AllowedGroups(e)
         /\ PoolsRendered(d) => /\ PoolsRendered(e)
                                /\ \A g \in Group : GroupPool(e, g) = GroupPool(d, g)
<1> DEFINE e == Synced(d, r)
<1>1. Disk(e)
  BY SyncedTyped
<1>2. \A f \in File \ RenderedFiles(r) : e[f] = d[f]
  BY DEF Synced
<1>3. RenderedFiles(r) \cap ({UsersFile, UserGroupMapFile, GroupsFile} \cup UserConfigs) = {}
  <2>1. RenderedFiles(r) \subseteq {MainTemplate, MainConfig, GroupTemplate(r.group), GroupConfig(r.group)}
    BY DEF RenderedFiles
  <2>2. {MainTemplate, MainConfig, GroupTemplate(r.group), GroupConfig(r.group)}
          \cap {UsersFile, UserGroupMapFile, GroupsFile} = {}
    BY DEF UsersFile, UserGroupMapFile, GroupsFile, MainTemplate, MainConfig, GroupTemplate, GroupConfig
  <2>3. ASSUME NEW u \in User
        PROVE  UserConfig(u) \notin {MainTemplate, MainConfig, GroupTemplate(r.group), GroupConfig(r.group)}
    BY DEF UserConfig, MainTemplate, MainConfig, GroupTemplate, GroupConfig
  <2> QED
    BY <2>1, <2>2, <2>3 DEF UserConfigs
<1>4. /\ e[UsersFile] = d[UsersFile] /\ e[UserGroupMapFile] = d[UserGroupMapFile]
      /\ e[GroupsFile] = d[GroupsFile] /\ \A u \in User : e[UserConfig(u)] = d[UserConfig(u)]
  BY <1>2, <1>3, ContentOf DEF UserConfigs
<1>5. ASSUME NEW g \in Group
      PROVE  \/ /\ e[GroupTemplate(g)] = d[GroupTemplate(g)]
                /\ e[GroupConfig(g)] = d[GroupConfig(g)]
             \/ LET text == IF d[GroupTemplate(g)] # Absent THEN d[GroupTemplate(g)] ELSE {} IN
                e[GroupTemplate(g)] = text /\ e[GroupConfig(g)] = text
  <2>1. CASE r.action \notin {"create_user", "assign_group"} \/ r.group = NoGroup \/ r.group # g
    <3>1. GroupTemplate(g) \notin RenderedFiles(r) /\ GroupConfig(g) \notin RenderedFiles(r)
      BY <2>1 DEF RenderedFiles, MainTemplate, MainConfig, GroupTemplate, GroupConfig
    <3> QED
      BY <1>2, <3>1, ContentOf
  <2>2. CASE r.action \in {"create_user", "assign_group"} /\ r.group # NoGroup /\ r.group = g
    <3>1. /\ GroupTemplate(g) \in RenderedFiles(r) /\ GroupConfig(g) \in RenderedFiles(r)
          /\ GroupTemplate(g) \in File /\ GroupConfig(g) \in File
      BY <2>2, ContentOf DEF RenderedFiles
    <3>2. /\ GroupTemplate(g) \notin {MainTemplate, MainConfig, GroupConfig(g)}
          /\ GroupConfig(g) # MainConfig
      BY DEF MainTemplate, MainConfig, GroupTemplate, GroupConfig
    <3> QED
      BY <2>2, <3>1, <3>2 DEF Synced
  <2> QED
    BY <2>1, <2>2
<1> HIDE DEF e
<1>6. ASSUME NEW g \in AllowedGroups(d) PROVE g \in AllowedGroups(e)
  <2>1. CASE g \in Group /\ (d[GroupTemplate(g)] # Absent \/ d[GroupConfig(g)] # Absent)
    <3>1. d[GroupTemplate(g)] = Absent => d[GroupConfig(g)] # Absent
      BY <2>1
    <3>2. e[GroupTemplate(g)] # Absent \/ e[GroupConfig(g)] # Absent \/ g \in ProtectedGroup
      BY <1>5, <2>1, AbsentIsNoContent
    <3> QED
      BY <2>1, <3>2 DEF AllowedGroups
  <2> QED
    BY <1>4, <1>6, <2>1 DEF AllowedGroups
<1>7. ASSUME PoolsRendered(d), NEW g \in Group
      PROVE  /\ GroupPool(e, g) = GroupPool(d, g)
             /\ GroupPool(e, g) = IF e[GroupTemplate(g)] = Absent THEN {} ELSE e[GroupTemplate(g)]
  <2>1. GroupPool(d, g) = IF d[GroupTemplate(g)] = Absent THEN {} ELSE d[GroupTemplate(g)]
    BY <1>7 DEF PoolsRendered
  <2> QED
    BY <1>5, <2>1 DEF GroupPool
<1> QED
  BY <1>1, <1>2, <1>4, <1>6, <1>7 DEF StoredUsers, Metadata, PoolsRendered, e

LEMMA SyncedSound ==
  ASSUME NEW d, Disk(d), Sound(d), NEW r, RequestOK(r)
  PROVE  Sound(Synced(d, r)) /\ LoadUsers(Synced(d, r)) = LoadUsers(d)
<1> DEFINE e == Synced(d, r)  T == LoadUsers(d)
<1>1. /\ LoadUsers(e) = T /\ MapAgrees(e)
  BY SyncedKeeps, SameRecords DEF Sound
<1>2. /\ \A u \in User : e[UserConfig(u)] = d[UserConfig(u)]
      /\ AllowedGroups(d) \subseteq AllowedGroups(e)
      /\ PoolsRendered(e) /\ \A g \in Group : GroupPool(e, g) = GroupPool(d, g)
  BY SyncedKeeps DEF Sound
<1>3. T \in UserTable
  BY LoadedTyped DEF Loaded
<1>4. \A u \in User : GroupIn(T, u) \in Group \cup {NoGroup}
  BY <1>3 DEF GroupIn, UserTable, UserRecord
<1> HIDE DEF e, T
<1>5. Placed(d, T) => Placed(e, T)
  BY <1>2, <1>4 DEF Placed
<1> QED
  BY <1>1, <1>2, <1>5 DEF Sound, e, T

\* The state of affairs after LoadRecords accepted the request.
Ready(b, r) ==
  /\ Disk(b) /\ Sound(b) /\ RequestOK(r) /\ r.action \in ManagedAction
  /\ RecordAccepted(Synced(b, r), Records(b, r), r)

LEMMA ReadyAccepted ==
  ASSUME NEW b, NEW r, Ready(b, r)
  PROVE  Accepted(Synced(b, r), r) /\ Taken(Synced(b, r), r)
  BY SyncedSound, SyncedKeeps DEF Ready, Accepted, Taken, Records, Sound

\* The files each stage leaves, one by one.
LEMMA StageFiles ==
  ASSUME NEW b, NEW r, Taken(Synced(b, r), r)
  PROVE  LET d == Synced(b, r)  l == Loaded(d)  e == Changed(b, r) IN
         /\ Disk(AtMap(b, r)) /\ Disk(AtUserConfig(b, r)) /\ Disk(e)
         /\ StoredUsers(e) = IF WritesUsers(r) THEN UsersAfter(d, l, r) ELSE StoredUsers(d)
         /\ Metadata(AtMap(b, r)) = Metadata(d)
         /\ Metadata(e) = IF WritesMap(r) THEN MapAfter(AtMap(b, r), l, r) ELSE Metadata(d)
         /\ e[UserConfig(r.user)] = IF WritesUserConfig(r) THEN UserConfigAfter(d, l, r)
                                    ELSE d[UserConfig(r.user)]
         /\ \A f \in File \ {UsersFile, UserGroupMapFile, UserConfig(r.user)} : e[f] = d[f]
         /\ StoredUsers(AtMap(b, r)) = StoredUsers(e)
         /\ StoredUsers(AtUserConfig(b, r)) = StoredUsers(e)
         /\ Metadata(AtUserConfig(b, r)) = Metadata(e)
<1> DEFINE d == Synced(b, r)  l == Loaded(d)  m == AtMap(b, r)  c == AtUserConfig(b, r)
           e == Changed(b, r)
<1>1. /\ Disk(d) /\ Taken(d, r) /\ r.user \in User
      /\ RequestOK(r) /\ r.action \in ManagedAction /\ LoadedFor(l, r)
  BY AcceptedApplies DEF Taken
<1>2. /\ UsersFile # UserGroupMapFile /\ UserConfig(r.user) \notin {UsersFile, UserGroupMapFile}
  BY DEF UsersFile, UserGroupMapFile, UserConfig
<1>3. /\ Disk(m)
      /\ m[UsersFile] = IF WritesUsers(r) THEN UsersAfter(d, l, r) ELSE d[UsersFile]
      /\ \A f \in File \ {UsersFile} : m[f] = d[f]
  <2>1. WritesUsers(r) => UsersAfter(d, l, r) \in Content(UsersFile)
    BY <1>1, WrittenLines, ContentOf
  <2>2. m = IF WritesUsers(r) THEN [d EXCEPT ![UsersFile] = UsersAfter(d, l, r)] ELSE d
    BY DEF AtMap, AtUsers, Records
  <2> HIDE DEF d, l, m
  <2>3. Disk(m)
    BY <1>1, <2>1, <2>2, WriteTyped, ContentOf
  <2> QED
    BY <1>1, <2>2, <2>3, ContentOf DEF Disk, PartialDisk
<1>4. Metadata(m) = Metadata(d)
  BY <1>2, <1>3, ContentOf DEF Metadata
<1>5. /\ Disk(c)
      /\ c[UserGroupMapFile] = IF WritesMap(r) THEN MapAfter(m, l, r) ELSE m[UserGroupMapFile]
      /\ \A f \in File \ {UserGroupMapFile} : c[f] = m[f]
  <2>1. WritesMap(r) => MapAfter(m, l, r) \in Content(UserGroupMapFile)
    BY <1>1, <1>3, MapAfterTyped, ContentOf
  <2>2. c = IF WritesMap(r) THEN [m EXCEPT ![UserGroupMapFile] = MapAfter(m, l, r)] ELSE m
    BY DEF AtUserConfig, Records
  <2> HIDE DEF d, l, m, c
  <2>3. Disk(c)
    BY <1>3, <2>1, <2>2, WriteTyped, ContentOf
  <2> QED
    BY <1>3, <2>2, <2>3, ContentOf DEF Disk, PartialDisk
<1>6. /\ Disk(e)
      /\ e[UserConfig(r.user)] = IF WritesUserConfig(r) THEN UserConfigAfter(d, l, r)
                                 ELSE c[UserConfig(r.user)]
      /\ \A f \in File \ {UserConfig(r.user)} : e[f] = c[f]
  <2>1. WritesUserConfig(r) => UserConfigAfter(d, l, r) \in Content(UserConfig(r.user))
    BY <1>1, UserConfigAfterTyped
  <2>2. e = IF WritesUserConfig(r)
            THEN [c EXCEPT ![UserConfig(r.user)] = UserConfigAfter(d, l, r)] ELSE c
    BY DEF Changed, Records, UserConfigAfter
  <2> HIDE DEF d, l, c, e
  <2>3. Disk(e)
    BY <1>1, <1>5, <2>1, <2>2, WriteTyped, ContentOf
  <2> QED
    BY <1>1, <1>5, <2>2, <2>3, ContentOf DEF Disk, PartialDisk
<1>7. WritesUsers(r) => UsersAfter(d, l, r) \in UserTable
  BY <1>1, WrittenLines DEF UserLines
<1>8. WritesMap(r) => MapAfter(m, l, r) \in MapContent
  BY <1>1, <1>3, MapAfterTyped
<1>9. e[UsersFile] = m[UsersFile] /\ e[UserGroupMapFile] = c[UserGroupMapFile]
  BY <1>2, <1>5, <1>6, ContentOf
<1>10. StoredUsers(e) = IF WritesUsers(r) THEN UsersAfter(d, l, r) ELSE StoredUsers(d)
  BY <1>3, <1>7, <1>9, AbsentIsNoContent DEF StoredUsers
<1>11. Metadata(e) = IF WritesMap(r) THEN MapAfter(m, l, r) ELSE Metadata(d)
  <2> HIDE DEF d, l, m, c, e
  <2> QED
    BY <1>4, <1>5, <1>8, <1>9, AbsentIsNoContent DEF Metadata
<1>12. /\ e[UserConfig(r.user)] = IF WritesUserConfig(r) THEN UserConfigAfter(d, l, r)
                                  ELSE d[UserConfig(r.user)]
       /\ \A f \in File \ {UsersFile, UserGroupMapFile, UserConfig(r.user)} : e[f] = d[f]
  <2> HIDE DEF d, l, m, c, e
  <2> QED
    BY <1>1, <1>2, <1>3, <1>5, <1>6, ContentOf
<1>13. /\ StoredUsers(m) = StoredUsers(e) /\ StoredUsers(c) = StoredUsers(e)
       /\ Metadata(c) = Metadata(e)
  <2>1. c[UsersFile] = m[UsersFile]
    BY <1>2, <1>5, ContentOf
  <2> QED
    BY <1>9, <2>1 DEF StoredUsers, Metadata
<1> QED
  BY <1>3, <1>4, <1>5, <1>6, <1>10, <1>11, <1>12, <1>13

\* AllowedGroups and GroupPool read none of the three files a mutation writes.
LEMMA SameGroups ==
  ASSUME NEW d, NEW e, e[GroupsFile] = d[GroupsFile],
         \A g \in Group : /\ e[GroupTemplate(g)] = d[GroupTemplate(g)]
                          /\ e[GroupConfig(g)] = d[GroupConfig(g)]
  PROVE  /\ AllowedGroups(e) = AllowedGroups(d)
         /\ \A g \in Group : GroupPool(e, g) = GroupPool(d, g)
         /\ PoolsRendered(d) => PoolsRendered(e)
  BY DEF AllowedGroups, GroupPool, PoolsRendered

\* The writes of a mutation leave the groups as the templates and the groups file have them.
LEMMA ChangedGroups ==
  ASSUME NEW b, NEW r, Ready(b, r)
  PROVE  LET d == Synced(b, r)  e == Changed(b, r) IN
         /\ AllowedGroups(e) = AllowedGroups(d)
         /\ \A g \in Group : GroupPool(e, g) = GroupPool(d, g)
         /\ PoolsRendered(d) => PoolsRendered(e)
<1> DEFINE d == Synced(b, r)  e == Changed(b, r)  u == r.user
<1>1. GroupsFile \notin {UsersFile, UserGroupMapFile, UserConfig(u)}
  BY DEF GroupsFile, UsersFile, UserGroupMapFile, UserConfig
<1>2. e[GroupsFile] = d[GroupsFile]
  BY <1>1, ReadyAccepted, StageFiles, ContentOf
<1>3. ASSUME NEW g \in Group
      PROVE  e[GroupTemplate(g)] = d[GroupTemplate(g)] /\ e[GroupConfig(g)] = d[GroupConfig(g)]
  <2>1. {GroupTemplate(g), GroupConfig(g)} \cap {UsersFile, UserGroupMapFile, UserConfig(u)} = {}
    BY DEF GroupTemplate, GroupConfig, UsersFile, UserGroupMapFile, UserConfig
  <2> QED
    BY <2>1, ReadyAccepted, StageFiles, ContentOf
<1> QED
  BY <1>2, <1>3, SameGroups

\* Every group the tool knows is one, and a pool holds addresses.
LEMMA GroupsTyped ==
  ASSUME NEW d, Disk(d)
  PROVE  AllowedGroups(d) \subseteq Group /\ \A g \in Group : GroupPool(d, g) \subseteq Ip
<1>1. d[GroupsFile] \in {Absent} \cup SUBSET Group
  BY ContentOf DEF Disk, PartialDisk
<1>2. ASSUME NEW g \in Group
      PROVE  d[GroupConfig(g)] \in {Absent} \cup SUBSET Ip /\ d[GroupTemplate(g)] \in {Absent} \cup SUBSET Ip
  BY ContentOf DEF Disk, PartialDisk
<1>3. AllowedGroups(d) \subseteq Group
  BY <1>1, GroupAssumption DEF AllowedGroups
<1> QED
  BY <1>2, <1>3 DEF GroupPool

\* A mutation whose group preflightMutation knew, or which has none, makes no group known.
LEMMA ChangedPools ==
  ASSUME NEW b, NEW r, Ready(b, r),
         r.action \in {"create_user", "assign_group"} => r.group \in AllowedGroups(b) \cup {NoGroup}
  PROVE  /\ AllowedGroups(Changed(b, r)) = AllowedGroups(b)
         /\ \A g \in Group : GroupPool(Changed(b, r), g) = GroupPool(b, g)
<1> DEFINE d == Synced(b, r)
<1>1. /\ Disk(b) /\ Disk(d) /\ AllowedGroups(b) \subseteq AllowedGroups(d)
      /\ \A f \in File \ RenderedFiles(r) : d[f] = b[f]
      /\ \A g \in Group : GroupPool(d, g) = GroupPool(b, g)
  BY SyncedKeeps DEF Ready, Sound
<1>2. ASSUME NEW g \in AllowedGroups(d) PROVE g \in AllowedGroups(b)
  <2>1. g \in Group
    BY <1>1, GroupsTyped
  <2>2. CASE {GroupTemplate(g), GroupConfig(g)} \cap RenderedFiles(r) # {}
    <3>1. r.action \in {"create_user", "assign_group"} /\ r.group # NoGroup /\ r.group = g
      <4>1. r.action \in {"create_user", "assign_group"}
        BY <2>2 DEF RenderedFiles
      <4>2. \/ GroupTemplate(g) \in {GroupTemplate(r.group), GroupConfig(r.group)}
            \/ GroupConfig(g) \in {GroupTemplate(r.group), GroupConfig(r.group)}
        <5>1. GroupTemplate(g) \notin {MainTemplate, MainConfig} /\ GroupConfig(g) \notin {MainTemplate, MainConfig}
          BY DEF GroupTemplate, GroupConfig, MainTemplate, MainConfig
        <5> QED
          BY <2>2, <5>1 DEF RenderedFiles
      <4>3. r.group = g
        BY <4>2 DEF GroupTemplate, GroupConfig
      <4> QED
        BY <2>1, <4>1, <4>3, AtomsDistinct
    <3> QED
      BY <3>1
  <2>3. CASE {GroupTemplate(g), GroupConfig(g)} \cap RenderedFiles(r) = {}
    <3>1. GroupsFile \notin RenderedFiles(r)
      BY DEF RenderedFiles, GroupTemplate, GroupConfig, MainTemplate, MainConfig, GroupsFile
    <3>2. d[GroupsFile] = b[GroupsFile] /\ d[GroupTemplate(g)] = b[GroupTemplate(g)]
          /\ d[GroupConfig(g)] = b[GroupConfig(g)]
      BY <1>1, <2>1, <2>3, <3>1, ContentOf
    <3> QED
      BY <2>1, <3>2 DEF AllowedGroups
  <2> QED
    BY <2>2, <2>3
<1> QED
  BY <1>1, <1>2, ChangedGroups

\* A managed mutation that got through its three writes leaves a sound disk, on which the
\* table of accounts has changed as the action says.
LEMMA ChangedSound ==
  ASSUME NEW b, NEW r, Ready(b, r)
  PROVE  /\ Sound(Changed(b, r))
         /\ LoadUsers(Changed(b, r)) = NextTable(LoadUsers(b), r)
<1> DEFINE d == Synced(b, r)  l == Loaded(d)  e == Changed(b, r)  u == r.user
           T == LoadUsers(d)  N == NextTable(T, r)
<1>1. /\ Disk(d) /\ Sound(d) /\ Accepted(d, r) /\ RequestOK(r) /\ r.action \in ManagedAction
      /\ RecordAccepted(d, l, r)
      /\ u \in User /\ T \in UserTable /\ Applies(T[u], r)
      /\ T = LoadUsers(b)
  BY ReadyAccepted, AcceptedApplies, SyncedSound DEF Accepted, Taken, Ready
<1>2. Disk(e) /\ Stores(e, N) /\ N \in UserTable
  BY <1>1, ReadyAccepted, StageFiles, WritesStore, NextTableTyped
<1>3. LoadUsers(e) = N /\ MapAgrees(e)
  BY <1>2, ReadBack
<1>4. /\ AllowedGroups(e) = AllowedGroups(d)
      /\ \A g \in Group : GroupPool(e, g) = GroupPool(d, g)
      /\ PoolsRendered(e)
  BY <1>1, ChangedGroups DEF Sound
<1>5. N[u] = NextRecord(T[u], r) /\ \A v \in User \ {u} : N[v] = T[v]
  BY <1>1 DEF NextTable, UserTable
<1>6. \A v \in User : GroupIn(T, v) \in Group \cup {NoGroup}
  BY <1>1 DEF GroupIn, UserTable, UserRecord
<1>7. ASSUME NEW v \in User \ {u}
      PROVE  /\ GroupIn(N, v) \in AllowedGroups(e) \cup {NoGroup}
             /\ IpIn(N, v) # NoIp => GroupIn(N, v) # NoGroup /\ IpIn(N, v) \in GroupPool(e, GroupIn(N, v))
             /\ N[v] # NoUser => e[UserConfig(v)] = IF N[v].ip = NoIp THEN Absent ELSE N[v].ip
             /\ N[v] = NoUser => e[UserConfig(v)] \notin Ip
  <2>1. GroupIn(N, v) = GroupIn(T, v) /\ IpIn(N, v) = IpIn(T, v) /\ N[v] = T[v]
    BY <1>5 DEF GroupIn, IpIn
  <2>2. UserConfig(v) \notin {UsersFile, UserGroupMapFile, UserConfig(u)}
    BY DEF UsersFile, UserGroupMapFile, UserConfig
  <2>3. e[UserConfig(v)] = d[UserConfig(v)]
    BY <2>2, ReadyAccepted, StageFiles, ContentOf
  <2>4. /\ GroupIn(T, v) \in AllowedGroups(d) \cup {NoGroup}
        /\ IpIn(T, v) # NoIp => GroupIn(T, v) # NoGroup /\ IpIn(T, v) \in GroupPool(d, GroupIn(T, v))
        /\ T[v] # NoUser => d[UserConfig(v)] = IF T[v].ip = NoIp THEN Absent ELSE T[v].ip
        /\ T[v] = NoUser => d[UserConfig(v)] \notin Ip
    BY <1>1 DEF Sound, Placed
  <2> HIDE DEF d, e, T, N, u
  <2> QED
    BY <1>4, <1>6, <2>1, <2>3, <2>4
<1>8. /\ GroupIn(T, u) \in AllowedGroups(d) \cup {NoGroup}
      /\ IpIn(T, u) # NoIp => GroupIn(T, u) # NoGroup /\ IpIn(T, u) \in GroupPool(d, GroupIn(T, u))
      /\ T[u] # NoUser => d[UserConfig(u)] = IF T[u].ip = NoIp THEN Absent ELSE T[u].ip
  BY <1>1 DEF Sound, Placed
<1>9. l.users = T
  BY DEF Loaded
<1>10. e[UserConfig(u)] = IF WritesUserConfig(r) THEN UserConfigAfter(d, l, r) ELSE d[UserConfig(u)]
  BY ReadyAccepted, StageFiles
<1>11. GroupIn(N, u) = (IF N[u] = NoUser THEN NoGroup ELSE N[u].group)
       /\ IpIn(N, u) = (IF N[u] = NoUser THEN NoIp ELSE N[u].ip)
       /\ GroupIn(T, u) = (IF T[u] = NoUser THEN NoGroup ELSE T[u].group)
       /\ IpIn(T, u) = (IF T[u] = NoUser THEN NoIp ELSE T[u].ip)
  BY DEF GroupIn, IpIn
<1>12. /\ GroupIn(N, u) \in AllowedGroups(e) \cup {NoGroup}
       /\ IpIn(N, u) # NoIp => GroupIn(N, u) # NoGroup /\ IpIn(N, u) \in GroupPool(e, GroupIn(N, u))
       /\ N[u] # NoUser => e[UserConfig(u)] = IF N[u].ip = NoIp THEN Absent ELSE N[u].ip
       /\ N[u] = NoUser => e[UserConfig(u)] \notin Ip
  <2>1. CASE r.action = "delete_user"
    <3>1. N[u] = NoUser /\ e[UserConfig(u)] = Absent
      BY <1>1, <1>5, <1>10, <2>1, NextRecordFields DEF WritesUserConfig, UserConfigAfter
    <3> QED
      BY <1>11, <3>1, AtomsDistinct
  <2>2. CASE r.action = "create_user"
    <3>1. N[u] # NoUser /\ N[u].group = r.group /\ N[u].ip = r.ip
      BY <1>1, <1>5, <2>2, NextRecordFields
    <3>2. r.group \in AllowedGroups(d) \cup {NoGroup} /\ IpAccepted(d, u, r.group, r.ip, T)
      BY <1>1, <1>9, <2>2 DEF RecordAccepted
    <3>3. e[UserConfig(u)] = IF r.ip = NoIp THEN Absent ELSE r.ip
      BY <1>10, <2>2 DEF WritesUserConfig, UserConfigAfter
    <3>4. r.group # NoGroup => r.group \in Group
      BY <1>1 DEF RequestOK
    <3> HIDE DEF d, e, T, N, u
    <3> QED
      BY <1>4, <1>11, <3>1, <3>2, <3>3, <3>4 DEF IpAccepted
  <2>3. CASE r.action = "assign_group"
    <3>1. N[u] # NoUser /\ N[u].group = r.group /\ N[u].ip = T[u].ip
      BY <1>1, <1>5, <2>3, NextRecordFields
    <3>2. r.group \in AllowedGroups(d) /\ IpAccepted(d, u, r.group, T[u].ip, T)
      BY <1>1, <1>9, <2>3 DEF RecordAccepted
    <3>3. e[UserConfig(u)] = IF T[u].ip = NoIp THEN Absent ELSE T[u].ip
      BY <1>9, <1>10, <2>3 DEF WritesUserConfig, UserConfigAfter
    <3>4. r.group \in Group
      BY <1>1, <2>3 DEF RequestOK
    <3> HIDE DEF d, e, T, N, u
    <3> QED
      BY <1>4, <1>11, <3>1, <3>2, <3>3, <3>4 DEF IpAccepted
  <2>4. CASE r.action = "update_user_ip"
    <3>0. T[u] # NoUser
      BY <1>1, <2>4 DEF Applies
    <3>1. T[u] # NoUser /\ N[u] # NoUser /\ N[u].group = T[u].group /\ N[u].ip = r.ip
      <4>1. Applies(T[u], r) /\ N[u] = NextRecord(T[u], r)
        BY <1>1, <1>5
      <4> DEFINE n == NextRecord(T[u], r)
      <4>2. n # NoUser
        BY <2>4, <4>1, NextRecordFields
      <4>3. n.group = T[u].group /\ n.ip = r.ip
        BY <2>4, <4>1, NextRecordFields
      <4> HIDE DEF n
      <4> QED
        BY <3>0, <4>1, <4>2, <4>3 DEF n
    <3>2. IpAccepted(d, u, T[u].group, r.ip, T)
      BY <1>1, <1>9, <2>4 DEF RecordAccepted
    <3>3. e[UserConfig(u)] = IF r.ip = NoIp THEN Absent ELSE r.ip
      BY <1>10, <2>4 DEF WritesUserConfig, UserConfigAfter
    <3>4. GroupIn(T, u) # NoGroup => GroupIn(T, u) \in Group
      BY <1>1, <1>6
    <3> HIDE DEF d, e, T, N, u
    <3> QED
      BY <1>4, <1>8, <1>11, <3>1, <3>2, <3>3, <3>4 DEF IpAccepted
  <2>5. CASE r.action = "disable_user"
    <3>0. T[u] # NoUser
      BY <1>1, <2>5 DEF Applies
    <3>1. T[u] # NoUser /\ N[u] # NoUser /\ N[u].group = T[u].group /\ N[u].ip = T[u].ip
      BY <1>1, <1>5, <2>5, <3>0, NextRecordFields
    <3>2. e[UserConfig(u)] = d[UserConfig(u)]
      BY <1>10, <2>5 DEF WritesUserConfig
    <3>3. GroupIn(T, u) # NoGroup => GroupIn(T, u) \in Group
      BY <1>1, <1>6
    <3> HIDE DEF d, e, T, N, u
    <3> QED
      BY <1>4, <1>8, <1>11, <3>1, <3>2, <3>3
  <2> QED
    BY <1>1, <2>1, <2>2, <2>3, <2>4, <2>5 DEF ManagedAction
<1>13. Placed(e, N)
  BY <1>7, <1>12 DEF Placed
<1> QED
  BY <1>1, <1>3, <1>4, <1>13 DEF Sound

\* The files a mutation may change outside those it snapshots hold what they held.
LEMMA ChangedRestores ==
  ASSUME NEW b, NEW r, Ready(b, r)
  PROVE  /\ Restored(Changed(b, r), Snapshot(b, PlannedFiles(r))) = b
         /\ \A f \in File \ PlannedFiles(r) : Changed(b, r)[f] = b[f]
<1> DEFINE d == Synced(b, r)  e == Changed(b, r)  u == r.user  T == LoadUsers(d)
<1>1. /\ Disk(b) /\ u \in User /\ RequestOK(r) /\ r.action \in ManagedAction /\ T = LoadUsers(b)
  BY ReadyAccepted, AcceptedApplies, SyncedSound DEF Ready
<1>2. ASSUME NEW f \in File \ PlannedFiles(r) PROVE e[f] = b[f]
  <2>1. f \notin RenderedFiles(r) /\ f # UsersFile
    BY DEF PlannedFiles, DataFiles
  <2>2. d[f] = b[f]
    BY <1>1, <2>1, SyncedKeeps
  <2>3. CASE f \notin {UserGroupMapFile, UserConfig(u)}
    BY <2>1, <2>2, <2>3, ReadyAccepted, StageFiles
  <2>4. CASE f = UserGroupMapFile
    <3>1. ~WritesMap(r)
      BY <2>4 DEF PlannedFiles, DataFiles, WritesMap
    <3>2. UserGroupMapFile \notin {UsersFile, UserConfig(u)}
      BY DEF UsersFile, UserGroupMapFile, UserConfig
    <3>3. e[UserGroupMapFile] = d[UserGroupMapFile]
      BY <3>1, <3>2, <2>4 DEF Changed, AtUserConfig, AtMap, AtUsers, WritesUserConfig, WritesMap
    <3> QED
      BY <2>2, <2>4, <3>3
  <2>5. CASE f = UserConfig(u)
    <3>1. r.action \in {"assign_group", "disable_user"}
      BY <1>1, <2>5 DEF PlannedFiles, PlannedUserConfig, ManagedAction
    <3>2. e[f] = IF WritesUserConfig(r) THEN UserConfigAfter(d, Loaded(d), r) ELSE d[f]
      BY <2>5, ReadyAccepted, StageFiles
    <3>3. CASE r.action = "disable_user"
      BY <2>2, <3>2, <3>3 DEF WritesUserConfig
    <3>4. CASE r.action = "assign_group"
      <4>1. T[u] # NoUser
        BY <3>4, ReadyAccepted, AcceptedApplies DEF Applies
      <4>2. b[f] = IF T[u].ip = NoIp THEN Absent ELSE T[u].ip
        BY <1>1, <2>5, <4>1 DEF Ready, Sound, Placed
      <4>3. e[f] = IF T[u].ip = NoIp THEN Absent ELSE T[u].ip
        BY <3>2, <3>4 DEF WritesUserConfig, UserConfigAfter, Loaded
      <4> QED
        BY <4>2, <4>3
    <3> QED
      BY <3>1, <3>3, <3>4
  <2> QED
    BY <2>3, <2>4, <2>5
<1>3. Restored(e, Snapshot(b, PlannedFiles(r))) = b
  <2> HIDE DEF e
  <2> QED
    BY <1>1, <1>2 DEF Restored, Snapshot, Disk, PartialDisk
<1> QED
  BY <1>2, <1>3

LEMMA SyncedRestores ==
  ASSUME NEW b, Disk(b), NEW r, RequestOK(r)
  PROVE  Restored(Synced(b, r), Snapshot(b, PlannedFiles(r))) = b
<1>1. \A f \in File \ PlannedFiles(r) : Synced(b, r)[f] = b[f]
  BY SyncedKeeps DEF PlannedFiles
<1> QED
  BY <1>1 DEF Restored, Snapshot, Disk, PartialDisk

-----------------------------------------------------------------------------
(***************************************************************************)
(* Everybody else's account, on any disk: sound or not.                    *)
(***************************************************************************)
\* A record reads the same when its line is kept or holds what was loaded, and what the map
\* says of the user is kept or is what was loaded.
LEMMA OtherReads ==
  ASSUME NEW d, Disk(d), NEW e, Disk(e), NEW v \in User,
         StoredUsers(e)[v] = StoredUsers(d)[v] \/ StoredUsers(e)[v] = LoadUser(d, v),
         LoadUser(d, v) # NoUser =>
           /\ \/ Metadata(e).groups[v] = Metadata(d).groups[v]
              \/ Metadata(e).groups[v] = LoadUser(d, v).group
           /\ \/ Metadata(e).ips[v] = Metadata(d).ips[v]
              \/ Metadata(e).ips[v] = LoadUser(d, v).ip
  PROVE  LoadUser(e, v) = LoadUser(d, v)
<1> DEFINE s == StoredUsers(d)[v]  t == LoadUser(d, v)  n == LoadUser(e, v)  l == StoredUsers(e)[v]
           m == Metadata(d)  k == Metadata(e)
<1>1. CASE s = NoUser
  <2>1. t = NoUser /\ l = NoUser
    BY <1>1, LoadUserFields
  <2> QED
    BY <2>1, LoadUserFields
<1>2. CASE s # NoUser
  <2>1. /\ t # NoUser /\ t.disabled = s.disabled
        /\ t.group = IF JsonStore /\ s.group = NoGroup THEN m.groups[v] ELSE s.group
        /\ t.ip = IF s.ip = NoIp THEN m.ips[v] ELSE s.ip
    BY <1>2, LoadUserFields
  <2>2. l # NoUser
    BY <1>2, <2>1
  <2>3. /\ n # NoUser /\ n.disabled = l.disabled
        /\ n.group = IF JsonStore /\ l.group = NoGroup THEN k.groups[v] ELSE l.group
        /\ n.ip = IF l.ip = NoIp THEN k.ips[v] ELSE l.ip
    BY <2>2, LoadUserFields
  <2>4. t \in UserRecord /\ n \in UserRecord
    BY <2>1, <2>3, LoadUserTyped
  <2>5. /\ l = s \/ l = t
        /\ k.groups[v] = m.groups[v] \/ k.groups[v] = t.group
        /\ k.ips[v] = m.ips[v] \/ k.ips[v] = t.ip
    BY <2>1
  <2> HIDE DEF s, t, n, l, m, k
  <2>6. n.disabled = t.disabled
    BY <2>1, <2>3, <2>5
  <2>7. n.group = t.group
    BY <2>1, <2>3, <2>5
  <2>8. n.ip = t.ip
    BY <2>1, <2>3, <2>5
  <2>9. n = t
    BY <2>4, <2>6, <2>7, <2>8, RecordsEqual
  <2> QED
    BY <2>9 DEF n, t
<1> QED
  BY <1>1, <1>2

\* At every stage of a mutation the other accounts read as they did before it.
LEMMA OthersKept ==
  ASSUME NEW b, Disk(b), NEW r, RequestOK(r), NEW v \in User, v # r.user
  PROVE  /\ LoadUser(Synced(b, r), v) = LoadUser(b, v)
         /\ Taken(Synced(b, r), r) =>
              \A e \in {AtMap(b, r), AtUserConfig(b, r), Changed(b, r)} : LoadUser(e, v) = LoadUser(b, v)
<1> DEFINE d == Synced(b, r)  l == Loaded(d)  m == AtMap(b, r)
<1>1. LoadUser(d, v) = LoadUser(b, v)
  BY SyncedKeeps DEF LoadUser
<1>2. ASSUME Taken(d, r), NEW e \in {AtMap(b, r), AtUserConfig(b, r), Changed(b, r)}
      PROVE  LoadUser(e, v) = LoadUser(d, v)
  <2>1. /\ Disk(d) /\ Disk(e)
        /\ StoredUsers(e) = IF WritesUsers(r) THEN UsersAfter(d, l, r) ELSE StoredUsers(d)
        /\ \/ Metadata(e) = Metadata(d)
           \/ Metadata(e) = MapAfter(m, l, r) /\ WritesMap(r)
        /\ Metadata(m) = Metadata(d)
    BY <1>2, StageFiles DEF Taken
  <2>2. StoredUsers(e)[v] = IF JsonStore THEN LoadUsers(d)[v] ELSE StoredUsers(d)[v]
    BY <1>2, <2>1, WrittenLines
  <2>3. LoadUsers(d)[v] = LoadUser(d, v)
    BY DEF LoadUsers
  <2>4. LoadUser(d, v) # NoUser =>
          /\ l.groups[v] = Metadata(d).groups[v] \/ l.groups[v] = LoadUser(d, v).group
          /\ l.ips[v] = Metadata(d).ips[v] \/ l.ips[v] = LoadUser(d, v).ip
    BY DEF Loaded, LoadGroupMap, LoadIpMap
  <2>5. CASE Metadata(e) = Metadata(d)
    BY <2>1, <2>2, <2>3, <2>5, OtherReads
  <2>6. CASE Metadata(e) = MapAfter(m, l, r) /\ WritesMap(r)
    <3>1. l.groups \in GroupMap /\ l.ips \in IpMap
      BY <2>1, LoadedTyped
    <3>2. Metadata(e).groups[v] = l.groups[v]
      BY <2>6, <3>1 DEF MapAfter, GroupMap
    <3>3. Metadata(e).ips[v] = Metadata(d).ips[v] \/ Metadata(e).ips[v] = l.ips[v]
      BY <2>1, <2>6, <3>1 DEF MapAfter, IpMap
    <3> HIDE DEF d, l, m
    <3> QED
      BY <2>1, <2>2, <2>3, <2>4, <3>2, <3>3, OtherReads
  <2> QED
    BY <2>1, <2>5, <2>6
<1> QED
  BY <1>1, <1>2

-----------------------------------------------------------------------------
(***************************************************************************)
(* Group operations.                                                       *)
(***************************************************************************)
\* What create_group, delete_group and one step of disable_group_users make of a disk.
GroupAdded(b, g, pool, e) ==
  /\ Sound(e) /\ LoadUsers(e) = LoadUsers(b)
  /\ AllowedGroups(e) = AllowedGroups(b) \cup {g}
  /\ \A h \in Group \ {g} : GroupPool(e, h) = GroupPool(b, h)
  /\ GroupPool(e, g) = IF pool = Absent THEN {} ELSE pool
GroupRemoved(b, g, e) ==
  /\ Sound(e) /\ LoadUsers(e) = LoadUsers(b)
  /\ AllowedGroups(e) \ ProtectedGroup = AllowedGroups(b) \ (ProtectedGroup \cup {g})
  /\ \A h \in Group \ {g} : GroupPool(e, h) = GroupPool(b, h)
UserDisabled(d, u, e) ==
  /\ Sound(e)
  /\ LoadUsers(d)[u] # NoUser /\ LoadUsers(e) = [LoadUsers(d) EXCEPT ![u].disabled = TRUE]
  /\ AllowedGroups(e) = AllowedGroups(d)
  /\ \A g \in Group : GroupPool(e, g) = GroupPool(d, g)

\* No file of the new group was there before.
LEMMA CreateGroupSound ==
  ASSUME NEW b, Disk(b), Sound(b), NEW g \in Group, g \notin AllowedGroups(b), NEW pool,
         NEW groups, groups = (IF b[GroupsFile] = Absent THEN {} ELSE b[GroupsFile]) \cup {g},
         NEW e, e = [b EXCEPT ![GroupsFile] = groups, ![GroupTemplate(g)] = pool]
  PROVE  GroupAdded(b, g, pool, e)
<1> DEFINE T == LoadUsers(b)
<1>0. groups # Absent /\ g \in groups
  <2>1. b[GroupsFile] \in {Absent} \cup SUBSET Group
    BY ContentOf DEF Disk, PartialDisk
  <2> QED
    BY <2>1, AbsentIsNoContent
<1>1. {UsersFile, UserGroupMapFile, GroupsFile} \cap {GroupTemplate(g)} = {}
      /\ GroupsFile \notin {UsersFile, UserGroupMapFile}
  BY FilesDistinct
<1>2. /\ e[UsersFile] = b[UsersFile] /\ e[UserGroupMapFile] = b[UserGroupMapFile]
      /\ e[GroupsFile] = groups /\ e[GroupTemplate(g)] = pool
  BY <1>1, ContentOf DEF Disk, PartialDisk
<1>3. ASSUME NEW h \in Group
      PROVE  /\ e[GroupConfig(h)] = b[GroupConfig(h)]
             /\ h # g => e[GroupTemplate(h)] = b[GroupTemplate(h)]
  <2>1. GroupConfig(h) \notin {GroupsFile, GroupTemplate(g)} /\ GroupTemplate(h) # GroupsFile
    BY FilesDistinct
  <2>2. h # g => GroupTemplate(h) # GroupTemplate(g)
    BY FilesDistinct
  <2> QED
    BY <2>1, <2>2, ContentOf DEF Disk, PartialDisk
<1>4. ASSUME NEW u \in User PROVE e[UserConfig(u)] = b[UserConfig(u)]
  <2>1. UserConfig(u) \notin {GroupsFile, GroupTemplate(g)}
    BY FilesDistinct
  <2> QED
    BY <2>1, ContentOf DEF Disk, PartialDisk
<1>5. StoredUsers(e) = StoredUsers(b) /\ Metadata(e) = Metadata(b)
  BY <1>2 DEF StoredUsers, Metadata
<1>6. LoadUsers(e) = T /\ MapAgrees(e)
  BY <1>5, SameRecords DEF Sound
<1>7. b[GroupTemplate(g)] = Absent /\ b[GroupConfig(g)] = Absent
  BY DEF AllowedGroups
<1>8. /\ \A h \in Group \ {g} : GroupPool(e, h) = GroupPool(b, h)
      /\ GroupPool(e, g) = IF pool = Absent THEN {} ELSE pool
  BY <1>2, <1>3, <1>7 DEF GroupPool
<1>9. PoolsRendered(e)
  BY <1>2, <1>3, <1>8 DEF Sound, PoolsRendered
<1>10. AllowedGroups(e) = AllowedGroups(b) \cup {g}
  <2>1. ASSUME NEW h \in AllowedGroups(b) PROVE h \in AllowedGroups(e)
    BY <1>0, <1>2, <1>3, <1>7, <2>1 DEF AllowedGroups
  <2>2. g \in AllowedGroups(e)
    BY <1>0, <1>2 DEF AllowedGroups
  <2>3. ASSUME NEW h \in AllowedGroups(e), h # g PROVE h \in AllowedGroups(b)
    BY <1>0, <1>2, <1>3, <2>3 DEF AllowedGroups
  <2> QED
    BY <2>1, <2>2, <2>3
<1>11. \A u \in User : GroupIn(T, u) \in (Group \cup {NoGroup}) \ {g}
  <2>1. T \in UserTable
    BY LoadedTyped DEF Loaded
  <2>2. \A u \in User : GroupIn(T, u) \in Group \cup {NoGroup}
    BY <2>1 DEF GroupIn, UserTable, UserRecord
  <2>3. \A u \in User : GroupIn(T, u) # g
    BY AtomsDistinct DEF Sound, Placed
  <2> QED
    BY <2>2, <2>3
<1>12. Placed(e, T)
  <2> HIDE DEF T
  <2>1. Placed(b, T)
    BY DEF Sound, T
  <2> QED
    BY <2>1, <1>4, <1>8, <1>10, <1>11 DEF Placed
<1> QED
  BY <1>6, <1>8, <1>9, <1>10, <1>12 DEF Sound, GroupAdded

\* No record of a user names the group.
LEMMA DeleteGroupSound ==
  ASSUME NEW b, Disk(b), Sound(b), NEW g \in Group, \A u \in User : LoadGroupMap(b)[u] # g,
         NEW e, e = [b EXCEPT ![GroupsFile] = IF @ = Absent THEN @ ELSE @ \ {g},
                              ![GroupConfig(g)] = Absent, ![GroupTemplate(g)] = Absent]
  PROVE  GroupRemoved(b, g, e)
<1> DEFINE T == LoadUsers(b)
<1>1. {UsersFile, UserGroupMapFile, GroupsFile} \cap {GroupTemplate(g), GroupConfig(g)} = {}
      /\ GroupsFile \notin {UsersFile, UserGroupMapFile} /\ GroupTemplate(g) # GroupConfig(g)
  BY FilesDistinct
<1>2. /\ e[UsersFile] = b[UsersFile] /\ e[UserGroupMapFile] = b[UserGroupMapFile]
      /\ e[GroupsFile] = IF b[GroupsFile] = Absent THEN b[GroupsFile] ELSE b[GroupsFile] \ {g}
      /\ e[GroupTemplate(g)] = Absent /\ e[GroupConfig(g)] = Absent
  BY <1>1, ContentOf DEF Disk, PartialDisk
<1>3. ASSUME NEW h \in Group \ {g}
      PROVE  e[GroupConfig(h)] = b[GroupConfig(h)] /\ e[GroupTemplate(h)] = b[GroupTemplate(h)]
  <2>1. {GroupConfig(h), GroupTemplate(h)} \cap {GroupsFile, GroupTemplate(g), GroupConfig(g)} = {}
    BY FilesDistinct
  <2> QED
    BY <2>1, ContentOf DEF Disk, PartialDisk
<1>4. ASSUME NEW u \in User PROVE e[UserConfig(u)] = b[UserConfig(u)]
  <2>1. UserConfig(u) \notin {GroupsFile, GroupTemplate(g), GroupConfig(g)}
    BY FilesDistinct
  <2> QED
    BY <2>1, ContentOf DEF Disk, PartialDisk
<1>5. StoredUsers(e) = StoredUsers(b) /\ Metadata(e) = Metadata(b)
  BY <1>2 DEF StoredUsers, Metadata
<1>6. LoadUsers(e) = T /\ MapAgrees(e)
  BY <1>5, SameRecords DEF Sound
<1>7. \A h \in Group \ {g} : GroupPool(e, h) = GroupPool(b, h)
  BY <1>3 DEF GroupPool
<1>8. GroupPool(e, g) = {}
  BY <1>2 DEF GroupPool
<1>9. PoolsRendered(e)
  BY <1>2, <1>3, <1>7, <1>8 DEF Sound, PoolsRendered
<1>10. /\ AllowedGroups(b) \ {g} \subseteq AllowedGroups(e)
       /\ AllowedGroups(e) \subseteq (AllowedGroups(b) \ {g}) \cup ProtectedGroup
  <2>0. /\ b[GroupsFile] # Absent => e[GroupsFile] = b[GroupsFile] \ {g} /\ e[GroupsFile] # Absent
        /\ b[GroupsFile] = Absent => e[GroupsFile] = Absent
    <3>1. b[GroupsFile] # Absent => b[GroupsFile] \in SUBSET Group
      BY ContentOf DEF Disk, PartialDisk
    <3> QED
      BY <1>2, <3>1, AbsentIsNoContent
  <2>1. ASSUME NEW h \in AllowedGroups(b) \ {g} PROVE h \in AllowedGroups(e)
    BY <1>3, <2>0, <2>1 DEF AllowedGroups
  <2>2. ASSUME NEW h \in AllowedGroups(e), h \notin ProtectedGroup PROVE h \in AllowedGroups(b) \ {g}
    BY <1>2, <1>3, <2>0, <2>2 DEF AllowedGroups
  <2> QED
    BY <2>1, <2>2
<1>11. \A u \in User : GroupIn(T, u) \in (Group \cup {NoGroup}) \ {g}
  <2>1. T \in UserTable
    BY LoadedTyped DEF Loaded
  <2>2. \A u \in User : GroupIn(T, u) \in Group \cup {NoGroup}
    BY <2>1 DEF GroupIn, UserTable, UserRecord
  <2>3. \A u \in User : GroupIn(T, u) # g
    BY SoundReads
  <2> QED
    BY <2>2, <2>3
<1>12. Placed(e, T)
  <2> HIDE DEF T
  <2>1. Placed(b, T)
    BY DEF Sound, T
  <2> QED
    BY <2>1, <1>4, <1>7, <1>10, <1>11 DEF Placed
<1> QED
  BY <1>6, <1>7, <1>9, <1>10, <1>12 DEF Sound, GroupRemoved

DisabledUsers(d, u) == [EditedUsers(d, Loaded(d)) EXCEPT ![u].disabled = TRUE]

\* One step of disable_group_users is disable_user without the map.
LEMMA DisableSound ==
  ASSUME NEW d, Disk(d), Sound(d), NEW u \in User, EditedUsers(d, Loaded(d))[u] # NoUser,
         NEW e, e = [d EXCEPT ![UsersFile] = DisabledUsers(d, u)]
  PROVE  UserDisabled(d, u, e)
<1> DEFINE r == [action |-> "disable_user", user |-> u, group |-> NoGroup, ip |-> NoIp, pool |-> {}]
           T == LoadUsers(d)  N == NextTable(T, r)  E == EditedUsers(d, Loaded(d))
<1>1. T[u] # NoUser /\ T \in UserTable /\ E \in UserLines
  <2>1. T \in UserTable /\ Loaded(d).users = T
    BY LoadedTyped DEF Loaded
  <2>2. StoredUsers(d) \in UserTable /\ T[u] = LoadUser(d, u)
    BY StoredTyped DEF LoadUsers
  <2> QED
    BY <2>1, <2>2, LoadUserFields, EditedTyped DEF EditedUsers
<1>2. Accepted(d, r)
  BY <1>1 DEF Accepted, Taken, Sound, RequestOK, ManagedAction, RecordAccepted, Loaded
<1>3. ~WritesMap(r) /\ WritesUsers(r) /\ r.user = u /\ r.action = "disable_user"
  BY DEF WritesMap, WritesUsers
<1>4. UsersAfter(d, Loaded(d), r) = DisabledUsers(d, u)
  BY <1>3 DEF UsersAfter, DisabledUsers
<1>5. Applies(T[u], r)
  BY <1>2, <1>3, AcceptedApplies DEF Accepted
<1> HIDE DEF r
<1>6. DisabledUsers(d, u) \in UserLines /\ DisabledUsers(d, u) \in UserTable
  BY <1>1, DisabledTyped DEF DisabledUsers, UserLines
<1>7. Disk(e) /\ e[UsersFile] = DisabledUsers(d, u)
      /\ \A f \in File \ {UsersFile} : e[f] = d[f]
  <2>1. DisabledUsers(d, u) \in Content(UsersFile)
    BY <1>6, ContentOf
  <2>2. Disk(e)
    BY <2>1, WriteTyped, ContentOf
  <2>3. e[UsersFile] = DisabledUsers(d, u) /\ \A f \in File \ {UsersFile} : e[f] = d[f]
    BY ContentOf DEF Disk, PartialDisk
  <2> QED
    BY <2>2, <2>3
<1>8. UserGroupMapFile # UsersFile /\ GroupsFile # UsersFile
  BY FilesDistinct
<1>9. StoredUsers(e) = UsersAfter(d, Loaded(d), r) /\ Metadata(e) = Metadata(d)
  <2>1. e[UsersFile] # Absent
    BY <1>6, <1>7, AbsentIsNoContent
  <2>2. e[UserGroupMapFile] = d[UserGroupMapFile]
    BY <1>7, <1>8, ContentOf
  <2> QED
    BY <1>4, <1>7, <2>1, <2>2 DEF StoredUsers, Metadata
<1>10. LoadUsers(e) = N /\ MapAgrees(e)
  <2>1. Stores(e, N)
    BY <1>2, <1>3, <1>7, <1>9, WritesStore
  <2>2. N \in UserTable
    BY <1>1, <1>3, <1>5, NextTableTyped
  <2> QED
    BY <1>7, <2>1, <2>2, ReadBack
<1>11. /\ AllowedGroups(e) = AllowedGroups(d)
       /\ \A g \in Group : GroupPool(e, g) = GroupPool(d, g)
       /\ PoolsRendered(e)
  <2>1. ASSUME NEW g \in Group
        PROVE  e[GroupTemplate(g)] = d[GroupTemplate(g)] /\ e[GroupConfig(g)] = d[GroupConfig(g)]
    <3>1. GroupTemplate(g) # UsersFile /\ GroupConfig(g) # UsersFile
      BY FilesDistinct
    <3> QED
      BY <1>7, <3>1, ContentOf
  <2> QED
    BY <1>7, <1>8, <2>1, SameGroups, ContentOf DEF Sound
<1>12. \A v \in User : e[UserConfig(v)] = d[UserConfig(v)]
  <2>1. \A v \in User : UserConfig(v) # UsersFile
    BY FilesDistinct
  <2> QED
    BY <1>7, <2>1, ContentOf
<1>13. ASSUME NEW v \in User
       PROVE  /\ N[v] = NoUser <=> T[v] = NoUser
              /\ T[v] # NoUser => N[v].group = T[v].group /\ N[v].ip = T[v].ip
  <2>1. CASE v = u
    <3>1. N[u] = NextRecord(T[u], r)
      BY <1>1, <1>3 DEF NextTable, UserTable
    <3> DEFINE n == NextRecord(T[u], r)
    <3>2. n # NoUser
      BY <1>3, <1>5, NextRecordFields
    <3>3. n.group = T[u].group /\ n.ip = T[u].ip
      BY <1>3, <1>5, NextRecordFields
    <3> HIDE DEF n
    <3> QED
      BY <1>1, <2>1, <3>1, <3>2, <3>3 DEF n
  <2>2. CASE v # u
    BY <1>1, <1>3, <2>2 DEF NextTable, UserTable
  <2> QED
    BY <2>1, <2>2
<1>14. \A v \in User : GroupIn(T, v) \in Group \cup {NoGroup}
  BY <1>1 DEF GroupIn, UserTable, UserRecord
<1>15. Placed(e, N)
  <2>1. Placed(d, T)
    BY DEF Sound
  <2>2. \A v \in User : GroupIn(N, v) = GroupIn(T, v) /\ IpIn(N, v) = IpIn(T, v)
    BY <1>13 DEF GroupIn, IpIn
  <2> HIDE DEF T, N
  <2> QED
    BY <1>11, <1>12, <1>13, <1>14, <2>1, <2>2 DEF Placed
<1>16. N = [T EXCEPT ![u].disabled = TRUE]
  BY <1>1, <1>3 DEF NextTable, NextRecord, UserTable
<1> QED
  BY <1>1, <1>10, <1>11, <1>15, <1>16 DEF Sound, UserDisabled

-----------------------------------------------------------------------------
(***************************************************************************)
(* One owner for every address.                                            *)
(***************************************************************************)
LEMMA SameAddresses ==
  ASSUME NEW d, OwnAddresses(d), NEW e,
         \A u \in User : IpIn(LoadUsers(e), u) = IpIn(LoadUsers(d), u)
  PROVE  OwnAddresses(e)
  BY DEF OwnAddresses

\* One account was given an address nobody else holds, or none, or kept its own.
LEMMA OneMoreAddress ==
  ASSUME NEW d, OwnAddresses(d), NEW e, NEW u \in User,
         \A v \in User \ {u} : IpIn(LoadUsers(e), v) = IpIn(LoadUsers(d), v),
         \/ IpIn(LoadUsers(e), u) = NoIp
         \/ \A v \in User \ {u} : IpIn(LoadUsers(d), v) # IpIn(LoadUsers(e), u)
  PROVE  OwnAddresses(e)
  BY DEF OwnAddresses

\* At every stage of a mutation the target reads with no address, with the one it had or
\* with the one it is to have.
LEMMA TargetAddress ==
  ASSUME NEW b, NEW r, Ready(b, r),
         NEW e, e \in {AtMap(b, r), AtUserConfig(b, r), Changed(b, r)}
  PROVE  LET T == LoadUsers(b) IN
         IpIn(LoadUsers(e), r.user) \in {NoIp, IpIn(T, r.user), IpIn(NextTable(T, r), r.user)}
<1> DEFINE d == Synced(b, r)  l == Loaded(d)  u == r.user  T == LoadUsers(b)  N == NextTable(T, r)
           c == Changed(b, r)
<1>1. /\ Accepted(d, r) /\ Taken(d, r) /\ Disk(d) /\ MapAgrees(d) /\ LoadUsers(d) = T
      /\ u \in User /\ T \in UserTable /\ Applies(T[u], r) /\ LoadUsers(c) = N
  BY ReadyAccepted, AcceptedApplies, SyncedSound, ChangedSound DEF Accepted, Taken, Ready
<1>2. CASE e \in {AtUserConfig(b, r), c}
  <2>1. StoredUsers(e) = StoredUsers(c) /\ Metadata(e) = Metadata(c)
    BY <1>1, <1>2, StageFiles
  <2>2. LoadUsers(e) = N
    BY <1>1, <2>1, SameRecords
  <2> QED
    BY <2>2
<1>3. CASE e = AtMap(b, r)
  <2>1. /\ Disk(e) /\ Metadata(e) = Metadata(d)
        /\ StoredUsers(e) = IF WritesUsers(r) THEN UsersAfter(d, l, r) ELSE StoredUsers(d)
    BY <1>1, <1>3, StageFiles
  <2> DEFINE s == StoredUsers(d)[u]  L == StoredUsers(e)[u]  n == NextRecord(T[u], r)
  <2>2. L = NextLine(s, T[u], r)
    BY <1>1, <2>1, WrittenLines
  <2>3. s \in UserRecord \cup {NoUser} /\ RowStores(s, Metadata(d).groups[u], Metadata(d).ips[u], T[u])
    BY <1>1, StoredTyped, RowsStored DEF UserTable
  <2>4. /\ L = NoUser <=> n = NoUser
        /\ n # NoUser => L.ip = IF JsonStore THEN n.ip ELSE NoIp
    BY <1>1, <2>2, <2>3, NextLineFields
  <2>5. N[u] = n
    BY <1>1 DEF NextTable, UserTable
  <2>6. Metadata(d).ips[u] = NoIp \/ Metadata(d).ips[u] = IpIn(T, u)
    BY <1>1 DEF MapAgrees
  <2>7. /\ LoadUser(e, u) = NoUser <=> L = NoUser
        /\ L # NoUser => LoadUser(e, u).ip = IF L.ip = NoIp THEN Metadata(d).ips[u] ELSE L.ip
    BY <1>1, <2>1, LoadUserFields
  <2>8. LoadUsers(e)[u] = LoadUser(e, u)
    BY <1>1 DEF LoadUsers
  <2> HIDE DEF s, L, n, N, T, d, u
  <2>9. CASE n = NoUser
    BY <2>4, <2>7, <2>8, <2>9 DEF IpIn, u
  <2>10. CASE n # NoUser
    <3>1. LoadUsers(e)[u] # NoUser /\ N[u] # NoUser
      BY <2>4, <2>5, <2>7, <2>8, <2>10
    <3>2. IpIn(LoadUsers(e), u) = LoadUser(e, u).ip /\ IpIn(N, u) = n.ip
      BY <2>5, <2>8, <2>10, <3>1 DEF IpIn
    <3>3. LoadUser(e, u).ip \in {NoIp, IpIn(T, u), n.ip}
      BY <2>4, <2>6, <2>7, <2>8, <2>10, <3>1
    <3> QED
      BY <3>2, <3>3 DEF u, T, N
  <2> QED
    BY <2>9, <2>10
<1> QED
  BY <1>2, <1>3

\* The address a mutation gives its target is the one it had or belongs to nobody else.
LEMMA NextAddress ==
  ASSUME NEW b, NEW r, Ready(b, r)
  PROVE  LET T == LoadUsers(b)  ip == IpIn(NextTable(T, r), r.user) IN
         \/ ip = NoIp \/ ip = IpIn(T, r.user)
         \/ \A v \in User \ {r.user} : IpIn(T, v) # ip
<1> DEFINE d == Synced(b, r)  l == Loaded(d)  u == r.user  T == LoadUsers(b)  n == NextRecord(T[u], r)
           ip == IpIn(NextTable(T, r), u)
<1>1. /\ u \in User /\ T \in UserTable /\ Applies(T[u], r) /\ l.users = T
      /\ RecordAccepted(d, l, r) /\ r.action \in ManagedAction
      /\ r.action = "create_user" => T[u] = NoUser
  BY ReadyAccepted, AcceptedApplies, SyncedSound DEF Ready, Records, Loaded
<1>2. NextTable(T, r)[u] = n
  BY <1>1 DEF NextTable, UserTable
<1>3. /\ n = NoUser <=> r.action = "delete_user"
      /\ r.action # "delete_user" =>
           n.ip = IF r.action \in {"create_user", "update_user_ip"} THEN r.ip ELSE T[u].ip
      /\ r.action # "create_user" => T[u] # NoUser
  BY <1>1, NextRecordFields DEF Applies
<1>4. CASE r.action = "delete_user"
  BY <1>2, <1>3, <1>4 DEF IpIn
<1>5. CASE r.action \in {"assign_group", "disable_user"}
  <2>1. T[u] # NoUser /\ n # NoUser
    BY <1>3, <1>5
  <2>2. n.ip = T[u].ip
    BY <1>3, <1>5
  <2> HIDE DEF n, T
  <2> QED
    BY <1>2, <2>1, <2>2 DEF IpIn, T
<1>6. CASE r.action \in {"create_user", "update_user_ip"}
  <2>1. n # NoUser /\ n.ip = r.ip
    BY <1>3, <1>6
  <2>2. \E g : IpAccepted(d, u, g, r.ip, T)
    BY <1>1, <1>6 DEF RecordAccepted
  <2>3. r.ip = NoIp \/ \A v \in User \ {u} : T[v] # NoUser => T[v].ip # r.ip
    BY <2>2 DEF IpAccepted
  <2> HIDE DEF n, T
  <2>4. ip = r.ip
    BY <1>2, <2>1 DEF IpIn
  <2> HIDE DEF ip
  <2>5. ip = NoIp \/ \A v \in User \ {u} : IpIn(T, v) # ip
    BY <2>3, <2>4 DEF IpIn
  <2> QED
    BY <2>5 DEF T, ip
<1> QED
  BY <1>1, <1>4, <1>5, <1>6 DEF ManagedAction

LEMMA StageOwn ==
  ASSUME NEW b, NEW r, Ready(b, r), OwnAddresses(b),
         NEW e, e \in {AtUsers(b, r), AtMap(b, r), AtUserConfig(b, r), Changed(b, r)}
  PROVE  OwnAddresses(e)
<1> DEFINE T == LoadUsers(b)  u == r.user  U == LoadUsers(e)
<1>0. Disk(b) /\ Sound(b) /\ RequestOK(r) /\ Taken(Synced(b, r), r) /\ u \in User
  BY ReadyAccepted, AcceptedApplies DEF Ready
<1>1. CASE e = AtUsers(b, r)
  <2>1. LoadUsers(e) = T
    BY <1>0, <1>1, SyncedSound DEF AtUsers
  <2> QED
    BY <2>1, SameAddresses
<1>2. CASE e \in {AtMap(b, r), AtUserConfig(b, r), Changed(b, r)}
  <2>1. ASSUME NEW v \in User \ {u} PROVE IpIn(U, v) = IpIn(T, v)
    <3>1. LoadUser(e, v) = LoadUser(b, v)
      BY <1>0, <1>2, OthersKept
    <3> QED
      BY <3>1 DEF IpIn, LoadUsers
  <2>2. IpIn(U, u) = NoIp \/ \A v \in User \ {u} : IpIn(T, v) # IpIn(U, u)
    <3>1. IpIn(U, u) \in {NoIp, IpIn(T, u), IpIn(NextTable(T, r), u)}
      BY <1>2, TargetAddress
    <3>2. \/ IpIn(NextTable(T, r), u) = NoIp \/ IpIn(NextTable(T, r), u) = IpIn(T, u)
          \/ \A v \in User \ {u} : IpIn(T, v) # IpIn(NextTable(T, r), u)
      BY NextAddress
    <3>3. IpIn(T, u) = NoIp \/ \A v \in User \ {u} : IpIn(T, v) # IpIn(T, u)
      BY <1>0 DEF OwnAddresses
    <3> HIDE DEF T, u, U
    <3> QED
      BY <3>1, <3>2, <3>3
  <2> QED
    BY <1>0, <2>1, <2>2, OneMoreAddress
<1> QED
  BY <1>1, <1>2

\* Some members of a group disabled.
DisabledTable(T, S) == [u \in User |-> IF u \in S THEN [T[u] EXCEPT !.disabled = TRUE] ELSE T[u]]

LEMMA OneMoreDisabled ==
  ASSUME NEW T \in UserTable, NEW S \in SUBSET User, NEW u \in User, T[u] # NoUser,
         \A v \in S : T[v] # NoUser
  PROVE  [DisabledTable(T, S) EXCEPT ![u].disabled = TRUE] = DisabledTable(T, S \cup {u})
<1> DEFINE D == DisabledTable(T, S)
<1>1. \A v \in User : D[v] = IF v \in S THEN [T[v] EXCEPT !.disabled = TRUE] ELSE T[v]
  BY DEF DisabledTable
<1>2. [D[u] EXCEPT !.disabled = TRUE] = [T[u] EXCEPT !.disabled = TRUE]
  BY <1>1 DEF UserTable, UserRecord
<1>3. [D EXCEPT ![u].disabled = TRUE] = DisabledTable(T, S \cup {u})
  <2>1. D = [v \in User |-> D[v]]
    BY DEF DisabledTable
  <2>2. [D EXCEPT ![u].disabled = TRUE] = [v \in User |-> IF v = u THEN [D[v] EXCEPT !.disabled = TRUE] ELSE D[v]]
    BY <2>1
  <2> HIDE DEF D
  <2> QED
    BY <1>1, <1>2, <2>2 DEF DisabledTable
<1> QED
  BY <1>3

LEMMA DisabledAddresses ==
  ASSUME NEW T \in UserTable, NEW S, \A v \in S : T[v] # NoUser, NEW v \in User
  PROVE  IpIn(DisabledTable(T, S), v) = IpIn(T, v)
<1> DEFINE D == DisabledTable(T, S)
<1>1. D[v] = IF v \in S THEN [T[v] EXCEPT !.disabled = TRUE] ELSE T[v]
  BY DEF DisabledTable
<1>2. CASE v \in S
  <2>1. T[v] \in UserRecord
    BY <1>2 DEF UserTable
  <2>2. D[v] \in UserRecord /\ D[v].ip = T[v].ip
    BY <1>1, <1>2, <2>1 DEF UserRecord
  <2> QED
    BY <1>2, <2>1, <2>2, AtomsDistinct DEF IpIn, UserRecord
<1>3. CASE v \notin S
  BY <1>1, <1>3 DEF IpIn
<1> QED
  BY <1>2, <1>3

-----------------------------------------------------------------------------
(***************************************************************************)
(* What a sound disk is good for.                                          *)
(***************************************************************************)
\* preflightMutation finds no conflict on it.
LEMMA SoundHasNoConflict ==
  ASSUME NEW d, Disk(d), Sound(d)
  PROVE  Conflicts(d) = {}
<1> DEFINE T == LoadUsers(d)
<1>1. ASSUME NEW u \in User
      PROVE  /\ LoadGroupMap(d)[u] = GroupIn(T, u) /\ LoadUser(d, u) = T[u]
             /\ GroupIn(T, u) \in AllowedGroups(d) \cup {NoGroup}
  BY SoundReads DEF Sound, Placed
<1> HIDE DEF T
<1> QED
  BY <1>1, AtomsDistinct DEF Conflicts, GroupIn

\* Every address lies in the pool of its group and is the one ocserv is told to assign.
LEMMA SoundAddresses ==
  ASSUME NEW d, Disk(d), Sound(d), NEW u \in User, LoadUser(d, u) # NoUser, LoadUser(d, u).ip # NoIp
  PROVE  /\ LoadUser(d, u).group # NoGroup
         /\ LoadUser(d, u).ip \in GroupPool(d, LoadUser(d, u).group)
         /\ d[UserConfig(u)] = LoadUser(d, u).ip
<1> DEFINE T == LoadUsers(d)
<1>1. T[u] = LoadUser(d, u)
  BY DEF LoadUsers
<1>2. /\ IpIn(T, u) # NoIp => GroupIn(T, u) # NoGroup /\ IpIn(T, u) \in GroupPool(d, GroupIn(T, u))
      /\ T[u] # NoUser => d[UserConfig(u)] = IF T[u].ip = NoIp THEN Absent ELSE T[u].ip
  BY DEF Sound, Placed
<1> HIDE DEF T
<1> QED
  BY <1>1, <1>2 DEF GroupIn, IpIn

\* A user that is not there has no address, in the map or in config-per-user.
LEMMA SoundLeavesNothing ==
  ASSUME NEW d, Disk(d), Sound(d), NEW u \in User, LoadUser(d, u) = NoUser
  PROVE  Metadata(d).ips[u] = NoIp /\ d[UserConfig(u)] \notin Ip
<1>1. LoadUsers(d)[u] = NoUser
  BY DEF LoadUsers
<1> QED
  BY <1>1 DEF Sound, Placed, MapAgrees, IpIn

-----------------------------------------------------------------------------
(***************************************************************************)
(* The same change, as the table of accounts sees it.                      *)
(***************************************************************************)
\* The table T and the pools of d allow u, as a member of g, the address ip.
MayPin(d, T, u, g, ip) ==
  ip # NoIp => /\ \A v \in User : T[v] # NoUser /\ T[v].ip = ip => v = u
               /\ g \in AllowedGroups(d) /\ g # NoGroup /\ ip \in GroupPool(d, g)

TableChanges(d, T, r, N) ==
  LET u == r.user IN
  \/ /\ T[u] = NoUser /\ r.group \in AllowedGroups(d) \cup {NoGroup} /\ r.ip \in Ip \cup {NoIp}
     /\ MayPin(d, T, u, r.group, r.ip)
     /\ N = [T EXCEPT ![u] = [group |-> r.group, disabled |-> FALSE, ip |-> r.ip]]
  \/ /\ T[u] # NoUser /\ r.group \in AllowedGroups(d)
     /\ MayPin(d, T, u, r.group, T[u].ip)
     /\ N = [T EXCEPT ![u] = [T[u] EXCEPT !.group = r.group]]
  \/ /\ T[u] # NoUser /\ r.ip \in Ip
     /\ MayPin(d, T, u, T[u].group, r.ip)
     /\ N = [T EXCEPT ![u] = [T[u] EXCEPT !.ip = r.ip]]
  \/ T[u] # NoUser /\ N = [T EXCEPT ![u] = [T[u] EXCEPT !.disabled = TRUE]]
  \/ T[u] # NoUser /\ N = [T EXCEPT ![u] = NoUser]

LEMMA ChangedTable ==
  ASSUME NEW b, NEW r, Ready(b, r),
         r.action \in {"create_user", "assign_group"} => r.group \in AllowedGroups(b) \cup {NoGroup}
  PROVE  r.user \in User /\ TableChanges(b, LoadUsers(b), r, LoadUsers(Changed(b, r)))
<1> DEFINE d == Synced(b, r)  l == Loaded(d)  T == LoadUsers(b)  u == r.user
           N == LoadUsers(Changed(b, r))
<1>1. /\ Disk(b) /\ RequestOK(r) /\ r.action \in ManagedAction /\ u \in User
      /\ RecordAccepted(d, l, r) /\ l.users = T /\ T \in UserTable /\ Placed(b, T)
      /\ \A g \in Group : GroupPool(d, g) = GroupPool(b, g)
  <2>1. LoadUsers(d) = T /\ Placed(b, T) /\ \A g \in Group : GroupPool(d, g) = GroupPool(b, g)
    BY SyncedSound, SyncedKeeps DEF Ready, Sound
  <2> QED
    BY <2>1, LoadedTyped DEF Ready, Records, Loaded, RequestOK
<1>2. N = [T EXCEPT ![u] = NextRecord(T[u], r)]
  BY ChangedSound DEF NextTable
<1>3. AllowedGroups(b) \subseteq Group
  BY <1>1, GroupsTyped
<1>4. ASSUME NEW g \in AllowedGroups(b) \cup {NoGroup}, NEW ip, IpAccepted(d, u, g, ip, T)
      PROVE  MayPin(b, T, u, g, ip)
  BY <1>1, <1>3, <1>4 DEF IpAccepted, MayPin
<1> HIDE DEF d, l, T, u, N
<1>5. CASE r.action = "create_user"
  <2>1. T[u] = NoUser /\ IpAccepted(d, u, r.group, r.ip, T) /\ r.ip \in Ip \cup {NoIp}
    BY <1>1, <1>5 DEF RecordAccepted, RequestOK, u
  <2>2. r.group \in AllowedGroups(b) \cup {NoGroup}
    BY <1>5
  <2>3. N = [T EXCEPT ![u] = [group |-> r.group, disabled |-> FALSE, ip |-> r.ip]]
    BY <1>2, <1>5 DEF NextRecord
  <2> QED
    BY <1>1, <1>4, <2>1, <2>2, <2>3 DEF TableChanges, T, N, u
<1>6. CASE r.action = "assign_group"
  <2>1. T[u] # NoUser /\ IpAccepted(d, u, r.group, T[u].ip, T)
    BY <1>1, <1>6 DEF RecordAccepted, u
  <2>2. r.group \in AllowedGroups(b)
    BY <1>1, <1>6, AtomsDistinct DEF RequestOK
  <2>3. N = [T EXCEPT ![u] = [T[u] EXCEPT !.group = r.group]]
    BY <1>2, <1>6 DEF NextRecord
  <2> QED
    BY <1>1, <1>4, <2>1, <2>2, <2>3 DEF TableChanges, T, N, u
<1>7. CASE r.action = "update_user_ip"
  <2>1. T[u] # NoUser /\ IpAccepted(d, u, T[u].group, r.ip, T) /\ r.ip \in Ip
    BY <1>1, <1>7 DEF RecordAccepted, RequestOK, u
  <2>2. T[u].group \in AllowedGroups(b) \cup {NoGroup}
    BY <1>1, <2>1 DEF Placed, GroupIn
  <2>3. N = [T EXCEPT ![u] = [T[u] EXCEPT !.ip = r.ip]]
    BY <1>2, <1>7 DEF NextRecord
  <2> QED
    BY <1>1, <1>4, <2>1, <2>2, <2>3 DEF TableChanges, T, N, u
<1>8. CASE r.action = "disable_user"
  <2>1. T[u] # NoUser
    BY <1>1, <1>8 DEF RecordAccepted, u
  <2>2. N = [T EXCEPT ![u] = [T[u] EXCEPT !.disabled = TRUE]]
    BY <1>2, <1>8 DEF NextRecord
  <2> QED
    BY <1>1, <2>1, <2>2 DEF TableChanges, T, N, u
<1>9. CASE r.action = "delete_user"
  <2>1. T[u] # NoUser
    BY <1>1, <1>9 DEF RecordAccepted, u
  <2>2. N = [T EXCEPT ![u] = NoUser]
    BY <1>2, <1>9 DEF NextRecord
  <2> QED
    BY <1>1, <2>1, <2>2 DEF TableChanges, T, N, u
<1> QED
  BY <1>1, <1>5, <1>6, <1>7, <1>8, <1>9 DEF ManagedAction
=============================================================================
