------------------------------ MODULE SoundDisk ------------------------------
(***************************************************************************)
(* When the files of a disk say the same of every account.  An undisturbed *)
(* backend that finds a sound disk keeps it sound (SoundDiskProofs).       *)
(***************************************************************************)
EXTENDS OcservFiles

\* The group and the address of a user in a table of accounts.
GroupIn(T, u) == IF T[u] = NoUser THEN NoGroup ELSE T[u].group
IpIn(T, u)    == IF T[u] = NoUser THEN NoIp ELSE T[u].ip

\* Each section of user-groups.json is empty or says what the records say.
MapAgrees(d) ==
  /\ \/ \A u \in User : Metadata(d).groups[u] = NoGroup
     \/ \A u \in User : Metadata(d).groups[u] = GroupIn(LoadUsers(d), u)
  /\ \/ \A u \in User : Metadata(d).ips[u] = NoIp
     \/ \A u \in User : Metadata(d).ips[u] = IpIn(LoadUsers(d), u)

\* Every group is one the tool knows, every address lies in the pool of its group and is
\* what config-per-user tells ocserv; config-per-user pins no address for anyone else.
Placed(d, T) ==
  \A u \in User :
    /\ GroupIn(T, u) \in AllowedGroups(d) \cup {NoGroup}
    /\ IpIn(T, u) # NoIp => GroupIn(T, u) # NoGroup /\ IpIn(T, u) \in GroupPool(d, GroupIn(T, u))
    /\ T[u] # NoUser => d[UserConfig(u)] = IF T[u].ip = NoIp THEN Absent ELSE T[u].ip
    /\ T[u] = NoUser => d[UserConfig(u)] \notin Ip

\* Rendering the templates anew moves no pool.
PoolsRendered(d) ==
  \A g \in Group :
    GroupPool(d, g) = IF d[GroupTemplate(g)] = Absent THEN {} ELSE d[GroupTemplate(g)]

Sound(d) == MapAgrees(d) /\ Placed(d, LoadUsers(d)) /\ PoolsRendered(d)

\* Two accounts never hold the same address.
OwnAddresses(d) ==
  \A u, v \in User : u # v /\ IpIn(LoadUsers(d), u) # NoIp
    => IpIn(LoadUsers(d), v) # IpIn(LoadUsers(d), u)
=============================================================================
