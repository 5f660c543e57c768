------------------------- MODULE MCManagedMutation -------------------------
(***************************************************************************)
(* Small instances of ManagedMutation.                                     *)
(***************************************************************************)
EXTENDS ManagedPromises, SoundDisk

CONSTANTS u1, u2, staff, default, a, b, p1, p2

MCUser  == {u1, u2}
MCGroup == {staff, default}
MCProtected == {default}
MCIp    == {a, b}

Record(g, off) == [group |-> g, disabled |-> off, ip |-> NoIp]

\* Nothing installed yet, but for the groups file ensure_runtime_dirs seeds before serving.
FreshDisk == [f \in File |-> IF f = GroupsFile THEN ProtectedGroup ELSE Absent]

\* A host set up by hand: ocserv.conf and its template exist, u1 was created with
\* ocpasswd in a group that has a template with both addresses, and no map exists yet.
HostDisk ==
  [f \in File |->
     CASE f = UsersFile -> [u \in User |-> IF u = u1 THEN Record(staff, FALSE) ELSE NoUser]
       [] f \in {MainTemplate, MainConfig} -> HandMade
       [] f = GroupsFile -> {staff}
       [] f = GroupTemplate(staff) -> MCIp
       [] OTHER -> Absent]

\* The same host, with an option for u1 written by hand into config-per-user.
TunedHostDisk == [HostDisk EXCEPT ![UserConfig(u1)] = HandMade]

Request(action, users, groups, ips, pools) ==
  [action : {action}, user : users, group : groups, ip : ips, pool : pools]

\* A field that an action does not use has its None; pool is the ipv4-network of a new group.
AccountRequests ==
  Request("create_user", User, Group \cup {NoGroup}, Ip \cup {NoIp}, {{}})
    \cup Request("assign_group", User, Group, {NoIp}, {{}})
    \cup Request("update_user_ip", User, {NoGroup}, Ip, {{}})
    \cup Request("disable_user", User, {NoGroup}, {NoIp}, {{}})
    \cup Request("delete_user", User, {NoGroup}, {NoIp}, {{}})
GroupRequests ==
  Request("create_group", {NoUser}, {staff}, {NoIp}, {{}, {a}})
    \cup Request("delete_group", {NoUser}, {staff}, {NoIp}, {{}})
    \cup Request("disable_group_users", {NoUser}, Group, {NoIp}, {{}})
RollbackRequests == Request("rollback_last_change", {NoUser}, {NoGroup}, {NoIp}, {{}})

\* Account changes, the group operation that edits the same users file, and rollbacks.
UsersFileRequests ==
  AccountRequests \cup Request("disable_group_users", {NoUser}, Group, {NoIp}, {{}})
    \cup RollbackRequests

AllRequests == AccountRequests \cup GroupRequests \cup RollbackRequests

MCInitialDisks == {FreshDisk, HostDisk}
MCTunedDisks   == {TunedHostDisk}

\* What the theorems about consistency assume of the disks the backend starts on; an option
\* written by hand into config-per-user is what they exclude.
ASSUME SoundInitially == \A d \in MCInitialDisks : Sound(d) /\ OwnAddresses(d)
ASSUME UnsoundInitially == \A d \in MCTunedDisks : ~Sound(d)
=============================================================================
