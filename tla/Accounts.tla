------------------------------ MODULE Accounts ------------------------------
(***************************************************************************)
(* What the operations of ocserv-admin promise: a table of accounts and    *)
(* one of groups on which every operation happens at once or not at all,   *)
(* in which a fixed address has one owner and lies in the pool of the      *)
(* owner's group, and of which one earlier state may be given back.        *)
(* ManagedMutation implements it with several files, a lock and snapshots. *)
(***************************************************************************)
CONSTANTS User, Group, ProtectedGroup, Ip, NoUser, NoGroup, NoIp,
          NoChange  \* there is nothing to give back

VARIABLES
  accounts,  \* user -> [group, disabled, ip], or NoUser
  pools,     \* known group -> addresses its members may be pinned to
  undo       \* the table before the last change, or NoChange

vars  == <<accounts, pools, undo>>
table == [accounts |-> accounts, pools |-> pools]

Exists(u) == accounts[u] # NoUser
Members(g) == {u \in User : Exists(u) /\ accounts[u].group = g}
Owner(ip) == {u \in User : Exists(u) /\ accounts[u].ip = ip}
\* u, as a member of g, may be pinned to ip.
MayHold(u, g, ip) ==
  ip # NoIp => /\ Owner(ip) \subseteq {u}
               /\ g # NoGroup /\ ip \in pools[g]

Init ==
  /\ accounts \in [User -> [group : Group \cup {NoGroup}, disabled : BOOLEAN,
                            ip : Ip \cup {NoIp}] \cup {NoUser}]
  /\ pools \in UNION {[known -> SUBSET Ip] : known \in SUBSET Group}
  /\ \A u \in User : Exists(u) =>
       /\ accounts[u].group \in DOMAIN pools \cup {NoGroup}
       /\ MayHold(u, accounts[u].group, accounts[u].ip)
  /\ undo = NoChange

(***************************************************************************)
(* The account operations can be undone.                                   *)
(***************************************************************************)
Create(u, g, ip) ==
  /\ ~Exists(u) /\ MayHold(u, g, ip)
  /\ accounts' = [accounts EXCEPT ![u] = [group |-> g, disabled |-> FALSE, ip |-> ip]]

Assign(u, g) ==
  /\ Exists(u) /\ MayHold(u, g, accounts[u].ip)
  /\ accounts' = [accounts EXCEPT ![u].group = g]

PinAddress(u, ip) ==
  /\ Exists(u) /\ MayHold(u, accounts[u].group, ip)
  /\ accounts' = [accounts EXCEPT ![u].ip = ip]

Disable(u) == Exists(u) /\ accounts' = [accounts EXCEPT ![u].disabled = TRUE]
Delete(u)  == Exists(u) /\ accounts' = [accounts EXCEPT ![u] = NoUser]

ChangeAccount ==
  /\ \E u \in User :
       \/ \E g \in DOMAIN pools \cup {NoGroup}, ip \in Ip \cup {NoIp} : Create(u, g, ip)
       \/ \E g \in DOMAIN pools : Assign(u, g)
       \/ \E ip \in Ip : PinAddress(u, ip)
       \/ Disable(u)
       \/ Delete(u)
  /\ UNCHANGED pools
  /\ undo' = table

(***************************************************************************)
(* The group operations cannot, nor can what was done before them.         *)
(***************************************************************************)
AddGroup(g, addresses) ==
  /\ g \notin DOMAIN pools
  /\ pools' = [h \in DOMAIN pools \cup {g} |-> IF h = g THEN addresses ELSE pools[h]]
  /\ UNCHANGED accounts

RemoveGroup(g) ==
  /\ g \notin ProtectedGroup /\ Members(g) = {}
  /\ pools' = [h \in DOMAIN pools \ {g} |-> pools[h]]
  /\ UNCHANGED accounts

\* An error may leave some of the members enabled.
DisableMembers(members) ==
  /\ accounts' = [u \in User |-> IF u \in members THEN [accounts[u] EXCEPT !.disabled = TRUE]
                                 ELSE accounts[u]]
  /\ UNCHANGED pools

ChangeGroup ==
  /\ \/ \E g \in Group, addresses \in SUBSET Ip : AddGroup(g, addresses)
     \/ \E g \in DOMAIN pools : RemoveGroup(g)
     \/ \E g \in DOMAIN pools : \E members \in SUBSET Members(g) : DisableMembers(members)
  /\ undo' = NoChange

\* The earlier table comes back; it stays at hand until ocserv runs with it.
Rollback ==
  /\ undo # NoChange
  /\ accounts' = undo.accounts /\ pools' = undo.pools
  /\ UNCHANGED undo

RollbackEnds ==
  /\ undo = table
  /\ undo' = NoChange
  /\ UNCHANGED <<accounts, pools>>

Next == ChangeAccount \/ ChangeGroup \/ Rollback \/ RollbackEnds

Spec == Init /\ [][Next]_vars
=============================================================================
