-------------------------- MODULE ManagedMutation --------------------------
(***************************************************************************)
(* The mutation pipeline of src/src/adapter_mutations.py and the record    *)
(* functions of src/src/ocserv_adapter.py that run inside and outside it.  *)
(*                                                                         *)
(* Proc is the set of backend processes.  The packaged deployment runs one *)
(* (a single-threaded WSGI server); file_lock.py exists for more than one. *)
(* A request that is refused before it writes (lock taken, preflight       *)
(* error, confirmation pending) changes nothing and is a stuttering step.  *)
(***************************************************************************)
EXTENDS OcservFiles

CONSTANTS
  Proc,           \* backend processes
  NoProc,         \* the lock is free
  NoRequest,      \* a process is between two requests
  Down,           \* ocserv is not running
  NoChange,       \* nothing to roll back
  Requests,       \* the requests operators send
  InitialDisks,   \* the disks the backend may find at its first start
  MaxRequests,    \* bound: requests started in a behaviour
  AllowCrash,     \* TRUE: a process may die between any two steps
  AllowTimeout    \* TRUE: the ocpasswd of create_user may outlive its timeout

ASSUME ProcAssumption  == NoProc \notin Proc
ASSUME BoundAssumption == MaxRequests \in Nat
ASSUME FaultAssumption == AllowCrash \in BOOLEAN /\ AllowTimeout \in BOOLEAN
ASSUME DiskAssumption  == \A d \in InitialDisks : Disk(d)
ASSUME RequestAssumption == \A r \in Requests : RequestOK(r)
ASSUME UndoAssumption ==  \* no rollback state, and no table of accounts, is an atom
  /\ Absent \notin [snapshots : UNION {[files -> UNION {Content(f) : f \in File}] : files \in SUBSET File},
                    changed : SUBSET File]
  /\ NoChange \notin [accounts : UserTable,
                      pools : UNION {[known -> SUBSET Ip] : known \in SUBSET Group}]

VARIABLES
  disk,       \* every managed file
  undoFile,   \* last-rollback.json: snapshots and changed files, or Absent
  lock,       \* holder of .mutation.lock
  pc, req, snap, loaded,  \* per process: next step, request, snapshots, loaded records
  running     \* the service files ocserv runs with, or Down

\* History: seen by no step, read by the properties only.
VARIABLES
  before,      \* per process: disk and running when its request began
  lastChange,  \* last change that reached the files: disk before it, and whether undoFile
               \* describes it; NoChange when there is none to undo
  intact,      \* no crash, timeout or rollback past an unrecorded change has happened
  requests     \* requests begun

private == <<pc, req, snap, loaded, before>>
vars == <<disk, undoFile, lock, private, running, lastChange, intact, requests>>

Served(d) == [f \in ServiceFiles |-> d[f]]
Empty     == [f \in {} |-> Absent]

Init ==
  /\ disk \in InitialDisks
  /\ undoFile = Absent
  /\ lock = NoProc
  /\ pc = [p \in Proc |-> "idle"]
  /\ req = [p \in Proc |-> NoRequest]
  /\ snap = [p \in Proc |-> Empty]
  /\ loaded = [p \in Proc |-> NoRequest]
  /\ before = [p \in Proc |-> NoRequest]
  /\ running = Served(disk)
  /\ lastChange = NoChange
  /\ intact = TRUE
  /\ requests = 0

-----------------------------------------------------------------------------
(***************************************************************************)
(* Steps shared by all requests.                                           *)
(***************************************************************************)
Goto(p, label) == pc' = [pc EXCEPT ![p] = label]

Start(p, r, label) ==
  /\ pc[p] = "idle" /\ requests < MaxRequests
  /\ Goto(p, label)
  /\ req' = [req EXCEPT ![p] = r]
  /\ before' = [before EXCEPT ![p] = [disk |-> disk, running |-> running]]
  /\ requests' = requests + 1

\* The request ends, whatever its outcome, and the process forgets it.
End(p) ==
  /\ Goto(p, "idle")
  /\ req' = [req EXCEPT ![p] = NoRequest]
  /\ snap' = [snap EXCEPT ![p] = Empty]
  /\ loaded' = [loaded EXCEPT ![p] = NoRequest]
  /\ before' = [before EXCEPT ![p] = NoRequest]

Release(p) == lock' = IF lock = p THEN NoProc ELSE lock

\* The request leaves the disk different from what it found, and undoFile as it was.
NoteUnrecorded(p) ==
  lastChange' = IF disk' = before[p].disk THEN lastChange
                ELSE [before |-> before[p].disk, recorded |-> FALSE]

(***************************************************************************)
(* applyManagedMutation.                                                   *)
(***************************************************************************)
\* Lock, preflight and snapshots.
BeginManaged_NoLock(p, r) ==
  /\ r.action \in ManagedAction
  /\ \E blocked \in BOOLEAN : PreflightOk(disk, r, blocked)
  /\ Start(p, r, "sync")
  /\ lock' = p
  /\ snap' = [snap EXCEPT ![p] = Snapshot(disk, PlannedFiles(r))]
  /\ UNCHANGED <<disk, undoFile, loaded, running, lastChange, intact>>
BeginManaged(p, r) ==
  /\ r.action \in ManagedAction
  /\ lock = NoProc
  /\ \E blocked \in BOOLEAN : PreflightOk(disk, r, blocked)
  /\ Start(p, r, "sync")
  /\ lock' = p
  /\ snap' = [snap EXCEPT ![p] = Snapshot(disk, PlannedFiles(r))]
  /\ UNCHANGED <<disk, undoFile, loaded, running, lastChange, intact>>

SyncTemplates(p) ==
  /\ pc[p] = "sync"
  /\ disk' = Synced(disk, req[p])
  /\ Goto(p, "load")
  /\ UNCHANGED <<undoFile, lock, req, snap, loaded, before, running, lastChange, intact, requests>>

\* The record function loads the stores and repeats its checks.
LoadRecords(p) ==
  /\ pc[p] = "load"
  /\ loaded' = [loaded EXCEPT ![p] = Loaded(disk)]
  /\ Goto(p, IF RecordAccepted(disk, Loaded(disk), req[p]) THEN "users" ELSE "restore")
  /\ UNCHANGED <<disk, undoFile, lock, req, snap, before, running, lastChange, intact, requests>>

\* ocpasswd locks or deletes only a user its file holds.
UsersWritable(p) ==
  req[p].action \in {"disable_user", "delete_user"}
    => EditedUsers(disk, loaded[p])[req[p].user] # NoUser

UsersWritten(p) ==
  IF WritesUsers(req[p])
  THEN [disk EXCEPT ![UsersFile] = UsersAfter(disk, loaded[p], req[p])] ELSE disk

WriteUsers(p) ==
  /\ pc[p] = "users" /\ UsersWritable(p)
  /\ disk' = UsersWritten(p)
  /\ Goto(p, "map")
  /\ UNCHANGED <<undoFile, lock, req, snap, loaded, before, running, lastChange, intact, requests>>

\* ocpasswd returns an error: USER_CREATE_FAILED and its like, a ValueError.
UsersCommandFails(p) ==
  /\ pc[p] = "users" /\ ~JsonStore
  /\ req[p].action \in {"create_user", "disable_user", "delete_user"}
  /\ Goto(p, "restore")
  /\ UNCHANGED <<disk, undoFile, lock, req, snap, loaded, before, running, lastChange, intact, requests>>

\* The ocpasswd of create_user is run without _run_command, so TimeoutExpired escapes
\* the pipeline: the lock is released and nothing is restored.
CreateTimesOut(p) ==
  /\ AllowTimeout /\ pc[p] = "users" /\ ~JsonStore
  /\ req[p].action = "create_user"
  /\ disk' \in {disk, UsersWritten(p)}
  /\ intact' = FALSE
  /\ NoteUnrecorded(p) /\ Release(p) /\ End(p)
  /\ UNCHANGED <<undoFile, running, requests>>

WriteMap(p) ==
  /\ pc[p] = "map"
  /\ disk' = IF WritesMap(req[p])
             THEN [disk EXCEPT ![UserGroupMapFile] = MapAfter(disk, loaded[p], req[p])] ELSE disk
  /\ Goto(p, "user config")
  /\ UNCHANGED <<undoFile, lock, req, snap, loaded, before, running, lastChange, intact, requests>>

WriteUserConfig(p) ==
  /\ pc[p] = "user config"
  /\ disk' = IF WritesUserConfig(req[p])
             THEN [disk EXCEPT ![UserConfig(req[p].user)] = UserConfigAfter(disk, loaded[p], req[p])]
             ELSE disk
  /\ Goto(p, "activate")
  /\ UNCHANGED <<undoFile, lock, req, snap, loaded, before, running, lastChange, intact, requests>>

\* What activateService can do to ocserv.  A restart that fails may leave the service as
\* it was, stopped, or up with the new files and unhealthy; a reload rereads none of the
\* service files and needs a running service.  A failed validation runs no command.
Activated(changed) ==
  {s \in {IF NeedsRestart(changed) THEN Served(disk) ELSE running} : s # Down}
ActivationFailures(changed) ==
  {running} \cup (IF NeedsRestart(changed) THEN {Served(disk), Down} ELSE {})

ActivateOk(p) ==
  /\ pc[p] = "activate"
  /\ running' \in Activated(ChangedFiles(disk, snap[p]))
  /\ Goto(p, "verify")
  /\ UNCHANGED <<disk, undoFile, lock, req, snap, loaded, before, lastChange, intact, requests>>

ActivateFails(p) ==
  /\ pc[p] = "activate"
  /\ running' \in ActivationFailures(ChangedFiles(disk, snap[p]))
  /\ Goto(p, "restore")
  /\ UNCHANGED <<disk, undoFile, lock, req, snap, loaded, before, lastChange, intact, requests>>

\* verifyMutation; occtl may report another group for the target of assign_group.
Verify(p) ==
  /\ pc[p] = "verify"
  /\ \E sameGroup \in {TRUE, req[p].action # "assign_group"} :
       Goto(p, IF sameGroup /\ Verified(disk, req[p]) THEN "store" ELSE "restore")
  /\ UNCHANGED <<disk, undoFile, lock, req, snap, loaded, before, running, lastChange, intact, requests>>

\* The rollback state is written last, after the change is live.
StoreRollbackState(p) ==
  /\ pc[p] = "store"
  /\ undoFile' = [snapshots |-> snap[p], changed |-> ChangedFiles(disk, snap[p])]
  /\ lastChange' = [before |-> before[p].disk, recorded |-> TRUE]
  /\ Release(p) /\ End(p)
  /\ UNCHANGED <<disk, running, intact, requests>>

\* except ValueError: the snapshots go back and the caller gets an error.
RestoreSnapshots(p) ==
  /\ pc[p] = "restore"
  /\ disk' = Restored(disk, snap[p])
  /\ Release(p) /\ End(p)
  /\ UNCHANGED <<undoFile, running, lastChange, intact, requests>>

-----------------------------------------------------------------------------
(***************************************************************************)
(* Group operations: no lock, no snapshot, no activation.                  *)
(***************************************************************************)
BeginCreateGroup(p, r) ==
  /\ r.action = "create_group"
  /\ r.group \notin AllowedGroups(disk)
  /\ Start(p, r, "template")
  /\ disk' = [disk EXCEPT ![GroupsFile] = (IF @ = Absent THEN {} ELSE @) \cup {r.group}]
  /\ UNCHANGED <<undoFile, lock, snap, loaded, running, lastChange, intact>>

WriteGroupTemplate(p) ==
  /\ pc[p] = "template"
  /\ disk' = [disk EXCEPT ![GroupTemplate(req[p].group)] = req[p].pool]
  /\ NoteUnrecorded(p) /\ End(p)
  /\ UNCHANGED <<undoFile, lock, running, intact, requests>>

GroupInUse_Unchecked(g) == FALSE
GroupInUse(g) == \E u \in User : LoadGroupMap(disk)[u] = g

BeginDeleteGroup(p, r) ==
  /\ r.action = "delete_group"
  /\ r.group \in AllowedGroups(disk) \ ProtectedGroup
  /\ ~GroupInUse(r.group)
  /\ Start(p, r, "unlink")
  /\ disk' = [disk EXCEPT ![GroupsFile] = IF @ = Absent THEN @ ELSE @ \ {r.group}]
  /\ UNCHANGED <<undoFile, lock, snap, loaded, running, lastChange, intact>>

UnlinkGroupFiles(p) ==
  /\ pc[p] = "unlink"
  /\ disk' = [disk EXCEPT ![GroupConfig(req[p].group)] = Absent,
                          ![GroupTemplate(req[p].group)] = Absent]
  /\ NoteUnrecorded(p) /\ End(p)
  /\ UNCHANGED <<undoFile, lock, running, intact, requests>>

\* The members still enabled, chosen once; loaded holds those not yet disabled.
DisableTargets(g) ==
  {u \in User : /\ LoadGroupMap(disk)[u] = g
                /\ LoadUser(disk, u) # NoUser /\ ~LoadUser(disk, u).disabled}

BeginDisableGroup(p, r) ==
  /\ r.action = "disable_group_users"
  /\ r.group \in AllowedGroups(disk) /\ DisableTargets(r.group) # {}
  /\ Start(p, r, "disabling")
  /\ loaded' = [loaded EXCEPT ![p] = DisableTargets(r.group)]
  /\ UNCHANGED <<disk, undoFile, lock, snap, running, lastChange, intact>>

\* One disableUserRecord; the order of the targets is left open.
DisableNext(p) ==
  /\ pc[p] = "disabling"
  /\ \E u \in loaded[p] :
       LET edited == EditedUsers(disk, Loaded(disk)) IN
       /\ edited[u] # NoUser
       /\ disk' = [disk EXCEPT ![UsersFile] = [edited EXCEPT ![u].disabled = TRUE]]
       /\ IF loaded[p] = {u} THEN NoteUnrecorded(p) /\ End(p)
          ELSE /\ loaded' = [loaded EXCEPT ![p] = @ \ {u}]
               /\ UNCHANGED <<pc, req, snap, before, lastChange>>
  /\ UNCHANGED <<undoFile, lock, running, intact, requests>>

\* ocpasswd fails for one member, or the member is gone: those before it stay disabled,
\* the rest enabled.
DisableStops(p) ==
  /\ pc[p] = "disabling"
  /\ ~JsonStore \/ \E u \in loaded[p] : LoadUser(disk, u) = NoUser
  /\ disk' = disk
  /\ NoteUnrecorded(p) /\ End(p)
  /\ UNCHANGED <<undoFile, lock, running, intact, requests>>

-----------------------------------------------------------------------------
(***************************************************************************)
(* rollbackLastChange, which takes no lock either.                         *)
(***************************************************************************)
RestoreLastChange(p, r) ==
  /\ r.action = "rollback_last_change"
  /\ undoFile # Absent
  /\ Start(p, r, "reactivate")
  /\ disk' = Restored(disk, undoFile.snapshots)
  /\ loaded' = [loaded EXCEPT ![p] = undoFile.changed]
  /\ intact' = (intact /\ lastChange.recorded)
  /\ UNCHANGED <<undoFile, lock, snap, running, lastChange>>

ReactivateOk(p) ==
  /\ pc[p] = "reactivate"
  /\ running' \in Activated(loaded[p])
  /\ undoFile' = Absent
  /\ lastChange' = NoChange
  /\ End(p)
  /\ UNCHANGED <<disk, lock, intact, requests>>

\* The files are already restored; the state file stays for another attempt.
ReactivateFails(p) ==
  /\ pc[p] = "reactivate"
  /\ running' \in ActivationFailures(loaded[p])
  /\ End(p)
  /\ UNCHANGED <<disk, undoFile, lock, lastChange, intact, requests>>

-----------------------------------------------------------------------------
Crash_KeepsLock(p) ==
  /\ AllowCrash /\ pc[p] # "idle"
  /\ disk' = disk
  /\ IF req[p].action = "rollback_last_change"
     THEN UNCHANGED <<lastChange, intact>>
     ELSE NoteUnrecorded(p) /\ intact' = (intact /\ disk = before[p].disk)
  /\ End(p)
  /\ UNCHANGED <<undoFile, lock, running, requests>>
\* The process dies: the kernel frees its lock and its memory is gone.
Crash(p) ==
  /\ AllowCrash /\ pc[p] # "idle"
  /\ disk' = disk
  /\ IF req[p].action = "rollback_last_change"
     THEN UNCHANGED <<lastChange, intact>>
     ELSE NoteUnrecorded(p) /\ intact' = (intact /\ disk = before[p].disk)
  /\ Release(p) /\ End(p)
  /\ UNCHANGED <<undoFile, running, requests>>

Begin(p) ==
  \E r \in Requests :
    \/ BeginManaged(p, r)
    \/ BeginCreateGroup(p, r)
    \/ BeginDeleteGroup(p, r)
    \/ BeginDisableGroup(p, r)
    \/ RestoreLastChange(p, r)

\* The next step of the request p is serving.
Continue(p) ==
  \/ SyncTemplates(p) \/ LoadRecords(p)
  \/ WriteUsers(p) \/ UsersCommandFails(p) \/ CreateTimesOut(p)
  \/ WriteMap(p) \/ WriteUserConfig(p)
  \/ ActivateOk(p) \/ ActivateFails(p)
  \/ Verify(p) \/ StoreRollbackState(p) \/ RestoreSnapshots(p)
  \/ WriteGroupTemplate(p) \/ UnlinkGroupFiles(p)
  \/ DisableNext(p) \/ DisableStops(p)
  \/ ReactivateOk(p) \/ ReactivateFails(p)

AllIdle == \A p \in Proc : pc[p] = "idle"

\* No request arrives, or only requests that are refused.
Wait == AllIdle /\ UNCHANGED vars

Next == (\E p \in Proc : Begin(p) \/ Continue(p) \/ Crash(p)) \/ Wait

Spec == Init /\ [][Next]_vars
\* Every step of a request ends: subprocesses run under a timeout, nothing waits on
\* the lock (it is taken without blocking).  Crashes and new requests are not promised.
FairSpec == Spec /\ \A p \in Proc : WF_vars(Continue(p))

-----------------------------------------------------------------------------
(***************************************************************************)
(* Properties.                                                             *)
(***************************************************************************)
InPipeline(p) == pc[p] \in {"sync", "load", "users", "map", "user config",
                            "activate", "verify", "store", "restore"}
Labels == {"idle", "sync", "load", "users", "map", "user config", "activate", "verify",
           "store", "restore", "template", "unlink", "disabling", "reactivate"}

\* What the step a process is at says of its request and of the records it loaded.
ServingOK(p) ==
  /\ pc[p] # "idle" => req[p] \in Requests /\ Disk(before[p].disk)
  /\ InPipeline(p) => req[p].action \in ManagedAction
  /\ pc[p] = "template" => req[p].action = "create_group"
  /\ pc[p] = "unlink" => req[p].action = "delete_group"
  /\ pc[p] \in {"users", "map", "user config"} =>
       /\ loaded[p] \in [users : UserTable, groups : GroupMap, ips : IpMap]
       /\ req[p].action # "create_user" => loaded[p].users[req[p].user] # NoUser
  /\ pc[p] = "disabling" => loaded[p] \subseteq User

\* Every variable holds what the code can put in it; in particular each file keeps a
\* content its own loader understands, also in the snapshots that may be restored.
TypeOK ==
  /\ Disk(disk)
  /\ undoFile = Absent \/ PartialDisk(undoFile.snapshots)
  /\ lock \in Proc \cup {NoProc}
  /\ pc \in [Proc -> Labels]
  /\ DOMAIN req = Proc /\ DOMAIN loaded = Proc /\ DOMAIN before = Proc /\ DOMAIN snap = Proc
  /\ \A p \in Proc : PartialDisk(snap[p]) /\ ServingOK(p)
  /\ running = Down \/ DOMAIN running = ServiceFiles
  /\ lastChange = NoChange \/ (Disk(lastChange.before) /\ lastChange.recorded \in BOOLEAN)
  /\ intact \in BOOLEAN /\ requests \in 0..MaxRequests

\* file_lock.py: the flock is held exactly by the process inside applyManagedMutation, so
\* two processes never run the pipeline at the same time.
MutualExclusion ==
  /\ \A p, q \in Proc : InPipeline(p) /\ InPipeline(q) => p = q
  /\ \A p \in Proc : InPipeline(p) <=> lock = p

\* While nothing interrupted the backend and no rollback skipped an unrecorded change,
\* the stores agree whenever no request runs: otherwise preflightMutation answers
\* CONFIG_INVENTORY_CONFLICT to every managed mutation, with no tool call to repair it.
ConsistentInventory == intact /\ AllIdle => Conflicts(disk) = {}

\* deploy/README.md: a fixed address is inside the pool of the user's group.  It must also
\* be the one ocserv is told to assign.
AddressesSound ==
  intact /\ AllIdle =>
    \A u \in User :
      LET user == LoadUser(disk, u) IN
      user # NoUser /\ user.ip # NoIp =>
        /\ user.group # NoGroup /\ user.ip \in GroupPool(disk, user.group)
        /\ disk[UserConfig(u)] = user.ip

\* A deleted user leaves no address behind, in the map or in config-per-user, that the
\* next user of that name would inherit.
NoLeftovers ==
  intact /\ AllIdle =>
    \A u \in User : LoadUser(disk, u) = NoUser =>
      Metadata(disk).ips[u] = NoIp /\ disk[UserConfig(u)] \notin Ip

\* Two users never hold the same fixed address, half way through a request or after a
\* rollback either: the uniqueness check reads the same merged records a later load will
\* return, and neither the map nor a restored file brings back an address given away since.
AddressesUnique ==
  intact =>
    \A u, v \in User :
      LoadUser(disk, u) # NoUser /\ LoadUser(disk, v) # NoUser /\ u # v
        => LoadUser(disk, u).ip = NoIp \/ LoadUser(disk, u).ip # LoadUser(disk, v).ip

\* A managed mutation changes nobody else's account, at no step and whatever an earlier crash
\* or rollback left in the files, although it writes the whole users file and the whole map
\* back from records merged of both.
OthersUntouched ==
  \A p \in Proc : InPipeline(p) =>
    \A u \in User \ {req[p].user} : LoadUser(disk, u) = LoadUser(before[p].disk, u)

\* docs/verification-plan.xml: after a failed activation or verification the managed file
\* set is restored.  A managed mutation that ends in an error puts back every file,
\* whichever step failed, while nothing was left half written by an earlier crash.
FailureLeavesNoTrace ==
  [][\A p \in Proc : intact /\ RestoreSnapshots(p) => disk' = before[p].disk]_vars

\* The same whatever happened before, but for one file: assign_group synchronises the
\* config-per-user file of its target, which is not among the files it snapshots.
FailureRestoresScope ==
  [][\A p \in Proc : RestoreSnapshots(p) =>
       \A f \in File :
         \/ disk'[f] = before[p].disk[f]
         \/ req[p].action = "assign_group" /\ f = UserConfig(req[p].user)]_vars

\* rollback_last_change gives back exactly the files the last recorded change found,
\* also when an earlier attempt to roll it back failed at the activation.
RollbackIsExact ==
  [][\A p \in Proc, r \in Requests :
       RestoreLastChange(p, r) /\ intact /\ lastChange.recorded
         => disk' = lastChange.before]_vars

\* After a mutation that reports success ocserv runs with the files now on disk, if it
\* did before: no changed service file was activated with a mere reload.
ActivationCoversChange ==
  [][\A p \in Proc :
       intact /\ StoreRollbackState(p) /\ before[p].running = Served(before[p].disk)
         => running' = Served(disk')]_vars

\* Only a rollback, of the last change or of a failed mutation, enables a disabled user.
DisabledStaysDisabled ==
  [][\A u \in User :
       /\ LoadUser(disk, u) # NoUser /\ LoadUser(disk, u).disabled
       /\ LoadUser(disk, u)' # NoUser /\ ~LoadUser(disk, u)'.disabled
       => \E p \in Proc : \/ RestoreSnapshots(p)
                          \/ \E r \in Requests : RestoreLastChange(p, r)]_vars

\* A request comes to its end, with an answer or with the death of its process, and then the
\* lock is free of it: nothing a request or a crash does leaves the next mutation locked out.
RequestsEnd == \A p \in Proc : pc[p] # "idle" ~> pc[p] = "idle" /\ lock # p

\* Seen from outside, a request changes the accounts and the groups at once or not at all:
\* the table is the one of the disk the request at work found, until it ends.
AtWork == {p \in Proc : pc[p] \notin {"idle", "reactivate"}}
CommittedDisk(atWork, found, d) ==
  IF atWork = {} THEN d ELSE found[CHOOSE p \in atWork : TRUE].disk
Committed == CommittedDisk(AtWork, before, disk)

Pools(d)   == [g \in AllowedGroups(d) |-> GroupPool(d, g)]
TableOf(d) == [accounts |-> LoadUsers(d), pools |-> Pools(d)]

Table == INSTANCE Accounts WITH
  accounts <- LoadUsers(Committed),
  pools    <- Pools(Committed),
  undo     <- IF undoFile # Absent /\ lastChange.recorded
              THEN TableOf(lastChange.before) ELSE NoChange

ImplementsAccounts == Table!Spec

\* While nothing interrupts the backend, every step of a request of any kind is one operation
\* on the table or shows nothing: a mutation takes effect when its rollback state is stored,
\* a group operation with its last file, a rollback with its first step, and a rollback gives
\* back the table before the last change only.
OperationsAtOnce == [][intact' => [Table!Next]_(Table!vars)]_vars
=============================================================================
