------------------------ MODULE ManagedMutationProofs ------------------------
(***************************************************************************)
(* The lock of the mutation pipeline and the content of every file, for    *)
(* any number of processes, users, groups, addresses and requests.         *)
(***************************************************************************)
EXTENDS ManagedMutation, SoundDiskProofs, FiniteSetTheorems

-----------------------------------------------------------------------------
(***************************************************************************)
(* Mutual exclusion.                                                       *)
(***************************************************************************)
\* The second half of MutualExclusion implies the first, and is inductive.
LockInv ==
  /\ DOMAIN pc = Proc /\ lock \in Proc \cup {NoProc}
  /\ \A p \in Proc : InPipeline(p) <=> lock = p

\* A step that moves p inside the pipeline, or outside it, and leaves the lock alone.
LEMMA MoveKeepsLock ==
  ASSUME LockInv, NEW p \in Proc, DOMAIN pc' = Proc, UNCHANGED lock,
         InPipeline(p)' <=> InPipeline(p),
         \A q \in Proc \ {p} : pc'[q] = pc[q]
  PROVE  LockInv'
  BY DEF LockInv, InPipeline

\* A step that ends the request of p and gives the lock back.
LEMMA EndKeepsLock ==
  ASSUME LockInv, NEW p \in Proc, Release(p), End(p)
  PROVE  LockInv'
  BY ProcAssumption DEF LockInv, InPipeline, Release, End, Goto

\* Taking the lock when it is free.
LEMMA BeginKeepsLock ==
  ASSUME LockInv, NEW p \in Proc, lock = NoProc, lock' = p, Goto(p, "sync")
  PROVE  LockInv'
  BY ProcAssumption DEF LockInv, InPipeline, Goto

\* Every step of a request in the pipeline that does not end it.
LEMMA PipelineKeepsLock ==
  ASSUME LockInv, NEW p \in Proc,
         \/ SyncTemplates(p) \/ LoadRecords(p) \/ WriteUsers(p) \/ UsersCommandFails(p)
         \/ WriteMap(p) \/ WriteUserConfig(p) \/ ActivateOk(p) \/ ActivateFails(p) \/ Verify(p)
  PROVE  LockInv'
<1>1. PICK label \in {"load", "users", "restore", "map", "user config", "activate", "verify", "store"} :
        Goto(p, label)
  BY DEF SyncTemplates, LoadRecords, WriteUsers, UsersCommandFails, WriteMap, WriteUserConfig,
         ActivateOk, ActivateFails, Verify
<1>2. InPipeline(p) /\ UNCHANGED lock
  BY DEF SyncTemplates, LoadRecords, WriteUsers, UsersCommandFails, WriteMap, WriteUserConfig,
         ActivateOk, ActivateFails, Verify, InPipeline
<1> QED
  BY <1>1, <1>2, MoveKeepsLock DEF LockInv, InPipeline, Goto

\* Every step of a request that runs outside the pipeline.
LEMMA UnlockedKeepsLock ==
  ASSUME LockInv, NEW p \in Proc,
         \/ \E r \in Requests : \/ BeginCreateGroup(p, r) \/ BeginDeleteGroup(p, r)
                                \/ BeginDisableGroup(p, r) \/ RestoreLastChange(p, r)
         \/ WriteGroupTemplate(p) \/ UnlinkGroupFiles(p) \/ DisableNext(p) \/ DisableStops(p)
         \/ ReactivateOk(p) \/ ReactivateFails(p)
  PROVE  LockInv'
<1>1. UNCHANGED lock /\ ~InPipeline(p)
  BY DEF BeginCreateGroup, BeginDeleteGroup, BeginDisableGroup, RestoreLastChange, Start,
         WriteGroupTemplate, UnlinkGroupFiles, DisableNext, DisableStops, ReactivateOk,
         ReactivateFails, InPipeline
<1>2. \/ UNCHANGED pc
      \/ \E label \in {"idle", "template", "unlink", "disabling", "reactivate"} : Goto(p, label)
  BY DEF BeginCreateGroup, BeginDeleteGroup, BeginDisableGroup, RestoreLastChange, Start, End,
         WriteGroupTemplate, UnlinkGroupFiles, DisableNext, DisableStops, ReactivateOk,
         ReactivateFails
<1> QED
  BY <1>1, <1>2, MoveKeepsLock DEF LockInv, InPipeline, Goto

LEMMA NextKeepsLock == LockInv /\ [Next]_vars => LockInv'
<1> SUFFICES ASSUME LockInv, [Next]_vars PROVE LockInv'
  OBVIOUS
<1>1. ASSUME NEW p \in Proc, NEW r \in Requests, BeginManaged(p, r) PROVE LockInv'
  BY <1>1, BeginKeepsLock DEF BeginManaged, Start
<1>2. ASSUME NEW p \in Proc, CreateTimesOut(p) \/ StoreRollbackState(p) \/ RestoreSnapshots(p) \/ Crash(p)
      PROVE  LockInv'
  BY <1>2, EndKeepsLock DEF CreateTimesOut, StoreRollbackState, RestoreSnapshots, Crash
<1>3. CASE UNCHANGED vars
  BY <1>3 DEF vars, private, LockInv, InPipeline
<1> QED
  BY <1>1, <1>2, <1>3, PipelineKeepsLock, UnlockedKeepsLock DEF Next, Begin, Continue, Wait

\* file_lock.py: for any number of processes, the lock is held exactly by the one that is
\* inside applyManagedMutation, whatever is refused, fails or dies around it.
THEOREM Exclusion == Spec => []MutualExclusion
<1>1. Init => LockInv
  BY ProcAssumption DEF Init, LockInv, InPipeline
<1>2. LockInv => MutualExclusion
  BY DEF LockInv, MutualExclusion
<1> QED
  BY <1>1, <1>2, NextKeepsLock, PTL DEF Spec

-----------------------------------------------------------------------------
(***************************************************************************)
(* Types.  TypeOK is inductive: ServingOK ties the step a process is at to *)
(* its request, so that each write is given records it can use.            *)
(***************************************************************************)
\* TypeOK in two halves: the state of the processes, and what they share.
PrivateOK ==
  /\ pc \in [Proc -> Labels]
  /\ DOMAIN req = Proc /\ DOMAIN loaded = Proc /\ DOMAIN before = Proc /\ DOMAIN snap = Proc
  /\ \A p \in Proc : PartialDisk(snap[p]) /\ ServingOK(p)
SharedOK ==
  /\ Disk(disk)
  /\ undoFile = Absent \/ PartialDisk(undoFile.snapshots)
  /\ lock \in Proc \cup {NoProc}
  /\ running = Down \/ DOMAIN running = ServiceFiles
  /\ lastChange = NoChange \/ (Disk(lastChange.before) /\ lastChange.recorded \in BOOLEAN)
  /\ intact \in BOOLEAN /\ requests \in 0..MaxRequests

LEMMA TypeOKHalves == TypeOK <=> PrivateOK /\ SharedOK
  BY DEF TypeOK, PrivateOK, SharedOK

LEMMA HalvesNext == PrivateOK' /\ SharedOK' => TypeOK'
  BY DEF TypeOK, PrivateOK, SharedOK

\* A step of p changes nothing private to another process.
LEMMA OnlyServing ==
  ASSUME PrivateOK, NEW p \in Proc,
         pc' \in [Proc -> Labels], DOMAIN req' = Proc, DOMAIN loaded' = Proc,
         DOMAIN before' = Proc, DOMAIN snap' = Proc,
         \A q \in Proc \ {p} : /\ pc'[q] = pc[q] /\ req'[q] = req[q] /\ loaded'[q] = loaded[q]
                               /\ before'[q] = before[q] /\ snap'[q] = snap[q],
         PartialDisk(snap'[p]), ServingOK(p)'
  PROVE  PrivateOK'
<1>1. ASSUME NEW q \in Proc \ {p} PROVE PartialDisk(snap'[q]) /\ ServingOK(q)'
  <2>1. PartialDisk(snap'[q])
    BY DEF PrivateOK
  <2>2. ServingOK(q)
    BY DEF PrivateOK
  <2> QED
    BY <2>1, <2>2 DEF ServingOK, InPipeline
<1> QED
  BY <1>1 DEF PrivateOK

LEMMA EndTyped ==
  ASSUME PrivateOK, NEW p \in Proc, End(p)
  PROVE  PrivateOK'
<1>1. pc' \in [Proc -> Labels] /\ pc'[p] = "idle" /\ snap'[p] = Empty
  BY DEF PrivateOK, End, Goto, Labels
<1>2. PartialDisk(snap'[p])
  BY <1>1 DEF PartialDisk, Empty
<1>3. ServingOK(p)'
  BY <1>1 DEF ServingOK, InPipeline
<1> QED
  BY <1>1, <1>2, <1>3, OnlyServing DEF PrivateOK, End, Goto

LEMMA MoveTyped ==
  ASSUME PrivateOK, NEW p \in Proc, NEW label \in Labels, Goto(p, label),
         UNCHANGED <<req, snap, before>>,
         DOMAIN loaded' = Proc, \A q \in Proc \ {p} : loaded'[q] = loaded[q],
         ServingOK(p)'
  PROVE  PrivateOK'
  BY OnlyServing DEF PrivateOK, Goto

LEMMA StartTyped ==
  ASSUME PrivateOK, SharedOK, NEW p \in Proc, NEW r \in Requests, NEW label \in Labels,
         Start(p, r, label),
         DOMAIN loaded' = Proc, \A q \in Proc \ {p} : loaded'[q] = loaded[q],
         DOMAIN snap' = Proc, \A q \in Proc \ {p} : snap'[q] = snap[q],
         PartialDisk(snap'[p]),
         label \in {"sync", "reactivate"}
           \/ (label = "template" /\ r.action = "create_group")
           \/ (label = "unlink" /\ r.action = "delete_group")
           \/ (label = "disabling" /\ loaded'[p] \subseteq User),
         label = "sync" => r.action \in ManagedAction
  PROVE  PrivateOK' /\ requests' \in 0..MaxRequests
<1>1. /\ pc' \in [Proc -> Labels] /\ pc'[p] = label /\ req'[p] = r
      /\ before'[p].disk = disk /\ Disk(disk)
  BY DEF PrivateOK, SharedOK, Start, Goto
<1>2. ServingOK(p)'
  BY <1>1 DEF ServingOK, InPipeline
<1>3. requests' \in 0..MaxRequests
  BY BoundAssumption DEF SharedOK, Start
<1> QED
  BY <1>1, <1>2, <1>3, OnlyServing DEF PrivateOK, Start, Goto

\* What the properties remember of the last change stays typed.
LEMMA NoteTyped ==
  ASSUME SharedOK, PrivateOK, NEW p \in Proc, pc[p] # "idle", NoteUnrecorded(p)
  PROVE  (lastChange = NoChange \/ (Disk(lastChange.before) /\ lastChange.recorded \in BOOLEAN))'
  BY DEF SharedOK, PrivateOK, ServingOK, NoteUnrecorded

LEMMA ReleaseTyped ==
  ASSUME SharedOK, NEW p, Release(p) PROVE lock' \in Proc \cup {NoProc}
  BY DEF SharedOK, Release

LEMMA InitTyped == Init => TypeOK
<1> SUFFICES ASSUME Init PROVE PrivateOK /\ SharedOK
  BY TypeOKHalves
<1>1. PartialDisk(Empty)
  BY DEF PartialDisk, Empty
<1>2. PrivateOK
  BY <1>1 DEF Init, PrivateOK, ServingOK, InPipeline, Labels
<1>3. SharedOK
  BY DiskAssumption, BoundAssumption DEF Init, SharedOK, Served
<1> QED
  BY <1>2, <1>3

\* The record a process at one of the writes works with.
LEMMA AtWrite ==
  ASSUME TypeOK, NEW p \in Proc, pc[p] \in {"users", "map", "user config"}
  PROVE  /\ LoadedFor(loaded[p], req[p]) /\ RequestOK(req[p]) /\ req[p].action \in ManagedAction
         /\ req[p].user \in User
<1>1. ServingOK(p)
  BY DEF TypeOK
<1> QED
  BY <1>1, RequestAssumption DEF ServingOK, InPipeline, LoadedFor, RequestOK

LEMMA UsersWrittenTyped ==
  ASSUME TypeOK, NEW p \in Proc, pc[p] = "users", UsersWritable(p)
  PROVE  Disk(UsersWritten(p))
<1>1. UsersAfter(disk, loaded[p], req[p]) \in Content(UsersFile)
  BY AtWrite, UsersAfterTyped, ContentOf DEF TypeOK, UsersWritable
<1> QED
  BY <1>1, WriteTyped, ContentOf DEF TypeOK, UsersWritten

\* A step that moves p to another label, and writes the disk or changes the service.
LEMMA StepTyped ==
  ASSUME TypeOK, NEW p \in Proc, NEW label \in Labels, Goto(p, label),
         UNCHANGED <<undoFile, lock, req, snap, before, lastChange, intact, requests>>,
         DOMAIN loaded' = Proc, \A q \in Proc \ {p} : loaded'[q] = loaded[q],
         Disk(disk'), running' = Down \/ DOMAIN running' = ServiceFiles,
         ServingOK(p)'
  PROVE  TypeOK'
<1>1. PrivateOK /\ SharedOK
  BY TypeOKHalves
<1>2. PrivateOK'
  BY <1>1, MoveTyped
<1>3. SharedOK'
  BY <1>1 DEF SharedOK
<1> QED
  BY <1>2, <1>3, HalvesNext

\* The steps of the pipeline that do not end the request.
LEMMA PipelineTyped ==
  ASSUME TypeOK, NEW p \in Proc,
         \/ SyncTemplates(p) \/ LoadRecords(p) \/ WriteUsers(p) \/ UsersCommandFails(p)
         \/ WriteMap(p) \/ WriteUserConfig(p) \/ ActivateOk(p) \/ ActivateFails(p) \/ Verify(p)
  PROVE  TypeOK'
<1>0. /\ PrivateOK /\ SharedOK /\ ServingOK(p) /\ Disk(disk) /\ p \in DOMAIN pc
      /\ DOMAIN loaded = Proc /\ (running = Down \/ DOMAIN running = ServiceFiles)
      /\ {"load", "users", "restore", "map", "user config", "activate", "verify", "store"} \subseteq Labels
  BY TypeOKHalves DEF PrivateOK, SharedOK, Labels
<1>1. CASE SyncTemplates(p)
  <2>1. Disk(disk')
    BY <1>0, <1>1, SyncedTyped, RequestAssumption DEF SyncTemplates, ServingOK
  <2>2. ServingOK(p)'
    BY <1>0, <1>1 DEF SyncTemplates, ServingOK, InPipeline, Goto
  <2> QED
    BY <1>0, <1>1, <2>1, <2>2, StepTyped DEF SyncTemplates
<1>2. CASE LoadRecords(p)
  <2>1. PICK label \in {"users", "restore"} :
          /\ Goto(p, label)
          /\ label = "users" => RecordAccepted(disk, Loaded(disk), req[p])
    BY <1>2 DEF LoadRecords
  <2>2. loaded'[p] = Loaded(disk) /\ Loaded(disk) \in [users : UserTable, groups : GroupMap, ips : IpMap]
    BY <1>0, <1>2, LoadedTyped DEF LoadRecords, PrivateOK
  <2>3. req[p].action \in ManagedAction /\ UNCHANGED <<req, before>> /\ pc[p] # "idle" /\ pc'[p] = label
    BY <1>0, <1>2, <2>1 DEF LoadRecords, ServingOK, InPipeline, Goto
  <2>4. RecordAccepted(disk, Loaded(disk), req[p]) /\ req[p].action # "create_user"
          => Loaded(disk).users[req[p].user] # NoUser
    BY <2>3 DEF RecordAccepted, ManagedAction
  <2>5. ServingOK(p)'
    BY <1>0, <2>1, <2>2, <2>3, <2>4 DEF ServingOK, InPipeline
  <2> QED
    BY <1>0, <1>2, <2>1, <2>5, StepTyped DEF LoadRecords
<1>3. CASE WriteUsers(p)
  <2>1. Disk(disk')
    BY <1>3, UsersWrittenTyped DEF WriteUsers
  <2>2. ServingOK(p)'
    BY <1>0, <1>3 DEF WriteUsers, ServingOK, InPipeline, Goto
  <2> QED
    BY <1>0, <1>3, <2>1, <2>2, StepTyped DEF WriteUsers
<1>4. CASE WriteMap(p)
  <2>1. MapAfter(disk, loaded[p], req[p]) \in Content(UserGroupMapFile)
    BY <1>0, <1>4, AtWrite, MapAfterTyped, ContentOf DEF WriteMap
  <2>2. Disk(disk')
    BY <1>0, <1>4, <2>1, WriteTyped, ContentOf DEF WriteMap
  <2>3. ServingOK(p)'
    BY <1>0, <1>4 DEF WriteMap, ServingOK, InPipeline, Goto
  <2> QED
    BY <1>0, <1>4, <2>2, <2>3, StepTyped DEF WriteMap
<1>5. CASE WriteUserConfig(p)
  <2>1. UserConfigAfter(disk, loaded[p], req[p]) \in Content(UserConfig(req[p].user))
    BY <1>0, <1>5, AtWrite, UserConfigAfterTyped DEF WriteUserConfig
  <2>2. Disk(disk')
    BY <1>0, <1>5, <2>1, AtWrite, WriteTyped, ContentOf DEF WriteUserConfig
  <2>3. ServingOK(p)'
    BY <1>0, <1>5 DEF WriteUserConfig, ServingOK, InPipeline, Goto
  <2> QED
    BY <1>0, <1>5, <2>2, <2>3, StepTyped DEF WriteUserConfig
<1>6. CASE UsersCommandFails(p) \/ Verify(p)
  <2>1. PICK label \in {"restore", "store"} : Goto(p, label)
    BY <1>6 DEF UsersCommandFails, Verify
  <2>2. ServingOK(p)'
    BY <1>0, <1>6, <2>1 DEF UsersCommandFails, Verify, ServingOK, InPipeline, Goto
  <2> QED
    BY <1>0, <1>6, <2>1, <2>2, StepTyped DEF UsersCommandFails, Verify
<1>7. CASE ActivateOk(p) \/ ActivateFails(p)
  <2>1. PICK label \in {"restore", "verify"} : Goto(p, label)
    BY <1>7 DEF ActivateOk, ActivateFails
  <2>2. ServingOK(p)'
    BY <1>0, <1>7, <2>1 DEF ActivateOk, ActivateFails, ServingOK, InPipeline, Goto
  <2>3. (running = Down \/ DOMAIN running = ServiceFiles)'
    BY <1>0, <1>7 DEF ActivateOk, ActivateFails, Activated, ActivationFailures, Served, SharedOK
  <2>4. UNCHANGED <<disk, undoFile, lock, req, snap, loaded, before, lastChange, intact, requests>>
    BY <1>7 DEF ActivateOk, ActivateFails
  <2> QED
    BY <1>0, <2>1, <2>2, <2>3, <2>4, StepTyped 
<1> QED
  BY <1>1, <1>2, <1>3, <1>4, <1>5, <1>6, <1>7

\* The steps that end a request: EndTyped and what they leave in the shared state.
LEMMA EndingTyped ==
  ASSUME TypeOK, NEW p \in Proc,
         \/ CreateTimesOut(p) \/ StoreRollbackState(p) \/ RestoreSnapshots(p)
         \/ WriteGroupTemplate(p) \/ UnlinkGroupFiles(p) \/ DisableStops(p)
         \/ ReactivateOk(p) \/ ReactivateFails(p) \/ Crash(p)
  PROVE  TypeOK'
<1>0. PrivateOK /\ SharedOK /\ ServingOK(p) /\ Disk(disk) /\ PartialDisk(snap[p])
  BY TypeOKHalves DEF PrivateOK, SharedOK
<1>1. PrivateOK'
  BY <1>0, EndTyped DEF CreateTimesOut, StoreRollbackState, RestoreSnapshots, WriteGroupTemplate,
     UnlinkGroupFiles, DisableStops, ReactivateOk, ReactivateFails, Crash
<1>2. CASE CreateTimesOut(p)
  <2>1. Disk(UsersWritten(p))
    BY <1>2, UsersWrittenTyped, AtWrite DEF CreateTimesOut, UsersWritable
  <2>2. Disk(disk') /\ intact' \in BOOLEAN
    BY <1>0, <1>2, <2>1 DEF CreateTimesOut
  <2> QED
    BY <1>0, <1>1, <1>2, <2>2, NoteTyped, ReleaseTyped, HalvesNext DEF CreateTimesOut, SharedOK
<1>3. CASE StoreRollbackState(p)
  <2>1. PartialDisk(undoFile'.snapshots)
    BY <1>0, <1>3 DEF StoreRollbackState
  <2>2. Disk(lastChange'.before) /\ lastChange'.recorded \in BOOLEAN
    BY <1>0, <1>3 DEF StoreRollbackState, ServingOK
  <2> QED
    BY <1>0, <1>1, <1>3, <2>1, <2>2, ReleaseTyped, HalvesNext DEF StoreRollbackState, SharedOK
<1>4. CASE RestoreSnapshots(p)
  <2>1. Disk(disk')
    BY <1>0, <1>4, RestoredTyped DEF RestoreSnapshots
  <2> QED
    BY <1>0, <1>1, <1>4, <2>1, ReleaseTyped, HalvesNext DEF RestoreSnapshots, SharedOK
<1>5. CASE WriteGroupTemplate(p)
  <2>1. req[p].group \in Group /\ req[p].pool \subseteq Ip
    BY <1>0, <1>5, RequestAssumption DEF WriteGroupTemplate, ServingOK, RequestOK
  <2>2. Disk(disk')
    BY <1>0, <1>5, <2>1, WriteTyped, ContentOf DEF WriteGroupTemplate
  <2> QED
    BY <1>0, <1>1, <1>5, <2>2, NoteTyped, HalvesNext DEF WriteGroupTemplate, SharedOK
<1>6. CASE UnlinkGroupFiles(p)
  <2>1. req[p].group \in Group
    BY <1>0, <1>6, RequestAssumption DEF UnlinkGroupFiles, ServingOK, RequestOK
  <2> DEFINE half == [disk EXCEPT ![GroupConfig(req[p].group)] = Absent]
  <2>2. Disk(half)
    BY <1>0, <2>1, WriteTyped, ContentOf
  <2>3. Disk([half EXCEPT ![GroupTemplate(req[p].group)] = Absent])
    <3> HIDE DEF half
    <3> QED
      BY <2>1, <2>2, WriteTyped, ContentOf
  <2>4. Disk(disk')
    BY <1>6, <2>3 DEF UnlinkGroupFiles
  <2> QED
    BY <1>0, <1>1, <1>6, <2>4, NoteTyped, HalvesNext DEF UnlinkGroupFiles, SharedOK
<1>7. CASE DisableStops(p)
  BY <1>0, <1>1, <1>7, NoteTyped, HalvesNext DEF DisableStops, SharedOK
<1>8. CASE ReactivateOk(p) \/ ReactivateFails(p)
  <2>1. running' = Down \/ DOMAIN running' = ServiceFiles
    BY <1>0, <1>8 DEF ReactivateOk, ReactivateFails, Activated, ActivationFailures, Served, SharedOK
  <2>2. undoFile' \in {undoFile, Absent} /\ lastChange' \in {lastChange, NoChange}
    BY <1>8 DEF ReactivateOk, ReactivateFails
  <2>3. UNCHANGED <<disk, lock, intact, requests>>
    BY <1>8 DEF ReactivateOk, ReactivateFails
  <2> QED
    BY <1>0, <1>1, <2>1, <2>2, <2>3, HalvesNext DEF SharedOK
<1>9. CASE Crash(p)
  <2>1. (lastChange = NoChange \/ (Disk(lastChange.before) /\ lastChange.recorded \in BOOLEAN))'
    BY <1>0, <1>9, NoteTyped DEF Crash, SharedOK
  <2>2. intact' \in BOOLEAN
    BY <1>0, <1>9 DEF Crash, SharedOK
  <2> QED
    BY <1>0, <1>1, <1>9, <2>1, <2>2, ReleaseTyped, HalvesNext DEF Crash, SharedOK
<1> QED
  BY <1>2, <1>3, <1>4, <1>5, <1>6, <1>7, <1>8, <1>9

\* One member of a group disabled, the last of them or not.
LEMMA DisableNextTyped ==
  ASSUME TypeOK, NEW p \in Proc, DisableNext(p)
  PROVE  TypeOK'
<1>0. PrivateOK /\ SharedOK /\ ServingOK(p) /\ Disk(disk) /\ pc[p] = "disabling"
  BY TypeOKHalves DEF PrivateOK, SharedOK, DisableNext
<1>1. PICK u \in loaded[p] :
        LET edited == EditedUsers(disk, Loaded(disk)) IN
        /\ edited[u] # NoUser
        /\ disk' = [disk EXCEPT ![UsersFile] = [edited EXCEPT ![u].disabled = TRUE]]
        /\ \/ NoteUnrecorded(p) /\ End(p)
           \/ /\ loaded' = [loaded EXCEPT ![p] = @ \ {u}]
              /\ UNCHANGED <<pc, req, snap, before, lastChange>>
  BY DEF DisableNext
<1>2. loaded[p] \subseteq User
  BY <1>0 DEF ServingOK
<1>3. EditedUsers(disk, Loaded(disk)) \in UserLines
  BY <1>0, LoadedTyped, EditedTyped
<1>4. [EditedUsers(disk, Loaded(disk)) EXCEPT ![u].disabled = TRUE] \in Content(UsersFile)
  BY <1>1, <1>2, <1>3, DisabledTyped, ContentOf
<1>5. Disk(disk')
  BY <1>0, <1>1, <1>4, WriteTyped, ContentOf
<1>6. UNCHANGED <<undoFile, lock, running, intact, requests>>
  BY DEF DisableNext
<1>7. CASE NoteUnrecorded(p) /\ End(p)
  BY <1>0, <1>5, <1>6, <1>7, EndTyped, NoteTyped, HalvesNext DEF SharedOK
<1>8. CASE loaded' = [loaded EXCEPT ![p] = @ \ {u}] /\ UNCHANGED <<pc, req, snap, before, lastChange>>
  <2>1. ServingOK(p)'
    BY <1>0, <1>2, <1>8 DEF PrivateOK, ServingOK, InPipeline
  <2>2. PrivateOK'
    BY <1>0, <1>8, <2>1, OnlyServing DEF PrivateOK
  <2> QED
    BY <1>0, <1>5, <1>6, <1>8, <2>2, HalvesNext DEF SharedOK
<1> QED
  BY <1>1, <1>7, <1>8

\* The first step of a request.
LEMMA BeginTyped ==
  ASSUME TypeOK, NEW p \in Proc, NEW r \in Requests,
         \/ BeginManaged(p, r) \/ BeginCreateGroup(p, r) \/ BeginDeleteGroup(p, r)
         \/ BeginDisableGroup(p, r) \/ RestoreLastChange(p, r)
  PROVE  TypeOK'
<1>0. /\ PrivateOK /\ SharedOK /\ Disk(disk) /\ PartialDisk(snap[p]) /\ RequestOK(r)
      /\ DOMAIN loaded = Proc /\ DOMAIN snap = Proc
      /\ {"sync", "template", "unlink", "disabling", "reactivate"} \subseteq Labels
  BY TypeOKHalves, RequestAssumption DEF PrivateOK, SharedOK, Labels
<1>1. CASE BeginManaged(p, r)
  <2>1. PartialDisk(Snapshot(disk, PlannedFiles(r)))
    BY <1>0, <1>1, PlannedFilesAreFiles, SnapshotTyped DEF BeginManaged
  <2>2. PrivateOK' /\ requests' \in 0..MaxRequests
    BY <1>0, <1>1, <2>1, StartTyped DEF BeginManaged
  <2> QED
    BY <1>0, <1>1, <2>2, HalvesNext DEF BeginManaged, SharedOK
<1>2. CASE BeginCreateGroup(p, r)
  <2>1. Disk(disk')
    <3> DEFINE groups == (IF disk[GroupsFile] = Absent THEN {} ELSE disk[GroupsFile]) \cup {r.group}
    <3>1. r.group \in Group /\ disk[GroupsFile] \in {Absent} \cup SUBSET Group
      BY <1>0, <1>2, ContentOf DEF BeginCreateGroup, RequestOK, Disk, PartialDisk
    <3>2. groups \in Content(GroupsFile)
      BY <3>1, ContentOf
    <3>3. disk' = [disk EXCEPT ![GroupsFile] = groups]
      BY <1>2 DEF BeginCreateGroup
    <3> QED
      BY <1>0, <3>2, <3>3, WriteTyped, ContentOf
  <2>2. PrivateOK' /\ requests' \in 0..MaxRequests
    BY <1>0, <1>2, StartTyped DEF BeginCreateGroup
  <2> QED
    BY <1>0, <1>2, <2>1, <2>2, HalvesNext DEF BeginCreateGroup, SharedOK
<1>3. CASE BeginDeleteGroup(p, r)
  <2>1. Disk(disk')
    <3>1. disk[GroupsFile] \in {Absent} \cup SUBSET Group
      BY <1>0, ContentOf DEF Disk, PartialDisk
    <3> QED
      BY <1>0, <1>3, <3>1, WriteTyped, ContentOf DEF BeginDeleteGroup
  <2>2. PrivateOK' /\ requests' \in 0..MaxRequests
    BY <1>0, <1>3, StartTyped DEF BeginDeleteGroup
  <2> QED
    BY <1>0, <1>3, <2>1, <2>2, HalvesNext DEF BeginDeleteGroup, SharedOK
<1>4. CASE BeginDisableGroup(p, r)
  <2>1. loaded'[p] \subseteq User
    BY <1>0, <1>4 DEF BeginDisableGroup, DisableTargets
  <2>2. PrivateOK' /\ requests' \in 0..MaxRequests
    BY <1>0, <1>4, <2>1, StartTyped DEF BeginDisableGroup
  <2> QED
    BY <1>0, <1>4, <2>2, HalvesNext DEF BeginDisableGroup, SharedOK
<1>5. CASE RestoreLastChange(p, r)
  <2>1. Disk(disk')
    BY <1>0, <1>5, RestoredTyped DEF RestoreLastChange, SharedOK
  <2>2. PrivateOK' /\ requests' \in 0..MaxRequests
    BY <1>0, <1>5, StartTyped DEF RestoreLastChange
  <2>3. intact' \in BOOLEAN
    BY <1>0, <1>5 DEF RestoreLastChange, SharedOK
  <2> QED
    BY <1>0, <1>5, <2>1, <2>2, <2>3, HalvesNext DEF RestoreLastChange, SharedOK
<1> QED
  BY <1>1, <1>2, <1>3, <1>4, <1>5

LEMMA NextTyped == TypeOK /\ [Next]_vars => TypeOK'
<1> SUFFICES ASSUME TypeOK, [Next]_vars PROVE TypeOK'
  OBVIOUS
<1>1. CASE UNCHANGED vars
  BY <1>1 DEF vars, private, TypeOK, ServingOK, InPipeline
<1> QED
  BY <1>1, PipelineTyped, EndingTyped, DisableNextTyped, BeginTyped DEF Next, Begin, Continue, Wait

\* Whatever fails, times out or dies, and whatever is rolled back, every file and every
\* snapshot that may still be restored holds a content the loaders understand, and each
\* write of a request finds the records it needs.
THEOREM TypeCorrect == Spec => []TypeOK
  BY InitTyped, NextTyped, PTL DEF Spec

-----------------------------------------------------------------------------
(***************************************************************************)
(* Turns.  The pipeline runs under the lock, but the group operations and  *)
(* rollback_last_change take none.  What follows about the content of the  *)
(* files holds for any number of processes as long as their requests do    *)
(* not overlap; the first two theorems say when they never do.             *)
(***************************************************************************)
Alone(p) == \A q \in Proc \ {p} : pc[q] = "idle"
Serial   == \A p \in Proc : pc[p] # "idle" => Alone(p)

OneProcess      == \E p : Proc = {p}
AccountRequests == \A r \in Requests : r.action \in ManagedAction

\* A step belongs to a request that is running before it or after it.
LEMMA OneMoves ==
  ASSUME TypeOK, NEW p \in Proc, Begin(p) \/ Continue(p) \/ Crash(p)
  PROVE  /\ pc[p] # "idle" \/ pc'[p] # "idle"
         /\ \A q \in Proc \ {p} : pc'[q] = pc[q]
<1> USE DEF TypeOK, Goto, End, Start
<1>1. CASE Begin(p)
  BY <1>1 DEF Begin, BeginManaged, BeginCreateGroup, BeginDeleteGroup, BeginDisableGroup,
     RestoreLastChange
<1>2. CASE Crash(p)
  BY <1>2 DEF Crash
<1>3. CASE \/ SyncTemplates(p) \/ LoadRecords(p) \/ WriteUsers(p) \/ UsersCommandFails(p)
           \/ WriteMap(p) \/ WriteUserConfig(p) \/ ActivateOk(p) \/ ActivateFails(p) \/ Verify(p)
  BY <1>3 DEF SyncTemplates, LoadRecords, WriteUsers, UsersCommandFails, WriteMap, WriteUserConfig,
     ActivateOk, ActivateFails, Verify
<1>4. CASE \/ CreateTimesOut(p) \/ StoreRollbackState(p) \/ RestoreSnapshots(p)
           \/ WriteGroupTemplate(p) \/ UnlinkGroupFiles(p) \/ DisableNext(p) \/ DisableStops(p)
           \/ ReactivateOk(p) \/ ReactivateFails(p)
  BY <1>4 DEF CreateTimesOut, StoreRollbackState, RestoreSnapshots, WriteGroupTemplate,
     UnlinkGroupFiles, DisableNext, DisableStops, ReactivateOk, ReactivateFails
<1> QED
  BY <1>1, <1>2, <1>3, <1>4 DEF Continue

LEMMA StepAlone ==
  ASSUME TypeOK, Serial, Serial', NEW p \in Proc, Begin(p) \/ Continue(p) \/ Crash(p)
  PROVE  Alone(p) /\ Alone(p)'
<1>1. /\ pc[p] # "idle" \/ pc'[p] # "idle"
      /\ \A q \in Proc \ {p} : pc'[q] = pc[q]
  BY OneMoves
<1>2. Alone(p) \/ Alone(p)'
  BY <1>1 DEF Serial
<1> QED
  BY <1>1, <1>2 DEF Alone

\* The packaged deployment, one single-threaded process, serves one request at a time.
THEOREM OneProcessIsSerial == OneProcess /\ Spec => []Serial
<1>1. OneProcess => Serial
  BY DEF OneProcess, Serial, Alone
<1>2. OneProcess /\ Init => OneProcess
  OBVIOUS
<1>3. OneProcess /\ [Next]_vars => OneProcess'
  BY DEF OneProcess
<1> QED
  BY <1>1, <1>2, <1>3, PTL DEF Spec

\* Account requests run only in the pipeline.
TurnInv ==
  TypeOK /\ LockInv /\ AccountRequests /\ \A p \in Proc : pc[p] = "idle" \/ InPipeline(p)

\* Of the actions of the module these are left.
LEMMA AccountSteps ==
  ASSUME TurnInv, [Next]_vars
  PROVE  \/ UNCHANGED vars
         \/ \E p \in Proc : \/ \E r \in Requests : BeginManaged(p, r)
                            \/ /\ \/ SyncTemplates(p) \/ LoadRecords(p) \/ WriteUsers(p)
                                  \/ UsersCommandFails(p) \/ WriteMap(p) \/ WriteUserConfig(p)
                                  \/ ActivateOk(p) \/ ActivateFails(p) \/ Verify(p)
                               /\ InPipeline(p)
                            \/ /\ StoreRollbackState(p) \/ RestoreSnapshots(p) \/ CreateTimesOut(p)
                                  \/ Crash(p)
                               /\ InPipeline(p)
<1>1. ASSUME NEW p \in Proc, NEW r \in Requests
      PROVE  ~(BeginCreateGroup(p, r) \/ BeginDeleteGroup(p, r) \/ BeginDisableGroup(p, r)
               \/ RestoreLastChange(p, r))
  BY DEF TurnInv, AccountRequests, ManagedAction, BeginCreateGroup, BeginDeleteGroup,
     BeginDisableGroup, RestoreLastChange
<1>2. ASSUME NEW p \in Proc
      PROVE  ~(WriteGroupTemplate(p) \/ UnlinkGroupFiles(p) \/ DisableNext(p) \/ DisableStops(p)
               \/ ReactivateOk(p) \/ ReactivateFails(p))
  <2>1. pc[p] \notin {"template", "unlink", "disabling", "reactivate"}
    BY DEF TurnInv, InPipeline
  <2> QED
    BY <2>1 DEF WriteGroupTemplate, UnlinkGroupFiles, DisableNext, DisableStops, ReactivateOk,
       ReactivateFails
<1>3. ASSUME NEW p \in Proc,
             \/ SyncTemplates(p) \/ LoadRecords(p) \/ WriteUsers(p) \/ UsersCommandFails(p)
             \/ WriteMap(p) \/ WriteUserConfig(p) \/ ActivateOk(p) \/ ActivateFails(p) \/ Verify(p)
             \/ StoreRollbackState(p) \/ RestoreSnapshots(p) \/ CreateTimesOut(p)
      PROVE  InPipeline(p)
  BY <1>3 DEF SyncTemplates, LoadRecords, WriteUsers, UsersCommandFails, WriteMap, WriteUserConfig,
     ActivateOk, ActivateFails, Verify, StoreRollbackState, RestoreSnapshots, CreateTimesOut, InPipeline
<1>4. ASSUME NEW p \in Proc, Crash(p) PROVE InPipeline(p)
  BY <1>4 DEF TurnInv, Crash
<1> QED
  BY <1>1, <1>2, <1>3, <1>4 DEF Next, Begin, Continue, Wait

LEMMA NextTurn == TurnInv /\ [Next]_vars => TurnInv'
<1> SUFFICES ASSUME TurnInv, [Next]_vars PROVE TurnInv'
  OBVIOUS
<1>1. TypeOK' /\ LockInv' /\ TypeOK /\ AccountRequests'
  BY NextTyped, NextKeepsLock DEF TurnInv, AccountRequests
<1> SUFFICES \A p \in Proc : pc'[p] = "idle" \/ InPipeline(p)'
  BY <1>1 DEF TurnInv
<1>2. CASE UNCHANGED vars
  BY <1>2 DEF TurnInv, vars, private, InPipeline
<1>3. ASSUME NEW p \in Proc,
             \/ \E r \in Requests : BeginManaged(p, r)
             \/ SyncTemplates(p) \/ LoadRecords(p) \/ WriteUsers(p) \/ UsersCommandFails(p)
             \/ WriteMap(p) \/ WriteUserConfig(p) \/ ActivateOk(p) \/ ActivateFails(p) \/ Verify(p)
             \/ StoreRollbackState(p) \/ RestoreSnapshots(p) \/ CreateTimesOut(p) \/ Crash(p)
      PROVE  \E label \in {"idle", "sync", "load", "users", "map", "user config", "activate",
                           "verify", "store", "restore"} : Goto(p, label)
  BY <1>3 DEF BeginManaged, Start, SyncTemplates, LoadRecords, WriteUsers, UsersCommandFails,
     WriteMap, WriteUserConfig, ActivateOk, ActivateFails, Verify, StoreRollbackState,
     RestoreSnapshots, CreateTimesOut, Crash, End
<1>4. ASSUME NEW p \in Proc,
             \E label \in {"idle", "sync", "load", "users", "map", "user config", "activate",
                           "verify", "store", "restore"} : Goto(p, label)
      PROVE  \A q \in Proc : pc'[q] = "idle" \/ InPipeline(q)'
  BY <1>1, <1>4 DEF TurnInv, TypeOK, InPipeline, Goto
<1> QED
  BY <1>2, <1>3, <1>4, AccountSteps

\* Any number of processes that serve account requests: the lock makes them take turns.
THEOREM AccountsAreSerial == AccountRequests /\ Spec => []Serial
<1>1. AccountRequests /\ Init => TurnInv
  BY InitTyped, ProcAssumption DEF Init, TurnInv, LockInv, InPipeline
<1>2. TurnInv => Serial
  BY ProcAssumption DEF TurnInv, LockInv, Serial, Alone, InPipeline
<1> QED
  BY <1>1, <1>2, NextTurn, PTL DEF Spec

-----------------------------------------------------------------------------
(***************************************************************************)
(* What a failed mutation leaves.                                          *)
(***************************************************************************)
\* The files the steps of a managed request write: those it planned, and one more.
Reach(r) == PlannedFiles(r) \cup (IF r.action = "assign_group" THEN {UserConfig(r.user)} ELSE {})

\* The snapshots are those of the disk the request found, and no other file has changed.
InScope(p) ==
  /\ snap[p] = Snapshot(before[p].disk, PlannedFiles(req[p]))
  /\ \A f \in File \ Reach(req[p]) : disk[f] = before[p].disk[f]
ScopeInv == TypeOK /\ \A p \in Proc : InPipeline(p) => InScope(p)

LEMMA WritesInReach ==
  ASSUME TypeOK, NEW p \in Proc,
         \/ SyncTemplates(p) \/ LoadRecords(p) \/ WriteUsers(p) \/ UsersCommandFails(p)
         \/ WriteMap(p) \/ WriteUserConfig(p) \/ ActivateOk(p) \/ ActivateFails(p) \/ Verify(p)
  PROVE  /\ UNCHANGED <<req, snap, before>>
         /\ \A f \in File \ Reach(req[p]) : disk'[f] = disk[f]
<1>1. UNCHANGED <<req, snap, before>>
  BY DEF SyncTemplates, LoadRecords, WriteUsers, UsersCommandFails, WriteMap, WriteUserConfig,
     ActivateOk, ActivateFails, Verify
<1>2. CASE SyncTemplates(p)
  BY <1>1, <1>2 DEF SyncTemplates, Synced, Reach, PlannedFiles
<1>3. CASE WriteUsers(p)
  BY <1>1, <1>3 DEF WriteUsers, UsersWritten, Reach, PlannedFiles, DataFiles
<1>4. CASE WriteMap(p)
  <2>1. WritesMap(req[p]) => UserGroupMapFile \in Reach(req[p])
    BY DEF WritesMap, Reach, PlannedFiles, DataFiles
  <2> QED
    BY <1>1, <1>4, <2>1 DEF WriteMap, TypeOK, Disk
<1>5. CASE WriteUserConfig(p)
  <2>1. req[p].action \in ManagedAction
    BY <1>5, AtWrite DEF WriteUserConfig
  <2>2. WritesUserConfig(req[p]) => UserConfig(req[p].user) \in Reach(req[p])
    BY <2>1 DEF WritesUserConfig, Reach, PlannedFiles, PlannedUserConfig, ManagedAction
  <2> QED
    BY <1>1, <1>5, <2>2 DEF WriteUserConfig, TypeOK, Disk
<1>6. CASE LoadRecords(p) \/ UsersCommandFails(p) \/ ActivateOk(p) \/ ActivateFails(p) \/ Verify(p)
  BY <1>1, <1>6 DEF LoadRecords, UsersCommandFails, ActivateOk, ActivateFails, Verify
<1> QED
  BY <1>1, <1>2, <1>3, <1>4, <1>5, <1>6

LEMMA BeginInScope ==
  ASSUME TypeOK, NEW p \in Proc, NEW r \in Requests, BeginManaged(p, r)
  PROVE  InScope(p)'
<1>1. req'[p] = r /\ before'[p].disk = disk /\ disk' = disk /\ snap'[p] = Snapshot(disk, PlannedFiles(r))
  BY DEF BeginManaged, Start, TypeOK
<1> QED
  BY <1>1 DEF InScope

\* The steps after which p is not in the pipeline.
LEMMA LeavesPipeline ==
  ASSUME TypeOK, NEW p \in Proc,
         \/ \E r \in Requests : \/ BeginCreateGroup(p, r) \/ BeginDeleteGroup(p, r)
                                \/ BeginDisableGroup(p, r) \/ RestoreLastChange(p, r)
         \/ WriteGroupTemplate(p) \/ UnlinkGroupFiles(p) \/ DisableNext(p) \/ DisableStops(p)
         \/ ReactivateOk(p) \/ ReactivateFails(p)
         \/ CreateTimesOut(p) \/ StoreRollbackState(p) \/ RestoreSnapshots(p) \/ Crash(p)
  PROVE  ~InPipeline(p)'
<1>1. \/ UNCHANGED pc /\ pc[p] = "disabling"
      \/ \E label \in {"idle", "template", "unlink", "disabling", "reactivate"} : Goto(p, label)
  BY DEF BeginCreateGroup, BeginDeleteGroup, BeginDisableGroup, RestoreLastChange, Start, End,
         WriteGroupTemplate, UnlinkGroupFiles, DisableNext, DisableStops, ReactivateOk,
         ReactivateFails, CreateTimesOut, StoreRollbackState, RestoreSnapshots, Crash
<1> QED
  BY <1>1 DEF TypeOK, InPipeline, Goto

LEMMA NextInScope ==
  ASSUME ScopeInv, Serial, Serial', [Next]_vars
  PROVE  ScopeInv'
<1>1. TypeOK /\ TypeOK'
  BY NextTyped DEF ScopeInv
<1> SUFFICES \A p \in Proc : InPipeline(p)' => InScope(p)'
  BY <1>1 DEF ScopeInv
<1>2. CASE UNCHANGED vars
  BY <1>2 DEF ScopeInv, vars, private, InPipeline, InScope
<1>3. ASSUME NEW p \in Proc, NEW r \in Requests, BeginManaged(p, r) PROVE InScope(p)'
  BY <1>1, <1>3, BeginInScope
<1>4. ASSUME NEW p \in Proc,
             \/ SyncTemplates(p) \/ LoadRecords(p) \/ WriteUsers(p) \/ UsersCommandFails(p)
             \/ WriteMap(p) \/ WriteUserConfig(p) \/ ActivateOk(p) \/ ActivateFails(p) \/ Verify(p)
      PROVE  InScope(p)'
  <2>1. InPipeline(p)
    BY <1>4 DEF SyncTemplates, LoadRecords, WriteUsers, UsersCommandFails, WriteMap,
       WriteUserConfig, ActivateOk, ActivateFails, Verify, InPipeline
  <2> QED
    BY <1>1, <1>4, <2>1, WritesInReach DEF ScopeInv, InScope
<1>5. ASSUME NEW p \in Proc, Begin(p) \/ Continue(p) \/ Crash(p), InPipeline(p)' PROVE InScope(p)'
  BY <1>1, <1>3, <1>4, <1>5, LeavesPipeline DEF Begin, Continue
<1>6. ASSUME NEW p \in Proc, Begin(p) \/ Continue(p) \/ Crash(p), NEW q \in Proc, InPipeline(q)'
      PROVE  q = p
  <2>1. \A r \in Proc \ {p} : pc'[r] = "idle"
    BY <1>1, <1>6, StepAlone DEF Alone
  <2>2. pc'[q] # "idle"
    BY <1>6 DEF InPipeline
  <2> QED
    BY <2>1, <2>2
<1> QED
  BY <1>2, <1>5, <1>6 DEF Next, Wait

LEMMA RestoresScope ==
  ASSUME ScopeInv, NEW p \in Proc, RestoreSnapshots(p), NEW f \in File
  PROVE  \/ disk'[f] = before[p].disk[f]
         \/ req[p].action = "assign_group" /\ f = UserConfig(req[p].user)
<1>1. InScope(p)
  BY DEF ScopeInv, RestoreSnapshots, InPipeline
<1>2. disk'[f] = IF f \in PlannedFiles(req[p]) THEN before[p].disk[f] ELSE disk[f]
  BY <1>1 DEF InScope, RestoreSnapshots, Restored, Snapshot
<1> QED
  BY <1>1, <1>2 DEF InScope, Reach

\* While requests do not overlap: a managed mutation that ends in an error puts every file
\* back as it found it, but the config-per-user file of an assign_group, whatever requests,
\* crashes, timeouts and failed activations came before.
THEOREM FailureRestores == Spec /\ []Serial => FailureRestoresScope
<1>1. Init => ScopeInv
  BY InitTyped DEF Init, ScopeInv, InPipeline
<1>2. ScopeInv /\ Serial /\ Serial' /\ [Next]_vars => ScopeInv'
  BY NextInScope
<1>3. ScopeInv => \A p \in Proc : RestoreSnapshots(p) =>
        \A f \in File :
          \/ disk'[f] = before[p].disk[f]
          \/ req[p].action = "assign_group" /\ f = UserConfig(req[p].user)
  BY RestoresScope
<1> QED
  BY <1>1, <1>2, <1>3, PTL DEF Spec, FailureRestoresScope

-----------------------------------------------------------------------------
(***************************************************************************)
(* How far a mutation has come.  Whatever the request found on the disk,   *)
(* the disk is at every step the one the writes so far make of it.         *)
(***************************************************************************)
Progress(p) ==
  LET b == before[p].disk  r == req[p] IN
  /\ pc[p] = "sync" => disk = b
  /\ pc[p] \in {"load", "users"} => disk = AtUsers(b, r)
  /\ pc[p] = "map" => disk = AtMap(b, r)
  /\ pc[p] = "user config" => disk = AtUserConfig(b, r)
  /\ pc[p] \in {"activate", "verify", "store"} => disk = Changed(b, r)
  /\ pc[p] \in {"users", "map", "user config"} => loaded[p] = Records(b, r)
  /\ pc[p] \in {"users", "map", "user config", "activate", "verify", "store"} => Taken(AtUsers(b, r), r)
  /\ pc[p] = "restore" => disk = AtUsers(b, r) \/ (Taken(AtUsers(b, r), r) /\ disk = Changed(b, r))

Scoped(p)   == TypeOK /\ (InPipeline(p) => InScope(p) /\ Progress(p))
ProgressInv == ScopeInv /\ \A p \in Proc : InPipeline(p) => Progress(p)

\* The request a process in the pipeline is serving, and the disk it found.
LEMMA AtPipeline ==
  ASSUME TypeOK, NEW p \in Proc, InPipeline(p)
  PROVE  /\ Disk(before[p].disk) /\ RequestOK(req[p]) /\ req[p].action \in ManagedAction
         /\ req[p] \in Requests /\ Disk(AtUsers(before[p].disk, req[p]))
<1>1. ServingOK(p) /\ pc[p] # "idle"
  BY DEF TypeOK, InPipeline
<1> QED
  BY <1>1, RequestAssumption, SyncedTyped DEF ServingOK, AtUsers

LEMMA PipelineProgress ==
  ASSUME NEW p \in Proc, Scoped(p),
         \/ SyncTemplates(p) \/ LoadRecords(p) \/ WriteUsers(p) \/ UsersCommandFails(p)
         \/ WriteMap(p) \/ WriteUserConfig(p) \/ ActivateOk(p) \/ ActivateFails(p) \/ Verify(p)
  PROVE  Progress(p)'
<1> DEFINE b == before[p].disk  r == req[p]
<1>0. TypeOK /\ InPipeline(p) /\ Progress(p) /\ pc \in [Proc -> Labels] /\ DOMAIN loaded = Proc
  BY DEF Scoped, TypeOK, SyncTemplates, LoadRecords, WriteUsers, UsersCommandFails, WriteMap,
     WriteUserConfig, ActivateOk, ActivateFails, Verify, InPipeline
<1>1. UNCHANGED <<req, before>>
  BY DEF SyncTemplates, LoadRecords, WriteUsers, UsersCommandFails, WriteMap, WriteUserConfig,
     ActivateOk, ActivateFails, Verify
<1>2. Disk(AtUsers(b, r)) /\ RequestOK(r) /\ r.action \in ManagedAction
  BY <1>0, AtPipeline
<1>3. CASE SyncTemplates(p)
  <2>1. pc'[p] = "load" /\ disk' = AtUsers(b, r)
    BY <1>0, <1>3 DEF SyncTemplates, Goto, AtUsers, Progress
  <2> QED
    BY <1>1, <2>1 DEF Progress
<1>4. CASE LoadRecords(p)
  <2>1. /\ disk' = AtUsers(b, r) /\ loaded'[p] = Records(b, r)
        /\ pc'[p] = IF RecordAccepted(AtUsers(b, r), Records(b, r), r) THEN "users" ELSE "restore"
    BY <1>0, <1>4 DEF LoadRecords, Goto, AtUsers, Records, Progress
  <2>2. pc'[p] = "users" => Taken(AtUsers(b, r), r)
    BY <1>2, <2>1 DEF Taken, AtUsers, Records
  <2> QED
    BY <1>1, <2>1, <2>2 DEF Progress
<1>5. CASE WriteUsers(p)
  <2>1. pc'[p] = "map" /\ disk' = AtMap(b, r) /\ loaded' = loaded /\ loaded[p] = Records(b, r)
        /\ Taken(AtUsers(b, r), r)
    BY <1>0, <1>5 DEF WriteUsers, UsersWritten, Goto, AtMap, Progress
  <2> QED
    BY <1>1, <2>1 DEF Progress
<1>6. CASE UsersCommandFails(p)
  <2>1. pc'[p] = "restore" /\ disk' = AtUsers(b, r)
    BY <1>0, <1>6 DEF UsersCommandFails, Goto, Progress
  <2> QED
    BY <1>1, <2>1 DEF Progress
<1>7. CASE WriteMap(p)
  <2>1. pc'[p] = "user config" /\ disk' = AtUserConfig(b, r) /\ loaded' = loaded
        /\ loaded[p] = Records(b, r) /\ Taken(AtUsers(b, r), r)
    BY <1>0, <1>7 DEF WriteMap, Goto, AtUserConfig, Progress
  <2> QED
    BY <1>1, <2>1 DEF Progress
<1>8. CASE WriteUserConfig(p)
  <2>1. pc'[p] = "activate" /\ disk' = Changed(b, r) /\ Taken(AtUsers(b, r), r)
    BY <1>0, <1>8 DEF WriteUserConfig, Goto, Changed, Progress
  <2> QED
    BY <1>1, <2>1 DEF Progress
<1>9. CASE ActivateOk(p) \/ ActivateFails(p) \/ Verify(p)
  <2>1. pc'[p] \in {"verify", "store", "restore"} /\ disk' = disk
    BY <1>0, <1>9 DEF ActivateOk, ActivateFails, Verify, Goto
  <2>2. disk = Changed(b, r) /\ Taken(AtUsers(b, r), r)
    BY <1>0, <1>9 DEF ActivateOk, ActivateFails, Verify, Progress
  <2> QED
    BY <1>1, <2>1, <2>2 DEF Progress
<1> QED
  BY <1>3, <1>4, <1>5, <1>6, <1>7, <1>8, <1>9

\* A process that moves is the only one that is not idle.
LEMMA OnlyMover ==
  ASSUME TypeOK, Serial, Serial', NEW p \in Proc, Begin(p) \/ Continue(p) \/ Crash(p),
         NEW q \in Proc, InPipeline(q)'
  PROVE  q = p
<1>1. \A o \in Proc \ {p} : pc'[o] = "idle"
  BY StepAlone DEF Alone
<1>2. pc'[q] # "idle"
  BY DEF InPipeline
<1> QED
  BY <1>1, <1>2

LEMMA NextProgress ==
  ASSUME ProgressInv, Serial, Serial', [Next]_vars
  PROVE  ProgressInv'
<1>1. ScopeInv' /\ ScopeInv /\ TypeOK
  BY NextInScope DEF ProgressInv, ScopeInv
<1> SUFFICES \A p \in Proc : InPipeline(p)' => Progress(p)'
  BY <1>1 DEF ProgressInv
<1>2. CASE UNCHANGED vars
  BY <1>2 DEF ProgressInv, vars, private, InPipeline, Progress
<1>3. ASSUME NEW p \in Proc, NEW r \in Requests, BeginManaged(p, r) PROVE Progress(p)'
  <2>1. pc'[p] = "sync" /\ before'[p].disk = disk /\ disk' = disk
    BY <1>1, <1>3 DEF BeginManaged, Start, Goto, TypeOK
  <2> QED
    BY <2>1 DEF Progress
<1>4. ASSUME NEW p \in Proc,
             \/ SyncTemplates(p) \/ LoadRecords(p) \/ WriteUsers(p) \/ UsersCommandFails(p)
             \/ WriteMap(p) \/ WriteUserConfig(p) \/ ActivateOk(p) \/ ActivateFails(p) \/ Verify(p)
      PROVE  Progress(p)'
  BY <1>1, <1>4, PipelineProgress DEF ProgressInv, ScopeInv, Scoped
<1>5. ASSUME NEW p \in Proc, Begin(p) \/ Continue(p) \/ Crash(p), InPipeline(p)' PROVE Progress(p)'
  BY <1>1, <1>3, <1>4, <1>5, LeavesPipeline DEF Begin, Continue
<1> QED
  BY <1>1, <1>2, <1>5, OnlyMover DEF Next, Wait

LEMMA InitProgress == Init => ProgressInv
  BY InitTyped DEF Init, ScopeInv, ProgressInv, InPipeline

\* A managed mutation changes nobody else's account: the whole users file and the whole map
\* are written back, but every other line and entry still reads as it did, on any disk an
\* earlier crash, timeout or rollback may have left.
THEOREM OthersStayUntouched == Spec /\ []Serial => []OthersUntouched
<1>1. ProgressInv => OthersUntouched
  <2> SUFFICES ASSUME ProgressInv, NEW p \in Proc, InPipeline(p), NEW u \in User \ {req[p].user}
               PROVE  LoadUser(disk, u) = LoadUser(before[p].disk, u)
    BY DEF OthersUntouched
  <2> DEFINE b == before[p].disk  r == req[p]
  <2>1. Progress(p) /\ Disk(b) /\ RequestOK(r)
    BY AtPipeline DEF ProgressInv, ScopeInv
  <2>2. disk \in {b, AtUsers(b, r)} \/ (Taken(AtUsers(b, r), r)
                                        /\ disk \in {AtMap(b, r), AtUserConfig(b, r), Changed(b, r)})
    BY <2>1 DEF Progress, InPipeline
  <2> QED
    BY <2>1, <2>2, OthersKept DEF AtUsers
<1> QED
  BY <1>1, InitProgress, NextProgress, PTL DEF Spec

-----------------------------------------------------------------------------
(***************************************************************************)
(* Consistency.  Requests that take turns on a sound disk keep it sound    *)
(* while nothing interrupts them.  Inside a request the invariant says     *)
(* how far the disk is from the one the request found; undoFile leads back *)
(* to the disk before the last change as long as it is the one recorded.   *)
(***************************************************************************)
\* The files agree, and if the backend found it so no two users share an address.
OwnStart == \A d \in InitialDisks : OwnAddresses(d)
Good(d)  == Sound(d) /\ (OwnStart => OwnAddresses(d))

\* The disk a request that fails goes back to.
Base(p) == IF pc[p] \in {"idle", "reactivate"} THEN disk ELSE before[p].disk

Undoable(d) ==
  undoFile # Absent /\ lastChange.recorded =>
    Restored(d, undoFile.snapshots) = lastChange.before /\ Good(lastChange.before)

\* What ocserv runs with while p serves its request.
ServiceKnown(p) ==
  /\ pc[p] \in {"sync", "load", "users", "map", "user config", "activate"}
       => running = before[p].running
  /\ pc[p] \in {"verify", "store"} /\ before[p].running = Served(before[p].disk)
       => running = Served(disk)

MembersOf(d, g) == {u \in User : LoadUsers(d)[u] # NoUser /\ LoadUsers(d)[u].group = g}

\* What the request of p was found to be, and how far a group operation or a rollback is.
RequestDone(p) ==
  LET b == before[p].disk  g == req[p].group IN
  /\ pc[p] # "idle" /\ req[p].action \in {"create_user", "assign_group"}
       => g \in AllowedGroups(b) \cup {NoGroup}
  /\ pc[p] = "template" =>
       /\ g \notin AllowedGroups(b)
       /\ disk = [b EXCEPT ![GroupsFile] = (IF @ = Absent THEN {} ELSE @) \cup {g}]
  /\ pc[p] = "unlink" =>
       /\ g \in AllowedGroups(b) \ ProtectedGroup
       /\ \A u \in User : LoadGroupMap(b)[u] # g
       /\ disk = [b EXCEPT ![GroupsFile] = IF @ = Absent THEN @ ELSE @ \ {g}]
  /\ pc[p] = "disabling" =>
       /\ req[p].action = "disable_group_users" /\ g \in AllowedGroups(b)
       /\ Good(disk) /\ loaded[p] \subseteq MembersOf(b, g)
       /\ \E S \in SUBSET MembersOf(b, g) : LoadUsers(disk) = DisabledTable(LoadUsers(b), S)
       /\ AllowedGroups(disk) = AllowedGroups(b)
       /\ \A h \in Group : GroupPool(disk, h) = GroupPool(b, h)
  /\ pc[p] = "reactivate" =>
       /\ undoFile # Absent /\ lastChange.recorded /\ disk = lastChange.before

Undisturbed(p) == Good(Base(p)) /\ Undoable(Base(p)) /\ ServiceKnown(p) /\ RequestDone(p)

\* A process at rest speaks for the disk only while no other one is at work.
SoundInv == /\ ProgressInv
            /\ intact => \A p \in Proc : Alone(p) => Undisturbed(p)
            /\ intact /\ AllIdle => Good(disk)

\* A request that ends leaves a sound disk, and an undoFile that leads back or is known
\* not to describe the last change.
LEMMA EndUndisturbed ==
  ASSUME TypeOK, NEW p \in Proc, End(p), Good(disk)', Undoable(disk)'
  PROVE  Undisturbed(p)'
<1>1. pc'[p] = "idle"
  BY DEF TypeOK, End, Goto
<1> QED
  BY <1>1 DEF Undisturbed, Base, Undoable, Good, ServiceKnown, RequestDone

LEMMA NotedUndoable ==
  ASSUME NEW p \in Proc, NoteUnrecorded(p), UNCHANGED undoFile, Undoable(before[p].disk)
  PROVE  Undoable(disk)'
<1>1. CASE disk' = before[p].disk
  BY <1>1 DEF NoteUnrecorded, Undoable, Good
<1>2. CASE disk' # before[p].disk
  BY <1>2 DEF NoteUnrecorded, Undoable
<1> QED
  BY <1>1, <1>2

\* On a sound disk the writes taken on are those of a request that is carried out, and the
\* snapshots lead back from every step that gives up.
LEMMA SoundProgress ==
  ASSUME NEW p \in Proc, Scoped(p), InPipeline(p), Sound(before[p].disk)
  PROVE  LET b == before[p].disk  r == req[p] IN
         /\ Taken(AtUsers(b, r), r) => Ready(b, r)
         /\ pc[p] \in {"activate", "verify", "store"} => disk = Changed(b, r) /\ Ready(b, r)
         /\ pc[p] \in {"activate", "verify", "restore"} => Restored(disk, snap[p]) = b
         /\ snap[p] = Snapshot(b, PlannedFiles(r))
<1> DEFINE b == before[p].disk  r == req[p]
<1>1. /\ Progress(p) /\ snap[p] = Snapshot(b, PlannedFiles(r))
      /\ Disk(b) /\ RequestOK(r) /\ r.action \in ManagedAction
  BY AtPipeline DEF Scoped, InScope
<1>2. Taken(AtUsers(b, r), r) => Ready(b, r)
  BY <1>1 DEF Taken, Ready, AtUsers, Records
<1>3. pc[p] \in {"activate", "verify", "store"} => disk = Changed(b, r) /\ Ready(b, r)
  BY <1>1, <1>2 DEF Progress
<1>4. ASSUME pc[p] \in {"activate", "verify", "restore"} PROVE Restored(disk, snap[p]) = b
  <2>1. disk = Synced(b, r) \/ (disk = Changed(b, r) /\ Ready(b, r))
    BY <1>1, <1>2, <1>4 DEF Progress, AtUsers
  <2> QED
    BY <1>1, <2>1, SyncedRestores, ChangedRestores
<1> QED
  BY <1>1, <1>2, <1>3, <1>4

\* The steps of the pipeline up to the verification.
LEMMA PipelineUndisturbed ==
  ASSUME NEW p \in Proc, Scoped(p), Undisturbed(p),
         \/ SyncTemplates(p) \/ LoadRecords(p) \/ WriteUsers(p) \/ UsersCommandFails(p)
         \/ WriteMap(p) \/ WriteUserConfig(p) \/ ActivateOk(p) \/ ActivateFails(p) \/ Verify(p)
  PROVE  Undisturbed(p)' /\ Base(p)' = Base(p) /\ UNCHANGED <<undoFile, lastChange>>
<1> DEFINE b == before[p].disk  r == req[p]
<1>0. /\ InPipeline(p) /\ pc \in [Proc -> Labels] /\ Base(p) = b
      /\ pc[p] # "idle" /\ Good(b) /\ Sound(b)
  BY DEF Scoped, TypeOK, SyncTemplates, LoadRecords, WriteUsers, UsersCommandFails, WriteMap,
     WriteUserConfig, ActivateOk, ActivateFails, Verify, InPipeline, Base, Undisturbed, Good
<1>1. UNCHANGED <<req, snap, before, undoFile, lastChange>>
  BY DEF SyncTemplates, LoadRecords, WriteUsers, UsersCommandFails, WriteMap, WriteUserConfig,
     ActivateOk, ActivateFails, Verify
<1>2. PICK label \in {"load", "users", "map", "user config", "activate", "verify", "store", "restore"} :
        Goto(p, label)
  BY DEF SyncTemplates, LoadRecords, WriteUsers, UsersCommandFails, WriteMap, WriteUserConfig,
     ActivateOk, ActivateFails, Verify
<1>3. pc'[p] = label
  BY <1>0, <1>2 DEF Goto
<1>4. Base(p)' = b
  BY <1>1, <1>3 DEF Base
<1>5. Good(Base(p))' /\ Undoable(Base(p))'
  BY <1>0, <1>1, <1>4 DEF Undisturbed, Undoable, Good
<1>6. RequestDone(p)'
  BY <1>0, <1>1, <1>3 DEF Undisturbed, RequestDone
<1>7. ServiceKnown(p)'
  <2>1. CASE \/ SyncTemplates(p) \/ LoadRecords(p) \/ WriteUsers(p) \/ UsersCommandFails(p)
             \/ WriteMap(p) \/ WriteUserConfig(p)
    <3>1. label \in {"load", "users", "map", "user config", "activate", "restore"}
      BY <1>0, <1>3, <2>1 DEF SyncTemplates, LoadRecords, WriteUsers, UsersCommandFails, WriteMap,
         WriteUserConfig, Goto
    <3>2. running' = before[p].running
      BY <2>1 DEF SyncTemplates, LoadRecords, WriteUsers, UsersCommandFails, WriteMap,
         WriteUserConfig, Undisturbed, ServiceKnown
    <3> QED
      BY <1>1, <1>3, <3>1, <3>2 DEF ServiceKnown
  <2>2. CASE ActivateOk(p)
    <3>1. label = "verify" /\ disk' = disk /\ Served(disk)' = Served(disk) /\ running = before[p].running
      BY <1>0, <1>3, <2>2 DEF ActivateOk, Goto, Undisturbed, ServiceKnown, Served
    <3>2. CASE NeedsRestart(ChangedFiles(disk, snap[p]))
      BY <1>3, <2>2, <3>1, <3>2 DEF ActivateOk, Activated, ServiceKnown
    <3>3. CASE ~NeedsRestart(ChangedFiles(disk, snap[p]))
      <4>1. running' = running
        BY <2>2, <3>3 DEF ActivateOk, Activated
      <4>2. snap[p] = Snapshot(b, PlannedFiles(r))
        BY <1>0, <2>2, SoundProgress DEF ActivateOk
      <4>0. disk = Changed(b, r) /\ Ready(b, r)
        BY <1>0, <2>2, SoundProgress DEF ActivateOk
      <4>3. Served(disk) = Served(b)
        <5>1. ASSUME NEW f \in ServiceFiles PROVE disk[f] = b[f]
          <6>1. f \in PlannedFiles(r) => disk[f] = b[f]
            BY <3>3, <4>2 DEF NeedsRestart, ChangedFiles, Snapshot
          <6>2. f \notin PlannedFiles(r) => disk[f] = b[f]
            BY <4>0, ChangedRestores DEF File
          <6> QED
            BY <6>1, <6>2
        <5> QED
          BY <5>1 DEF Served
      <4> QED
        BY <1>1, <1>3, <3>1, <4>1, <4>3 DEF ServiceKnown
    <3> QED
      BY <3>2, <3>3
  <2>3. CASE ActivateFails(p)
    <3>1. label = "restore"
      BY <1>0, <1>3, <2>3 DEF ActivateFails, Goto
    <3> QED
      BY <1>3, <3>1 DEF ServiceKnown
  <2>4. CASE Verify(p)
    <3>1. /\ running' = running /\ disk' = disk /\ Served(disk)' = Served(disk)
          /\ label \in {"store", "restore"} /\ pc[p] = "verify"
      BY <1>0, <1>3, <2>4 DEF Verify, Goto, Served
    <3> QED
      BY <1>1, <1>3, <3>1 DEF ServiceKnown, Undisturbed
  <2> QED
    BY <2>1, <2>2, <2>3, <2>4
<1> QED
  BY <1>0, <1>1, <1>4, <1>5, <1>6, <1>7 DEF Undisturbed

\* The ways a managed mutation ends.
LEMMA StoreUndisturbed ==
  ASSUME NEW p \in Proc, Scoped(p), Undisturbed(p), StoreRollbackState(p)
  PROVE  Undisturbed(p)' /\ disk' = disk /\ disk = Changed(before[p].disk, req[p])
         /\ Ready(before[p].disk, req[p])
<1> DEFINE b == before[p].disk  r == req[p]
<1>1. TypeOK /\ Good(b) /\ Sound(b) /\ InPipeline(p) /\ pc[p] = "store"
  BY DEF Scoped, StoreRollbackState, InPipeline, Undisturbed, Base, Good
<1>2. disk = Changed(b, r) /\ Ready(b, r) /\ snap[p] = Snapshot(b, PlannedFiles(r))
  BY <1>1, SoundProgress
<1>3. Good(disk) /\ Restored(disk, snap[p]) = b
  BY <1>1, <1>2, ChangedSound, ChangedRestores, StageOwn DEF Good
<1>4. disk' = disk /\ undoFile'.snapshots = snap[p] /\ lastChange'.before = b /\ End(p)
  BY DEF StoreRollbackState
<1>5. Undoable(disk)'
  BY <1>1, <1>3, <1>4 DEF Undoable, Good
<1>6. Good(disk)'
  BY <1>3, <1>4 DEF Good
<1> QED
  BY <1>1, <1>2, <1>4, <1>5, <1>6, EndUndisturbed

LEMMA RestoreUndisturbed ==
  ASSUME NEW p \in Proc, Scoped(p), Undisturbed(p), RestoreSnapshots(p)
  PROVE  Undisturbed(p)' /\ disk' = before[p].disk
<1>1. TypeOK /\ InPipeline(p) /\ pc[p] = "restore" /\ End(p) /\ UNCHANGED <<undoFile, lastChange>>
      /\ Good(before[p].disk) /\ Sound(before[p].disk) /\ Undoable(before[p].disk)
  BY DEF Scoped, RestoreSnapshots, InPipeline, Undisturbed, Base, Good
<1>2. disk' = before[p].disk
  BY <1>1, SoundProgress DEF RestoreSnapshots
<1>3. Good(disk)' /\ Undoable(disk)'
  BY <1>1, <1>2 DEF Undoable, Good
<1> QED
  BY <1>1, <1>2, <1>3, EndUndisturbed

\* A crash that disturbs nothing found the files as the request did, or restored by a
\* rollback.
LEMMA CrashUndisturbed ==
  ASSUME TypeOK, NEW p \in Proc, Undisturbed(p), Crash(p), intact'
  PROVE  Undisturbed(p)' /\ disk' = Base(p) /\ UNCHANGED <<undoFile, lastChange>>
<1>1. TypeOK /\ End(p) /\ disk' = disk /\ UNCHANGED undoFile /\ pc[p] # "idle" /\ pc[p] \in Labels
  BY DEF Crash, TypeOK
<1>2. CASE req[p].action = "rollback_last_change"
  <2>1. pc[p] = "reactivate"
    BY <1>1, <1>2 DEF TypeOK, ServingOK, Undisturbed, RequestDone, InPipeline, ManagedAction, Labels
  <2>2. Base(p) = disk /\ UNCHANGED lastChange
    BY <1>2, <2>1 DEF Base, Crash
  <2>3. Good(disk)' /\ Undoable(disk)'
    BY <1>1, <2>2 DEF Undisturbed, Undoable, Good
  <2> QED
    BY <1>1, <2>2, <2>3, EndUndisturbed
<1>3. CASE req[p].action # "rollback_last_change"
  <2>1. NoteUnrecorded(p) /\ disk = before[p].disk
    BY <1>3 DEF Crash
  <2>2. Base(p) = disk /\ UNCHANGED lastChange
    BY <1>1, <2>1 DEF Base, NoteUnrecorded
  <2>3. Good(disk)' /\ Undoable(disk)'
    BY <1>1, <2>2 DEF Undisturbed, Undoable, Good
  <2> QED
    BY <1>1, <2>2, <2>3, EndUndisturbed
<1> QED
  BY <1>2, <1>3

\* A group operation that ends leaves a good disk and, if it changed one, no way back.
LEMMA NotedEnd ==
  ASSUME TypeOK, NEW p \in Proc, Undisturbed(p), Base(p) = before[p].disk,
         NoteUnrecorded(p), End(p), UNCHANGED undoFile, Good(disk')
  PROVE  Undisturbed(p)'
<1>1. Undoable(disk)' /\ Good(disk)'
  BY NotedUndoable DEF Undisturbed, Good
<1> QED
  BY <1>1, EndUndisturbed

LEMMA TemplateWritten ==
  ASSUME TypeOK, NEW p \in Proc, Undisturbed(p), WriteGroupTemplate(p)
  PROVE  LET b == before[p].disk  g == req[p].group IN
         /\ Undisturbed(p)'
         /\ g \in Group \ AllowedGroups(b) /\ LoadUsers(disk') = LoadUsers(b)
         /\ AllowedGroups(disk') = AllowedGroups(b) \cup {g}
         /\ \A h \in Group \ {g} : GroupPool(disk', h) = GroupPool(b, h)
         /\ GroupPool(disk', g) \subseteq Ip
<1> DEFINE b == before[p].disk  g == req[p].group  pool == req[p].pool
           groups == (IF b[GroupsFile] = Absent THEN {} ELSE b[GroupsFile]) \cup {g}
<1>1. pc[p] = "template" /\ ServingOK(p) /\ RequestDone(p) /\ Base(p) = b /\ Good(b)
  BY DEF WriteGroupTemplate, TypeOK, Undisturbed, Base
<1>2. /\ Disk(b) /\ RequestOK(req[p]) /\ req[p].action = "create_group" /\ Sound(b)
      /\ g \notin AllowedGroups(b) /\ disk = [b EXCEPT ![GroupsFile] = groups]
  BY <1>1, RequestAssumption DEF ServingOK, RequestDone, Good
<1>3. g \in Group /\ pool \subseteq Ip
  BY <1>2 DEF RequestOK
<1>4. disk' = [disk EXCEPT ![GroupTemplate(g)] = pool]
  BY DEF WriteGroupTemplate
<1>10. groups = (IF b[GroupsFile] = Absent THEN {} ELSE b[GroupsFile]) \cup {g}
  OBVIOUS
<1> HIDE DEF b, g, pool, groups
<1>5. disk' = [b EXCEPT ![GroupsFile] = groups, ![GroupTemplate(g)] = pool]
  BY <1>2, <1>4
<1>6. /\ Sound(disk') /\ LoadUsers(disk') = LoadUsers(b)
      /\ AllowedGroups(disk') = AllowedGroups(b) \cup {g}
      /\ \A h \in Group \ {g} : GroupPool(disk', h) = GroupPool(b, h)
      /\ GroupPool(disk', g) = IF pool = Absent THEN {} ELSE pool
  <2>1. GroupAdded(b, g, pool, disk')
    BY <1>2, <1>3, <1>5, <1>10, CreateGroupSound
  <2> QED
    BY <2>1 DEF GroupAdded
<1>7. Good(disk')
  BY <1>1, <1>6, SameAddresses DEF Good
<1>8. Undisturbed(p)'
  BY <1>1, <1>7, NotedEnd DEF WriteGroupTemplate, b
<1>9. GroupPool(disk', g) \subseteq Ip
  BY <1>3, <1>6
<1> QED
  BY <1>2, <1>3, <1>6, <1>8, <1>9 DEF b, g

LEMMA GroupUnlinked ==
  ASSUME TypeOK, NEW p \in Proc, Undisturbed(p), UnlinkGroupFiles(p)
  PROVE  LET b == before[p].disk  g == req[p].group IN
         /\ Undisturbed(p)' /\ Disk(b) /\ Sound(b)
         /\ g \in AllowedGroups(b) \ ProtectedGroup /\ \A u \in User : LoadGroupMap(b)[u] # g
         /\ LoadUsers(disk') = LoadUsers(b)
         /\ AllowedGroups(disk') = AllowedGroups(b) \ {g}
         /\ \A h \in Group \ {g} : GroupPool(disk', h) = GroupPool(b, h)
<1> DEFINE b == before[p].disk  g == req[p].group
<1>1. pc[p] = "unlink" /\ ServingOK(p) /\ RequestDone(p) /\ Base(p) = b /\ Good(b)
  BY DEF UnlinkGroupFiles, TypeOK, Undisturbed, Base
<1>2. /\ Disk(b) /\ RequestOK(req[p]) /\ req[p].action = "delete_group" /\ Sound(b)
      /\ g \in AllowedGroups(b) \ ProtectedGroup /\ \A u \in User : LoadGroupMap(b)[u] # g
      /\ disk = [b EXCEPT ![GroupsFile] = IF @ = Absent THEN @ ELSE @ \ {g}]
  BY <1>1, RequestAssumption DEF ServingOK, RequestDone, Good
<1>3. g \in Group
  BY <1>2 DEF RequestOK
<1>4. disk' = [disk EXCEPT ![GroupConfig(g)] = Absent, ![GroupTemplate(g)] = Absent]
  BY DEF UnlinkGroupFiles
<1> HIDE DEF b, g
<1>5. disk' = [b EXCEPT ![GroupsFile] = IF @ = Absent THEN @ ELSE @ \ {g},
                        ![GroupConfig(g)] = Absent, ![GroupTemplate(g)] = Absent]
  BY <1>2, <1>4
<1>6. /\ Sound(disk') /\ LoadUsers(disk') = LoadUsers(b)
      /\ AllowedGroups(disk') \ ProtectedGroup = AllowedGroups(b) \ (ProtectedGroup \cup {g})
      /\ \A h \in Group \ {g} : GroupPool(disk', h) = GroupPool(b, h)
  <2>1. GroupRemoved(b, g, disk')
    BY <1>2, <1>3, <1>5, DeleteGroupSound
  <2> QED
    BY <2>1 DEF GroupRemoved
<1>7. AllowedGroups(disk') = AllowedGroups(b) \ {g}
  <2>1. ProtectedGroup \subseteq AllowedGroups(b) /\ ProtectedGroup \subseteq AllowedGroups(disk')
    BY DEF AllowedGroups
  <2> QED
    BY <1>2, <1>6, <2>1
<1>8. Good(disk')
  BY <1>1, <1>6, SameAddresses DEF Good
<1>9. Undisturbed(p)'
  BY <1>1, <1>8, NotedEnd DEF UnlinkGroupFiles, b
<1> QED
  BY <1>2, <1>6, <1>7, <1>9 DEF b, g

\* The members of a group disabled so far are some of those it had.
Disabling(p, d) ==
  LET b == before[p].disk  g == req[p].group IN
  /\ g \in AllowedGroups(b)
  /\ \E S \in SUBSET MembersOf(b, g) : LoadUsers(d) = DisabledTable(LoadUsers(b), S)
  /\ AllowedGroups(d) = AllowedGroups(b)
  /\ \A h \in Group : GroupPool(d, h) = GroupPool(b, h)

LEMMA MemberDisabled ==
  ASSUME TypeOK, NEW p \in Proc, Undisturbed(p), pc[p] = "disabling", NEW u \in loaded[p],
         EditedUsers(disk, Loaded(disk))[u] # NoUser,
         NEW e, e = [disk EXCEPT ![UsersFile] = DisabledUsers(disk, u)]
  PROVE  Good(e) /\ Disabling(p, e)
<1> DEFINE b == before[p].disk  g == req[p].group  T == LoadUsers(b)
<1>1. /\ Disk(disk) /\ Disk(b) /\ Good(disk) /\ Sound(disk)
      /\ g \in AllowedGroups(b) /\ u \in MembersOf(b, g)
      /\ AllowedGroups(disk) = AllowedGroups(b)
      /\ \A h \in Group : GroupPool(disk, h) = GroupPool(b, h)
  BY DEF TypeOK, ServingOK, Undisturbed, RequestDone, Good
<1>2. PICK S \in SUBSET MembersOf(b, g) : LoadUsers(disk) = DisabledTable(T, S)
  BY DEF Undisturbed, RequestDone
<1>3. u \in User /\ T[u] # NoUser /\ S \subseteq User /\ \A v \in S : T[v] # NoUser
  BY <1>1, <1>2 DEF MembersOf
<1>4. T \in UserTable
  BY <1>1, LoadedTyped DEF Loaded
<1> HIDE DEF T, b, g
<1>5. /\ Sound(e) /\ LoadUsers(e) = [LoadUsers(disk) EXCEPT ![u].disabled = TRUE]
      /\ AllowedGroups(e) = AllowedGroups(disk)
      /\ \A h \in Group : GroupPool(e, h) = GroupPool(disk, h)
  <2>1. UserDisabled(disk, u, e)
    BY <1>1, <1>3, DisableSound
  <2> QED
    BY <2>1 DEF UserDisabled
<1>6. LoadUsers(e) = DisabledTable(T, S \cup {u})
  BY <1>2, <1>3, <1>4, <1>5, OneMoreDisabled
<1>7. \A v \in User : IpIn(LoadUsers(e), v) = IpIn(LoadUsers(disk), v)
  BY <1>2, <1>3, <1>4, <1>6, DisabledAddresses
<1>8. Good(e)
  BY <1>1, <1>5, <1>7, SameAddresses DEF Good
<1>9. S \cup {u} \in SUBSET MembersOf(b, g)
  BY <1>1, <1>2
<1> QED
  BY <1>1, <1>5, <1>6, <1>8, <1>9 DEF Disabling, T, b, g

LEMMA DisableUndisturbed ==
  ASSUME TypeOK, NEW p \in Proc, Undisturbed(p), DisableNext(p) \/ DisableStops(p)
  PROVE  /\ Undisturbed(p)' /\ UNCHANGED undoFile
         /\ \/ Base(p)' = Base(p) /\ UNCHANGED lastChange
            \/ Base(p) = before[p].disk /\ Base(p)' = disk' /\ NoteUnrecorded(p) /\ Disabling(p, disk')
<1>1. /\ TypeOK /\ pc[p] = "disabling" /\ Base(p) = before[p].disk /\ UNCHANGED undoFile
      /\ Good(disk) /\ Disabling(p, disk) /\ pc[p] # "idle"
  BY DEF DisableNext, DisableStops, Undisturbed, RequestDone, Base, Disabling
<1>2. ASSUME End(p), NoteUnrecorded(p), Good(disk'), Disabling(p, disk')
      PROVE  /\ Undisturbed(p)' /\ Base(p)' = disk'
  <2>1. pc'[p] = "idle"
    BY <1>2 DEF TypeOK, End, Goto
  <2>2. Base(p)' = disk'
    BY <2>1 DEF Base
  <2> QED
    BY <1>1, <1>2, <2>2, NotedEnd
<1>3. CASE DisableStops(p)
  <2>1. disk' = disk /\ End(p) /\ NoteUnrecorded(p)
    BY <1>3 DEF DisableStops
  <2>2. Good(disk') /\ Disabling(p, disk')
    BY <1>1, <2>1
  <2> QED
    BY <1>1, <1>2, <2>1, <2>2
<1>4. CASE DisableNext(p)
  <2>1. PICK u \in loaded[p] :
          /\ EditedUsers(disk, Loaded(disk))[u] # NoUser
          /\ disk' = [disk EXCEPT ![UsersFile] = DisabledUsers(disk, u)]
          /\ IF loaded[p] = {u} THEN NoteUnrecorded(p) /\ End(p)
             ELSE /\ loaded' = [loaded EXCEPT ![p] = @ \ {u}]
                  /\ UNCHANGED <<pc, req, snap, before, lastChange>>
    BY <1>4 DEF DisableNext, DisabledUsers
  <2>2. Good(disk') /\ Disabling(p, disk')
    BY <1>1, <2>1, MemberDisabled
  <2>3. CASE loaded[p] = {u}
    BY <1>1, <1>2, <2>1, <2>2, <2>3
  <2>4. CASE loaded[p] # {u}
    <3>1. UNCHANGED <<pc, req, before, lastChange, undoFile>> /\ loaded'[p] \subseteq loaded[p]
      BY <1>1, <2>1, <2>4 DEF TypeOK
    <3>2. Base(p)' = Base(p)
      BY <1>1, <3>1 DEF Base
    <3>3. Good(Base(p))' /\ Undoable(Base(p))'
      BY <3>1, <3>2 DEF Undisturbed, Undoable, Good
    <3>4. RequestDone(p)'
      <4>1. req[p].action = "disable_group_users" /\ loaded[p] \subseteq MembersOf(before[p].disk, req[p].group)
        BY <1>1 DEF Undisturbed, RequestDone
      <4>2. Good(disk)'
        BY <2>2 DEF Good
      <4> QED
        BY <1>1, <2>2, <3>1, <4>1, <4>2 DEF RequestDone, Disabling
    <3>5. ServiceKnown(p)'
      BY <1>1, <3>1 DEF ServiceKnown
    <3> QED
      BY <1>1, <3>1, <3>2, <3>3, <3>4, <3>5 DEF Undisturbed
  <2> QED
    BY <2>3, <2>4
<1> QED
  BY <1>3, <1>4

LEMMA ReactivateUndisturbed ==
  ASSUME TypeOK, NEW p \in Proc, Undisturbed(p), ReactivateOk(p) \/ ReactivateFails(p)
  PROVE  /\ Undisturbed(p)' /\ disk' = disk /\ Base(p) = disk
         /\ undoFile # Absent /\ lastChange.recorded /\ disk = lastChange.before
<1>1. /\ TypeOK /\ End(p) /\ disk' = disk /\ Base(p) = disk
      /\ undoFile # Absent /\ lastChange.recorded /\ disk = lastChange.before
  BY DEF ReactivateOk, ReactivateFails, Undisturbed, Base, RequestDone
<1>2. undoFile' = Absent \/ UNCHANGED <<undoFile, lastChange>>
  BY DEF ReactivateOk, ReactivateFails
<1>3. Good(disk)' /\ Undoable(disk)'
  BY <1>1, <1>2 DEF Undisturbed, Undoable, Good
<1> QED
  BY <1>1, <1>3, EndUndisturbed

\* A rollback that undoes the last change gives back the disk that change found.
LEMMA RollbackUndisturbed ==
  ASSUME TypeOK, NEW p \in Proc, Undisturbed(p), NEW r \in Requests,
         RestoreLastChange(p, r), intact'
  PROVE  /\ Undisturbed(p)' /\ disk' = lastChange.before /\ Base(p)' = disk'
         /\ undoFile # Absent /\ lastChange.recorded /\ UNCHANGED <<undoFile, lastChange>>
<1>1. /\ TypeOK /\ Undoable(disk) /\ pc'[p] = "reactivate" /\ req'[p] = r /\ lastChange.recorded
      /\ undoFile # Absent /\ disk' = Restored(disk, undoFile.snapshots)
      /\ UNCHANGED <<undoFile, lastChange>> /\ r.action = "rollback_last_change"
  BY DEF TypeOK, RestoreLastChange, Start, Goto, Undisturbed, Base
<1>2. disk' = lastChange.before /\ Good(lastChange.before) /\ Base(p)' = disk'
  BY <1>1 DEF Undoable, Base
<1>3. Restored(disk', undoFile.snapshots) = disk'
  BY <1>1 DEF Restored
<1>4. Good(Base(p))' /\ Undoable(Base(p))'
  BY <1>1, <1>2, <1>3 DEF Undoable, Good
<1>5. RequestDone(p)' /\ ServiceKnown(p)'
  BY <1>1, <1>2 DEF ServiceKnown, RequestDone
<1> QED
  BY <1>1, <1>2, <1>4, <1>5 DEF Undisturbed

LEMMA StartUndisturbed ==
  ASSUME TypeOK, NEW p \in Proc, Undisturbed(p), NEW r \in Requests,
         \/ BeginManaged(p, r) \/ BeginCreateGroup(p, r) \/ BeginDeleteGroup(p, r)
         \/ BeginDisableGroup(p, r)
  PROVE  Undisturbed(p)' /\ Base(p)' = Base(p) /\ UNCHANGED <<undoFile, lastChange>>
<1>1. PICK label \in {"sync", "template", "unlink", "disabling"} : Start(p, r, label)
  BY DEF BeginManaged, BeginCreateGroup, BeginDeleteGroup, BeginDisableGroup
<1>2. /\ TypeOK /\ pc[p] = "idle" /\ Good(disk) /\ Undoable(disk) /\ pc'[p] = label
      /\ req'[p] = r /\ before'[p].disk = disk /\ before'[p].running = running
  BY <1>1 DEF TypeOK, Start, Goto, Undisturbed, Base
<1>3. UNCHANGED <<undoFile, lastChange, running>>
  BY DEF BeginManaged, BeginCreateGroup, BeginDeleteGroup, BeginDisableGroup
<1>4. Base(p) = disk /\ Base(p)' = disk
  BY <1>2 DEF Base
<1>5. Good(Base(p))' /\ Undoable(Base(p))'
  BY <1>2, <1>3, <1>4 DEF Undoable, Good
<1>6. ServiceKnown(p)'
  BY <1>2, <1>3 DEF ServiceKnown
<1>7. RequestDone(p)'
  <2>1. CASE BeginManaged(p, r)
    <3>1. label = "sync"
      BY <1>2, <2>1 DEF BeginManaged, Start, Goto, TypeOK
    <3>2. r.action \in {"create_user", "assign_group"} => r.group \in AllowedGroups(disk) \cup {NoGroup}
      BY <2>1 DEF BeginManaged, PreflightOk
    <3> QED
      BY <1>2, <3>1, <3>2 DEF RequestDone
  <2>2. CASE BeginCreateGroup(p, r)
    <3>1. /\ label = "template" /\ r.group \notin AllowedGroups(disk) /\ r.action = "create_group"
          /\ disk' = [disk EXCEPT ![GroupsFile] = (IF @ = Absent THEN {} ELSE @) \cup {r.group}]
      BY <1>2, <2>2 DEF BeginCreateGroup, Start, Goto, TypeOK
    <3> QED
      BY <1>2, <3>1 DEF RequestDone
  <2>3. CASE BeginDeleteGroup(p, r)
    <3>1. /\ label = "unlink" /\ \A u \in User : LoadGroupMap(disk)[u] # r.group
          /\ r.group \in AllowedGroups(disk) \ ProtectedGroup /\ r.action = "delete_group"
          /\ disk' = [disk EXCEPT ![GroupsFile] = IF @ = Absent THEN @ ELSE @ \ {r.group}]
      BY <1>2, <2>3 DEF BeginDeleteGroup, GroupInUse, Start, Goto, TypeOK
    <3> QED
      BY <1>2, <3>1 DEF RequestDone
  <2>4. CASE BeginDisableGroup(p, r)
    <3>1. /\ label = "disabling" /\ disk' = disk /\ r.action = "disable_group_users"
          /\ r.group \in AllowedGroups(disk) /\ loaded'[p] = DisableTargets(r.group)
      BY <1>2, <2>4 DEF BeginDisableGroup, Start, Goto, TypeOK
    <3>2. DisableTargets(r.group) \subseteq MembersOf(disk, r.group)
      <4>1. Disk(disk) /\ Sound(disk)
        BY <1>2 DEF TypeOK, Good
      <4>2. \A u \in User : LoadUsers(disk)[u] = LoadUser(disk, u)
                            /\ LoadGroupMap(disk)[u] = GroupIn(LoadUsers(disk), u)
        BY <4>1, SoundReads
      <4> QED
        BY <4>2 DEF DisableTargets, MembersOf, GroupIn
    <3>3. {} \in SUBSET MembersOf(disk, r.group) /\ LoadUsers(disk) = DisabledTable(LoadUsers(disk), {})
      BY DEF DisabledTable, LoadUsers
    <3>4. Good(disk)'
      BY <1>2, <3>1 DEF Good
    <3> QED
      BY <1>2, <3>1, <3>2, <3>3, <3>4 DEF RequestDone
  <2> QED
    BY <2>1, <2>2, <2>3, <2>4
<1> QED
  BY <1>3, <1>4, <1>5, <1>6, <1>7 DEF Undisturbed

LEMMA UndisturbedStutters ==
  ASSUME NEW p \in Proc, Undisturbed(p), UNCHANGED vars
  PROVE  Undisturbed(p)'
<1>1. Good(Base(p))' /\ Undoable(Base(p))'
  BY DEF vars, private, Undisturbed, Base, Undoable, Good
<1>2. ServiceKnown(p)' /\ RequestDone(p)'
  BY DEF vars, private, Undisturbed, ServiceKnown, RequestDone, Served, Good
<1> QED
  BY <1>1, <1>2 DEF Undisturbed

\* What disturbs a request disturbs for good.
LEMMA IntactBefore == TypeOK /\ [Next]_vars /\ intact' => intact
<1> SUFFICES ASSUME TypeOK, [Next]_vars, intact' PROVE intact
  OBVIOUS
<1>1. ASSUME NEW p \in Proc, Begin(p) PROVE intact
  BY <1>1 DEF Begin, BeginManaged, BeginCreateGroup, BeginDeleteGroup, BeginDisableGroup,
     RestoreLastChange
<1>2. ASSUME NEW p \in Proc, Continue(p) PROVE intact
  BY <1>2 DEF Continue, SyncTemplates, LoadRecords, WriteUsers, UsersCommandFails, CreateTimesOut,
     WriteMap, WriteUserConfig, ActivateOk, ActivateFails, Verify, StoreRollbackState,
     RestoreSnapshots, WriteGroupTemplate, UnlinkGroupFiles, DisableNext, DisableStops,
     ReactivateOk, ReactivateFails
<1>3. ASSUME NEW p \in Proc, Crash(p) PROVE intact
  BY <1>3 DEF Crash
<1>4. CASE UNCHANGED vars
  BY <1>4 DEF vars
<1> QED
  BY <1>1, <1>2, <1>3, <1>4 DEF Next, Wait

LEMMA NextSound ==
  ASSUME SoundInv, Serial, Serial', [Next]_vars
  PROVE  SoundInv'
<1>1. ProgressInv' /\ ProgressInv /\ TypeOK
  BY NextProgress DEF SoundInv, ProgressInv, ScopeInv
<1> SUFFICES ASSUME intact'
             PROVE  /\ \A p \in Proc : Alone(p)' => Undisturbed(p)'
                    /\ AllIdle' => Good(disk)'
  BY <1>1 DEF SoundInv
<1>2. intact
  BY <1>1, IntactBefore
<1>3. CASE UNCHANGED vars
  <2>1. ASSUME NEW p \in Proc, Alone(p)' PROVE Undisturbed(p)'
    <3>1. Alone(p)
      BY <1>3, <2>1 DEF Alone, vars, private
    <3> QED
      BY <1>2, <1>3, <3>1, UndisturbedStutters DEF SoundInv
  <2>2. AllIdle' => Good(disk)'
    BY <1>2, <1>3 DEF SoundInv, AllIdle, vars, private, Good
  <2> QED
    BY <2>1, <2>2
<1>4. ASSUME NEW p \in Proc, Begin(p) \/ Continue(p) \/ Crash(p)
      PROVE  /\ \A q \in Proc : Alone(q)' => Undisturbed(q)'
             /\ AllIdle' => Good(disk)'
  <2>1. Alone(p) /\ Alone(p)' /\ Undisturbed(p) /\ Scoped(p)
    BY <1>1, <1>2, <1>4, StepAlone DEF SoundInv, ProgressInv, ScopeInv, Scoped
  <2>2. ASSUME Begin(p) PROVE Undisturbed(p)'
    BY <1>1, <2>1, <2>2, RollbackUndisturbed, StartUndisturbed DEF Begin
  <2>3. ASSUME Continue(p) PROVE Undisturbed(p)'
    <3>1. ~CreateTimesOut(p)
      BY DEF CreateTimesOut
    <3> QED
      BY <1>1, <2>1, <2>3, <3>1, PipelineUndisturbed, StoreUndisturbed, RestoreUndisturbed,
         TemplateWritten, GroupUnlinked, DisableUndisturbed, ReactivateUndisturbed DEF Continue
  <2>4. ASSUME Crash(p) PROVE Undisturbed(p)'
    BY <1>1, <2>1, <2>4, CrashUndisturbed
  <2>5. Undisturbed(p)'
    BY <1>4, <2>2, <2>3, <2>4
  <2>6. ASSUME pc'[p] = "idle" PROVE Good(disk)' /\ Undoable(disk)'
    <3>1. Base(p)' = disk'
      BY <2>6 DEF Base
    <3> QED
      BY <2>5, <3>1 DEF Undisturbed, Undoable, Good
  <2>7. ASSUME NEW q \in Proc, Alone(q)', q # p PROVE Undisturbed(q)'
    <3>1. pc'[p] = "idle" /\ pc'[q] = "idle"
      BY <2>1, <2>7 DEF Alone
    <3>2. Base(q)' = disk'
      BY <3>1 DEF Base
    <3>3. Good(Base(q))' /\ Undoable(Base(q))'
      BY <2>6, <3>1, <3>2 DEF Undoable, Good
    <3> QED
      BY <3>1, <3>3 DEF Undisturbed, ServiceKnown, RequestDone
  <2> QED
    BY <2>5, <2>6, <2>7 DEF AllIdle
<1> QED
  BY <1>3, <1>4 DEF Next, Wait

\* What the theorems below assume: files that agree at the start.
SoundStart == \A d \in InitialDisks : Sound(d)

LEMMA InitSound == SoundStart /\ Init => SoundInv
<1> SUFFICES ASSUME SoundStart, Init PROVE SoundInv
  OBVIOUS
<1>1. ProgressInv
  BY InitProgress
<1>2. Good(disk) /\ undoFile = Absent /\ \A p \in Proc : pc[p] = "idle"
  BY DEF SoundStart, OwnStart, Init, Good
<1>3. ASSUME NEW p \in Proc PROVE Undisturbed(p)
  BY <1>2 DEF Undisturbed, Base, Undoable, ServiceKnown, RequestDone
<1> QED
  BY <1>1, <1>2, <1>3 DEF SoundInv

LEMMA SoundAtRest ==
  ASSUME SoundInv, intact, AllIdle
  PROVE  Disk(disk) /\ Sound(disk)
  BY DEF SoundInv, ProgressInv, ScopeInv, TypeOK, Good

\* The request a process is serving is undisturbed.
LEMMA UndisturbedAtWork ==
  ASSUME SoundInv, Serial, intact, NEW p \in Proc, pc[p] # "idle"
  PROVE  Undisturbed(p) /\ Alone(p) /\ Scoped(p)
  BY DEF SoundInv, Serial, ProgressInv, ScopeInv, Scoped

\* The stores agree whenever no request runs, so that preflightMutation never shuts out
\* the managed mutations for good.
THEOREM Consistent == SoundStart /\ Spec /\ []Serial => []ConsistentInventory
<1>1. SoundInv => ConsistentInventory
  BY SoundAtRest, SoundHasNoConflict DEF ConsistentInventory
<1> QED
  BY <1>1, InitSound, NextSound, PTL DEF Spec

\* Every fixed address lies in the pool of the user's group, and ocserv is told of it.
THEOREM AddressesStaySound == SoundStart /\ Spec /\ []Serial => []AddressesSound
<1>1. SoundInv => AddressesSound
  BY SoundAtRest, SoundAddresses DEF AddressesSound
<1> QED
  BY <1>1, InitSound, NextSound, PTL DEF Spec

\* A deleted user leaves no address behind for the next of that name.
THEOREM NothingLeft == SoundStart /\ Spec /\ []Serial => []NoLeftovers
<1>1. SoundInv => NoLeftovers
  BY SoundAtRest, SoundLeavesNothing DEF NoLeftovers
<1> QED
  BY <1>1, InitSound, NextSound, PTL DEF Spec

\* A managed mutation that ends in an error puts back every file, the one it does not
\* snapshot included: on a sound disk assign_group rewrites it with what it held.
THEOREM NoTrace == SoundStart /\ Spec /\ []Serial => FailureLeavesNoTrace
<1>1. SoundInv /\ Serial => \A p \in Proc : intact /\ RestoreSnapshots(p) => disk' = before[p].disk
  BY UndisturbedAtWork, RestoreUndisturbed DEF RestoreSnapshots
<1> QED
  BY <1>1, InitSound, NextSound, PTL DEF Spec, FailureLeavesNoTrace

\* rollback_last_change gives back exactly the files the last recorded change found.
THEOREM RollbackExact == SoundStart /\ Spec /\ []Serial => RollbackIsExact
<1>1. SoundInv /\ Serial /\ Serial' => \A p \in Proc, r \in Requests :
        RestoreLastChange(p, r) /\ intact /\ lastChange.recorded => disk' = lastChange.before
  <2> SUFFICES ASSUME SoundInv, Serial, Serial', NEW p \in Proc, NEW r \in Requests,
                      RestoreLastChange(p, r), intact, lastChange.recorded
               PROVE  disk' = lastChange.before
    OBVIOUS
  <2>1. intact' /\ TypeOK
    BY DEF RestoreLastChange, SoundInv, ProgressInv, ScopeInv
  <2>2. Alone(p)
    BY <2>1, StepAlone DEF Begin
  <2> QED
    BY <2>1, <2>2, RollbackUndisturbed DEF SoundInv
<1> QED
  BY <1>1, InitSound, NextSound, PTL DEF Spec, RollbackIsExact

\* After a mutation that reports success ocserv runs with the files now on disk, if it did
\* before: no changed service file was activated with a mere reload.
THEOREM ActivationCovers == SoundStart /\ Spec /\ []Serial => ActivationCoversChange
<1>1. SoundInv /\ Serial => \A p \in Proc :
        intact /\ StoreRollbackState(p) /\ before[p].running = Served(before[p].disk)
          => running' = Served(disk')
  <2> SUFFICES ASSUME SoundInv, Serial, NEW p \in Proc, intact, StoreRollbackState(p),
                      before[p].running = Served(before[p].disk)
               PROVE  running' = Served(disk')
    OBVIOUS
  <2>1. running = Served(disk) /\ running' = running /\ disk' = disk
    BY UndisturbedAtWork DEF Undisturbed, ServiceKnown, StoreRollbackState
  <2> QED
    BY <2>1 DEF Served
<1> QED
  BY <1>1, InitSound, NextSound, PTL DEF Spec, ActivationCoversChange

\* Half way through a request too, no two users hold the same address.
LEMMA OwnAtWork ==
  ASSUME SoundInv, Serial, intact, OwnStart
  PROVE  OwnAddresses(disk)
<1>1. CASE AllIdle
  BY <1>1 DEF SoundInv, Good
<1>2. CASE ~AllIdle
  <2>1. PICK p \in Proc : pc[p] # "idle"
    BY <1>2 DEF AllIdle
  <2> DEFINE b == before[p].disk  r == req[p]
  <2>2. Undisturbed(p) /\ Scoped(p) /\ TypeOK /\ pc[p] \in Labels /\ Disk(b)
    BY <2>1, UndisturbedAtWork DEF Scoped, TypeOK, ServingOK
  <2>3. CASE InPipeline(p)
    <3>1. Progress(p) /\ RequestOK(r) /\ OwnAddresses(b) /\ Sound(b)
      BY <2>2, <2>3, AtPipeline DEF Scoped, Undisturbed, Base, Good, InPipeline
    <3>2. Taken(AtUsers(b, r), r) => Ready(b, r)
      BY <2>2, <2>3, <3>1, SoundProgress
    <3>3. OwnAddresses(AtUsers(b, r))
      <4>1. LoadUsers(AtUsers(b, r)) = LoadUsers(b)
        BY <2>2, <3>1, SyncedSound DEF AtUsers
      <4> QED
        BY <3>1, <4>1, SameAddresses
    <3>4. disk \in {b, AtUsers(b, r)} \/ (Ready(b, r) /\ disk \in {AtMap(b, r), AtUserConfig(b, r), Changed(b, r)})
      BY <2>3, <3>1, <3>2 DEF Progress, InPipeline
    <3> QED
      BY <3>1, <3>3, <3>4, StageOwn
  <2>4. CASE pc[p] \in {"template", "unlink"}
    <3>1. OwnAddresses(b) /\ \E groups : disk = [b EXCEPT ![GroupsFile] = groups]
      BY <2>2, <2>4 DEF Undisturbed, Base, Good, RequestDone
    <3>2. disk[UsersFile] = b[UsersFile] /\ disk[UserGroupMapFile] = b[UserGroupMapFile]
      BY <2>2, <3>1, FilesDistinct, ContentOf DEF Disk
    <3>3. LoadUsers(disk) = LoadUsers(b)
      BY <3>2, SameRecords DEF StoredUsers, Metadata
    <3> QED
      BY <3>1, <3>3, SameAddresses
  <2>5. CASE pc[p] \in {"disabling", "reactivate"}
    BY <2>2, <2>5 DEF Undisturbed, RequestDone, Base, Good
  <2> QED
    BY <2>1, <2>2, <2>3, <2>4, <2>5 DEF Labels, InPipeline
<1> QED
  BY <1>1, <1>2

\* No two users ever hold the same fixed address, half way through a request or after a
\* rollback either, if none did when the backend started.
THEOREM AddressesStayUnique == SoundStart /\ OwnStart /\ Spec /\ []Serial => []AddressesUnique
<1>1. OwnStart /\ SoundInv /\ Serial => AddressesUnique
  <2> SUFFICES ASSUME OwnStart, SoundInv, Serial, intact, NEW u \in User, NEW v \in User,
                      LoadUser(disk, u) # NoUser, LoadUser(disk, v) # NoUser, u # v
               PROVE  LoadUser(disk, u).ip = NoIp \/ LoadUser(disk, u).ip # LoadUser(disk, v).ip
    BY DEF AddressesUnique
  <2>1. OwnAddresses(disk)
    BY OwnAtWork
  <2>2. IpIn(LoadUsers(disk), u) = LoadUser(disk, u).ip /\ IpIn(LoadUsers(disk), v) = LoadUser(disk, v).ip
    BY DEF IpIn, LoadUsers
  <2> QED
    BY <2>1, <2>2 DEF OwnAddresses
<1>2. OwnStart /\ SoundInv /\ Serial /\ Serial' /\ [Next]_vars => OwnStart' /\ SoundInv'
  BY NextSound DEF OwnStart
<1> QED
  BY <1>1, <1>2, InitSound, PTL DEF Spec

-----------------------------------------------------------------------------
(***************************************************************************)
(* Disabled users.  A process writes the users file from the records it    *)
(* has just loaded: between the two nothing else writes it.                *)
(***************************************************************************)
\* From d to e no user is enabled who was disabled.
KeepsDisabled(d, e) ==
  \A u \in User :
    StoredUsers(d)[u] # NoUser /\ StoredUsers(d)[u].disabled /\ StoredUsers(e)[u] # NoUser
      => StoredUsers(e)[u].disabled

\* A step that leaves the users file alone.
LEMMA SameUsersFile == ASSUME disk'[UsersFile] = disk[UsersFile] PROVE KeepsDisabled(disk, disk')
  BY DEF KeepsDisabled, StoredUsers

\* What the users file holds after a step that edits the table of users T.
LEMMA EditKeepsDisabled ==
  ASSUME NEW d, Disk(d), NEW T \in UserTable,
         \A u \in User : /\ StoredUsers(d)[u] = NoUser <=> T[u] = NoUser
                         /\ T[u] # NoUser => T[u].disabled = StoredUsers(d)[u].disabled,
         NEW U \in UserTable,
         \A u \in User : T[u] # NoUser /\ T[u].disabled /\ U[u] # NoUser => U[u].disabled,
         NEW e, e[UsersFile] = U
  PROVE  KeepsDisabled(d, e)
<1>1. StoredUsers(e) = U
  BY AbsentIsNoContent DEF StoredUsers
<1> QED
  BY <1>1 DEF KeepsDisabled

\* The records loaded from a disk are in the users file, with the same status.
LEMMA LoadedStatus ==
  ASSUME NEW d, Disk(d)
  PROVE  /\ EditedUsers(d, Loaded(d)) \in UserTable /\ Loaded(d).users \in UserTable
         /\ \A T \in {EditedUsers(d, Loaded(d)), Loaded(d).users}, u \in User :
              /\ StoredUsers(d)[u] = NoUser <=> T[u] = NoUser
              /\ T[u] # NoUser => T[u].disabled = StoredUsers(d)[u].disabled
<1>1. Loaded(d).users \in UserTable /\ \A u \in User : Loaded(d).users[u] = LoadUser(d, u)
  BY LoadedTyped
<1>2. EditedUsers(d, Loaded(d)) \in {StoredUsers(d), Loaded(d).users} /\ StoredUsers(d) \in UserTable
  BY StoredTyped DEF EditedUsers
<1> QED
  BY <1>1, <1>2, LoadUserFields

\* The records as a record function leaves them.
LEMMA AfterKeepsDisabled ==
  ASSUME NEW d, Disk(d), NEW r, RequestOK(r), r.action \in ManagedAction,
         RecordAccepted(d, Loaded(d), r), UsersAfter(d, Loaded(d), r) \in UserTable,
         NEW e, e[UsersFile] = UsersAfter(d, Loaded(d), r)
  PROVE  KeepsDisabled(d, e)
<1> DEFINE E == EditedUsers(d, Loaded(d))  L == Loaded(d).users  U == UsersAfter(d, Loaded(d), r)
<1>1. /\ E \in UserTable /\ L \in UserTable /\ r.user \in User
      /\ \A T \in {E, L}, u \in User : /\ StoredUsers(d)[u] = NoUser <=> T[u] = NoUser
                                       /\ T[u] # NoUser => T[u].disabled = StoredUsers(d)[u].disabled
  BY LoadedStatus DEF RequestOK
<1>2. \A T \in {E, L}, u \in User : T[u] # NoUser => T[u] \in UserRecord
  BY <1>1 DEF UserTable
<1>3. SUFFICES \E T \in {E, L} :
        \A u \in User : T[u] # NoUser /\ T[u].disabled /\ U[u] # NoUser => U[u].disabled
  BY <1>1, EditKeepsDisabled
<1> HIDE DEF E, L
<1>4. CASE r.action = "create_user"
  <2>1. E[r.user] = NoUser
    BY <1>1, <1>4 DEF RecordAccepted, L
  <2>2. \A u \in User : u # r.user => U[u] = E[u]
    BY <1>1, <1>4 DEF UsersAfter, UserTable, E
  <2> QED
    BY <2>1, <2>2
<1>5. CASE r.action \in {"disable_user", "delete_user"}
  <2>1. \A u \in User : u # r.user => U[u] = E[u]
    BY <1>1, <1>5 DEF UsersAfter, UserTable, E
  <2>2. E[r.user] # NoUser => U[r.user] = NoUser \/ U[r.user].disabled
    BY <1>1, <1>2, <1>5 DEF UsersAfter, UserTable, UserRecord, E
  <2> QED
    BY <2>1, <2>2
<1>6. CASE r.action \in {"assign_group", "update_user_ip"}
  <2> DEFINE edited == IF r.action = "assign_group" THEN [L EXCEPT ![r.user].group = r.group]
                       ELSE [L EXCEPT ![r.user].ip = r.ip]
  <2>1. L[r.user] # NoUser
    BY <1>6 DEF RecordAccepted, L
  <2>2. U = SavedUsers(edited)
    BY <1>6 DEF UsersAfter, L
  <2>3. \A u \in User : L[u] # NoUser =>
          edited[u] \in UserRecord /\ edited[u].disabled = L[u].disabled
    <3>1. \A u \in User : u # r.user => edited[u] = L[u]
      BY <1>1 DEF UserTable
    <3>2. edited[r.user] \in UserRecord /\ edited[r.user].disabled = L[r.user].disabled
      BY <1>1, <1>2, <1>6, <2>1 DEF UserTable, UserRecord, RequestOK
    <3> QED
      BY <1>2, <3>1, <3>2
  <2>4. \A u \in User : L[u] # NoUser /\ U[u] # NoUser => U[u].disabled = edited[u].disabled
    <3> HIDE DEF edited
    <3> QED
      BY <2>2, <2>3 DEF SavedUsers, UserRecord
  <2> QED
    BY <2>3, <2>4
<1> QED
  BY <1>4, <1>5, <1>6 DEF ManagedAction

LEMMA WriteKeepsDisabled ==
  ASSUME ProgressInv, NEW p \in Proc, pc[p] = "users", UsersWritable(p),
         disk' \in {disk, UsersWritten(p)}
  PROVE  KeepsDisabled(disk, disk')
<1>0. TypeOK /\ loaded[p] = Loaded(disk) /\ RecordAccepted(disk, loaded[p], req[p])
  <2>1. TypeOK /\ Progress(p)
    BY DEF ProgressInv, ScopeInv, InPipeline
  <2> QED
    BY <2>1 DEF Progress, Taken, Records, AtUsers
<1>1. /\ Disk(disk) /\ LoadedFor(loaded[p], req[p]) /\ RequestOK(req[p])
      /\ req[p].action \in ManagedAction
  <2>1. Disk(disk)
    BY <1>0 DEF TypeOK
  <2> QED
    BY <1>0, <2>1, AtWrite
<1>2. UsersAfter(disk, loaded[p], req[p]) \in UserTable
  BY <1>0, <1>1, UsersAfterTyped DEF UsersWritable, UserLines
<1>3. CASE disk'[UsersFile] = disk[UsersFile]
  BY <1>3, SameUsersFile
<1>4. CASE disk'[UsersFile] = UsersAfter(disk, loaded[p], req[p])
  BY <1>0, <1>1, <1>2, <1>4, AfterKeepsDisabled
<1> QED
  BY <1>1, <1>3, <1>4, ContentOf DEF UsersWritten, Disk

LEMMA DisableKeepsDisabled ==
  ASSUME ProgressInv, NEW p \in Proc, DisableNext(p)
  PROVE  KeepsDisabled(disk, disk')
<1> DEFINE E == EditedUsers(disk, Loaded(disk))
<1>1. Disk(disk) /\ loaded[p] \subseteq User
  <2>1. Disk(disk) /\ ServingOK(p)
    BY DEF ProgressInv, ScopeInv, TypeOK
  <2> QED
    BY <2>1 DEF ServingOK, DisableNext
<1>2. PICK u \in loaded[p] : E[u] # NoUser /\ disk' = [disk EXCEPT ![UsersFile] = [E EXCEPT ![u].disabled = TRUE]]
  BY DEF DisableNext
<1>3. /\ E \in UserTable
      /\ \A v \in User : /\ StoredUsers(disk)[v] = NoUser <=> E[v] = NoUser
                         /\ E[v] # NoUser => E[v].disabled = StoredUsers(disk)[v].disabled
  BY <1>1, LoadedStatus
<1> DEFINE U == [E EXCEPT ![u].disabled = TRUE]
<1>4. U \in UserTable
  <2>1. E \in UserLines
    BY <1>1, LoadedTyped, EditedTyped
  <2> QED
    BY <1>1, <1>2, <2>1, DisabledTyped DEF UserLines
<1>5. \A v \in User : E[v] # NoUser /\ E[v].disabled /\ U[v] # NoUser => U[v].disabled
  <2>1. E[u] \in UserRecord /\ u \in User
    BY <1>1, <1>2, <1>3 DEF UserTable
  <2> QED
    BY <1>3, <2>1 DEF UserTable, UserRecord
<1>6. disk'[UsersFile] = U
  BY <1>1, <1>2, ContentOf DEF Disk
<1> HIDE DEF E, U
<1> QED
  BY <1>1, <1>3, <1>4, <1>5, <1>6, EditKeepsDisabled

LEMMA StepKeepsDisabled ==
  ASSUME ProgressInv, [Next]_vars
  PROVE  \/ KeepsDisabled(disk, disk')
         \/ \E p \in Proc : RestoreSnapshots(p) \/ \E r \in Requests : RestoreLastChange(p, r)
<1>0. Disk(disk)
  BY DEF ProgressInv, ScopeInv, TypeOK
<1>1. CASE UNCHANGED vars
  BY <1>1, SameUsersFile DEF vars
<1>2. ASSUME NEW p \in Proc, NEW r \in Requests,
             BeginManaged(p, r) \/ BeginCreateGroup(p, r) \/ BeginDeleteGroup(p, r) \/ BeginDisableGroup(p, r)
      PROVE  KeepsDisabled(disk, disk')
  <2>1. disk' = disk \/ \E groups : disk' = [disk EXCEPT ![GroupsFile] = groups]
    BY <1>2 DEF BeginManaged, BeginCreateGroup, BeginDeleteGroup, BeginDisableGroup
  <2>2. disk'[UsersFile] = disk[UsersFile]
    BY <1>0, <2>1, FilesDistinct, ContentOf DEF Disk
  <2> QED
    BY <2>2, SameUsersFile
<1>3. ASSUME NEW p \in Proc, Crash(p) \/ UsersCommandFails(p) \/ LoadRecords(p) \/ ActivateOk(p)
             \/ ActivateFails(p) \/ Verify(p) \/ StoreRollbackState(p) \/ DisableStops(p)
             \/ ReactivateOk(p) \/ ReactivateFails(p)
      PROVE  KeepsDisabled(disk, disk')
  BY <1>3, SameUsersFile DEF Crash, UsersCommandFails, LoadRecords, ActivateOk, ActivateFails,
     Verify, StoreRollbackState, DisableStops, ReactivateOk, ReactivateFails
<1>4. ASSUME NEW p \in Proc, WriteMap(p) \/ WriteUserConfig(p) \/ SyncTemplates(p)
             \/ WriteGroupTemplate(p) \/ UnlinkGroupFiles(p)
      PROVE  KeepsDisabled(disk, disk')
  <2>1. disk'[UsersFile] = disk[UsersFile]
    BY <1>0, <1>4, ContentOf DEF WriteMap, WriteUserConfig, SyncTemplates, Synced, RenderedFiles,
       WriteGroupTemplate, UnlinkGroupFiles, Disk, UsersFile, UserGroupMapFile, UserConfig,
       GroupTemplate, GroupConfig, MainTemplate, MainConfig
  <2> QED
    BY <2>1, SameUsersFile
<1>5. ASSUME NEW p \in Proc, WriteUsers(p) \/ CreateTimesOut(p) PROVE KeepsDisabled(disk, disk')
  <2>1. pc[p] = "users" /\ UsersWritable(p) /\ disk' \in {disk, UsersWritten(p)}
    BY <1>5 DEF WriteUsers, CreateTimesOut, UsersWritable
  <2> QED
    BY <2>1, WriteKeepsDisabled
<1> QED
  BY <1>1, <1>2, <1>3, <1>4, <1>5, DisableKeepsDisabled DEF Next, Begin, Continue, Wait

\* While requests do not overlap, whatever failures, timeouts and crashes come, only a
\* rollback or the restoring of a failed mutation enables a user who was disabled.
THEOREM DisabledStay == Spec /\ []Serial => DisabledStaysDisabled
<1>1. Init => ProgressInv
  BY InitProgress
<1>2. ProgressInv /\ Serial /\ Serial' /\ [Next]_vars =>
        \A u \in User :
          /\ LoadUser(disk, u) # NoUser /\ LoadUser(disk, u).disabled
          /\ LoadUser(disk, u)' # NoUser /\ ~LoadUser(disk, u)'.disabled
          => \E p \in Proc : \/ RestoreSnapshots(p)
                             \/ \E r \in Requests : RestoreLastChange(p, r)
  <2> SUFFICES ASSUME ProgressInv, Serial, Serial', [Next]_vars, KeepsDisabled(disk, disk'), NEW u \in User,
                      LoadUser(disk, u) # NoUser, LoadUser(disk, u).disabled,
                      LoadUser(disk', u) # NoUser
               PROVE  LoadUser(disk', u).disabled
    BY StepKeepsDisabled
  <2>1. Disk(disk) /\ Disk(disk')
    BY NextProgress DEF ProgressInv, ScopeInv, TypeOK
  <2> QED
    BY <2>1, LoadUserFields DEF KeepsDisabled
<1> QED
  BY <1>1, <1>2, NextProgress, PTL DEF Spec, DisabledStaysDisabled

-----------------------------------------------------------------------------
(***************************************************************************)
(* The tables of accounts and of groups.  What is committed is the disk a  *)
(* request that fails now goes back to; every step leaves it alone or is   *)
(* one operation on the tables it holds.                                   *)
(***************************************************************************)
LEMMA CommittedIdle ==
  ASSUME NEW found, NEW d
  PROVE  CommittedDisk({}, found, d) = d
BY DEF CommittedDisk

LEMMA CommittedAtWork ==
  ASSUME NEW found, NEW d, NEW p
  PROVE  CommittedDisk({p}, found, d) = found[p].disk
<1>1. (CHOOSE q \in {p} : TRUE) = p
  OBVIOUS
<1> QED
  BY <1>1 DEF CommittedDisk

LEMMA CommittedBase ==
  ASSUME NEW p \in Proc, Alone(p)
  PROVE  Committed = Base(p)
<1>1. CASE pc[p] \in {"idle", "reactivate"}
  <2>1. AtWork = {}
    BY <1>1 DEF AtWork, Alone
  <2> QED
    BY <1>1, <2>1, CommittedIdle DEF Committed, Base
<1>2. CASE pc[p] \notin {"idle", "reactivate"}
  <2>1. AtWork = {p}
    BY <1>2 DEF AtWork, Alone
  <2> QED
    BY <1>2, <2>1, CommittedAtWork DEF Committed, Base
<1> QED
  BY <1>1, <1>2

LEMMA CommittedNext ==
  ASSUME NEW p \in Proc, Alone(p)'
  PROVE  Committed' = Base(p)'
<1>1. CASE pc'[p] \in {"idle", "reactivate"}
  <2>1. AtWork' = {}
    BY <1>1 DEF AtWork, Alone
  <2>2. Committed' = CommittedDisk({}, before', disk')
    BY <2>1 DEF Committed
  <2> QED
    BY <1>1, <2>2, CommittedIdle DEF Base
<1>2. CASE pc'[p] \notin {"idle", "reactivate"}
  <2>1. AtWork' = {p}
    BY <1>2 DEF AtWork, Alone
  <2>2. Committed' = CommittedDisk({p}, before', disk')
    BY <2>1 DEF Committed
  <2> QED
    BY <1>2, <2>2, CommittedAtWork DEF Base
<1> QED
  BY <1>1, <1>2

\* What rollback_last_change would give back.
Undo == IF undoFile # Absent /\ lastChange.recorded THEN TableOf(lastChange.before) ELSE NoChange

LEMMA TableTyped ==
  ASSUME NEW d, Disk(d)
  PROVE  /\ LoadUsers(d) \in UserTable /\ AllowedGroups(d) \subseteq Group
         /\ Pools(d) \in [AllowedGroups(d) -> SUBSET Ip]
         /\ TableOf(d) # NoChange
<1>1. LoadUsers(d) \in UserTable /\ AllowedGroups(d) \subseteq Group /\ \A g \in Group : GroupPool(d, g) \subseteq Ip
  BY LoadedTyped, GroupsTyped DEF Loaded
<1>2. Pools(d) \in [AllowedGroups(d) -> SUBSET Ip]
  BY <1>1 DEF Pools
<1>3. [AllowedGroups(d) -> SUBSET Ip] \in {[known -> SUBSET Ip] : known \in SUBSET Group}
  BY <1>1
<1>4. Pools(d) \in UNION {[known -> SUBSET Ip] : known \in SUBSET Group}
  BY <1>2, <1>3
<1>5. TableOf(d) \in [accounts : UserTable, pools : UNION {[known -> SUBSET Ip] : known \in SUBSET Group}]
  BY <1>1, <1>4 DEF TableOf
<1> QED
  BY <1>1, <1>2, <1>5, UndoAssumption

LEMMA SamePools ==
  ASSUME NEW d, Disk(d), NEW e, AllowedGroups(e) = AllowedGroups(d),
         \A g \in Group : GroupPool(e, g) = GroupPool(d, g)
  PROVE  Pools(e) = Pools(d)
  BY TableTyped DEF Pools

\* A step that neither commits nor changes what can be given back.
LEMMA ShowsNothing ==
  ASSUME Committed' = Committed, UNCHANGED <<undoFile, lastChange>>
  PROVE  UNCHANGED Table!vars
  BY DEF Table!vars

\* A recorded mutation is one operation on the table of accounts.
LEMMA AccountChanges ==
  ASSUME NEW d, Disk(d), NEW r, r.user \in User, Committed = d,
         TableChanges(d, LoadUsers(d), r, LoadUsers(Committed')),
         Pools(Committed') = Pools(d), Undo' = TableOf(d)
  PROVE  Table!ChangeAccount
<1> DEFINE T == LoadUsers(d)  N == LoadUsers(Committed')  u == r.user  P == Pools(d)
<1>1. LoadUsers(Committed) = T /\ Pools(Committed) = P
  OBVIOUS
<1>2. LoadUsers(Committed)' = N /\ Pools(Committed)' = P
  OBVIOUS
<1>3. DOMAIN P = AllowedGroups(d) /\ \A g \in AllowedGroups(d) : P[g] = GroupPool(d, g)
  BY DEF Pools
<1>4. TableChanges(d, T, r, N) /\ u \in User /\ Undo' = [accounts |-> T, pools |-> P]
  BY DEF TableOf
<1> HIDE DEF T, N, P, u
<1>5. ASSUME NEW g, NEW ip, MayPin(d, T, u, g, ip) PROVE Table!MayHold(u, g, ip)
  BY <1>1, <1>3, <1>5 DEF MayPin, Table!MayHold, Table!Owner, Table!Exists
<1>6. \/ \E g \in AllowedGroups(d) \cup {NoGroup}, ip \in Ip \cup {NoIp} : Table!Create(u, g, ip)
      \/ \E g \in AllowedGroups(d) : Table!Assign(u, g)
      \/ \E ip \in Ip : Table!PinAddress(u, ip)
      \/ Table!Disable(u)
      \/ Table!Delete(u)
  <2>1. CASE /\ T[u] = NoUser /\ r.group \in AllowedGroups(d) \cup {NoGroup} /\ r.ip \in Ip \cup {NoIp}
             /\ MayPin(d, T, u, r.group, r.ip)
             /\ N = [T EXCEPT ![u] = [group |-> r.group, disabled |-> FALSE, ip |-> r.ip]]
    <3>1. Table!Create(u, r.group, r.ip)
      BY <1>1, <1>2, <1>5, <2>1 DEF Table!Create, Table!Exists
    <3> QED
      BY <2>1, <3>1
  <2>2. CASE /\ T[u] # NoUser /\ r.group \in AllowedGroups(d)
             /\ MayPin(d, T, u, r.group, T[u].ip)
             /\ N = [T EXCEPT ![u] = [T[u] EXCEPT !.group = r.group]]
    <3>1. Table!Assign(u, r.group)
      BY <1>1, <1>2, <1>5, <2>2 DEF Table!Assign, Table!Exists
    <3> QED
      BY <2>2, <3>1
  <2>3. CASE /\ T[u] # NoUser /\ r.ip \in Ip
             /\ MayPin(d, T, u, T[u].group, r.ip)
             /\ N = [T EXCEPT ![u] = [T[u] EXCEPT !.ip = r.ip]]
    <3>1. Table!PinAddress(u, r.ip)
      BY <1>1, <1>2, <1>5, <2>3 DEF Table!PinAddress, Table!Exists
    <3> QED
      BY <2>3, <3>1
  <2>4. CASE T[u] # NoUser /\ N = [T EXCEPT ![u] = [T[u] EXCEPT !.disabled = TRUE]]
    BY <1>1, <1>2, <2>4 DEF Table!Disable, Table!Exists
  <2>5. CASE T[u] # NoUser /\ N = [T EXCEPT ![u] = NoUser]
    BY <1>1, <1>2, <2>5 DEF Table!Delete, Table!Exists
  <2> QED
    BY <1>4, <2>1, <2>2, <2>3, <2>4, <2>5 DEF TableChanges, u
<1> QED
  BY <1>1, <1>2, <1>3, <1>4, <1>6 DEF Table!ChangeAccount, Table!table, Undo

\* A group operation is one operation on the table of groups or on the members of one.
LEMMA GroupAdds ==
  ASSUME NEW d, Disk(d), NEW g \in Group \ AllowedGroups(d), Committed = d, Undo' = NoChange,
         LoadUsers(Committed') = LoadUsers(d), AllowedGroups(Committed') = AllowedGroups(d) \cup {g},
         \A h \in Group \ {g} : GroupPool(Committed', h) = GroupPool(d, h),
         GroupPool(Committed', g) \subseteq Ip
  PROVE  Table!ChangeGroup
<1> DEFINE addresses == GroupPool(Committed', g)
<1>1. AllowedGroups(d) \subseteq Group
  BY TableTyped
<1>2. Pools(Committed') =
        [h \in DOMAIN Pools(d) \cup {g} |-> IF h = g THEN addresses ELSE Pools(d)[h]]
  BY <1>1 DEF Pools
<1>3. g \notin DOMAIN Pools(d) /\ addresses \in SUBSET Ip
  BY DEF Pools
<1> HIDE DEF addresses
<1>4. Table!AddGroup(g, addresses)
  BY <1>2, <1>3 DEF Table!AddGroup
<1> QED
  BY <1>3, <1>4 DEF Table!ChangeGroup, Undo

LEMMA GroupGoes ==
  ASSUME NEW d, Disk(d), Sound(d), NEW g \in AllowedGroups(d) \ ProtectedGroup,
         \A u \in User : LoadGroupMap(d)[u] # g, Committed = d, Undo' = NoChange,
         LoadUsers(Committed') = LoadUsers(d), AllowedGroups(Committed') = AllowedGroups(d) \ {g},
         \A h \in Group \ {g} : GroupPool(Committed', h) = GroupPool(d, h)
  PROVE  Table!ChangeGroup
<1>1. AllowedGroups(d) \subseteq Group
  BY TableTyped
<1>2. Pools(Committed') = [h \in DOMAIN Pools(d) \ {g} |-> Pools(d)[h]] /\ g \in DOMAIN Pools(d)
  BY <1>1 DEF Pools
<1>3. \A u \in User : LoadUsers(d)[u] # NoUser => LoadUsers(d)[u].group # g
  BY SoundReads DEF GroupIn
<1>4. Table!RemoveGroup(g)
  BY <1>2, <1>3 DEF Table!RemoveGroup, Table!Members, Table!Exists
<1> QED
  BY <1>2, <1>4 DEF Table!ChangeGroup, Undo

LEMMA MembersDisabled ==
  ASSUME NEW p, Disk(before[p].disk), Committed = before[p].disk, Undo' = NoChange,
         Disabling(p, Committed')
  PROVE  Table!ChangeGroup
<1> DEFINE d == before[p].disk  g == req[p].group
<1>1. /\ g \in AllowedGroups(d) /\ AllowedGroups(Committed') = AllowedGroups(d)
      /\ \A h \in Group : GroupPool(Committed', h) = GroupPool(d, h)
  BY DEF Disabling
<1>2. PICK S \in SUBSET MembersOf(d, g) : LoadUsers(Committed') = DisabledTable(LoadUsers(d), S)
  BY DEF Disabling
<1>3. Pools(Committed') = Pools(d) /\ g \in DOMAIN Pools(d)
  BY <1>1, SamePools DEF Pools
<1>4. Committed = d
  OBVIOUS
<1> HIDE DEF d, g
<1>5. Table!DisableMembers(S) /\ S \in SUBSET Table!Members(g)
  BY <1>2, <1>3, <1>4 DEF Table!DisableMembers, Table!Members, Table!Exists, MembersOf, DisabledTable
<1> QED
  BY <1>3, <1>4, <1>5 DEF Table!ChangeGroup, Undo

\* What a step of one request shows.
LEMMA StepShows ==
  ASSUME NEW p \in Proc, Scoped(p), Undisturbed(p), Alone(p), Alone(p)',
         Begin(p) \/ Continue(p) \/ Crash(p), intact'
  PROVE  Table!Next \/ UNCHANGED Table!vars
<1> DEFINE b == before[p].disk
<1>1. TypeOK /\ Committed = Base(p) /\ Committed' = Base(p)'
  BY CommittedBase, CommittedNext DEF Scoped
<1>2. ASSUME Base(p)' = Base(p), UNCHANGED <<undoFile, lastChange>> PROVE UNCHANGED Table!vars
  BY <1>1, <1>2, ShowsNothing
<1>3. ASSUME End(p) PROVE Base(p)' = disk'
  <2>1. pc'[p] = "idle"
    BY <1>1, <1>3 DEF TypeOK, End, Goto
  <2> QED
    BY <2>1 DEF Base
<1>4. ASSUME pc[p] \notin {"idle", "reactivate"} PROVE Base(p) = b /\ Disk(b) /\ Sound(b)
  BY <1>1, <1>4 DEF Base, TypeOK, ServingOK, Undisturbed, Good
<1>5. ASSUME NoteUnrecorded(p), UNCHANGED undoFile, disk' # b PROVE Undo' = NoChange
  BY <1>5 DEF NoteUnrecorded, Undo
<1>6. ASSUME NoteUnrecorded(p), UNCHANGED undoFile, disk' = b PROVE UNCHANGED <<undoFile, lastChange>>
  BY <1>6 DEF NoteUnrecorded
<1>7. ASSUME Begin(p) PROVE Table!Next \/ UNCHANGED Table!vars
  <2>1. PICK r \in Requests : \/ BeginManaged(p, r) \/ BeginCreateGroup(p, r) \/ BeginDeleteGroup(p, r)
                              \/ BeginDisableGroup(p, r) \/ RestoreLastChange(p, r)
    BY <1>7 DEF Begin
  <2>2. CASE RestoreLastChange(p, r)
    <3>1. /\ Base(p)' = lastChange.before /\ undoFile # Absent /\ lastChange.recorded
          /\ UNCHANGED <<undoFile, lastChange>>
      BY <1>1, <2>2, RollbackUndisturbed
    <3>2. lastChange.before = Committed' /\ Undo = TableOf(Committed')
      BY <1>1, <3>1 DEF Undo
    <3>3. Undo # NoChange
      <4>1. Disk(disk') /\ disk' = lastChange.before
        BY <1>1, <2>2, RollbackUndisturbed, NextTyped DEF TypeOK, Next, Begin, vars
      <4> QED
        BY <3>1, <4>1, TableTyped DEF Undo
    <3>4. Undo' = Undo
      BY <3>1 DEF Undo
    <3>5. Table!Rollback
      BY <3>2, <3>3, <3>4 DEF Table!Rollback, Undo, TableOf
    <3> QED
      BY <3>5 DEF Table!Next
  <2>3. CASE ~RestoreLastChange(p, r)
    BY <1>1, <1>2, <2>1, <2>3, StartUndisturbed
  <2> QED
    BY <2>2, <2>3
<1>8. ASSUME \/ SyncTemplates(p) \/ LoadRecords(p) \/ WriteUsers(p) \/ UsersCommandFails(p)
             \/ WriteMap(p) \/ WriteUserConfig(p) \/ ActivateOk(p) \/ ActivateFails(p) \/ Verify(p)
      PROVE  UNCHANGED Table!vars
  BY <1>2, <1>8, PipelineUndisturbed
<1>9. ASSUME StoreRollbackState(p) PROVE Table!Next
  <2>1. /\ Base(p) = b /\ End(p) /\ InPipeline(p) /\ pc[p] = "store"
        /\ disk' = Changed(b, req[p]) /\ Ready(b, req[p])
        /\ undoFile' = [snapshots |-> snap[p], changed |-> ChangedFiles(disk, snap[p])]
        /\ lastChange'.before = b /\ lastChange'.recorded
    BY <1>9, StoreUndisturbed DEF StoreRollbackState, Base, InPipeline
  <2>2. Committed = b /\ Committed' = Changed(b, req[p])
    BY <1>1, <1>3, <2>1
  <2>3. req[p].action \in {"create_user", "assign_group"} => req[p].group \in AllowedGroups(b) \cup {NoGroup}
    BY <2>1 DEF Undisturbed, RequestDone
  <2>4. /\ req[p].user \in User
        /\ TableChanges(b, LoadUsers(b), req[p], LoadUsers(Changed(b, req[p])))
    BY <2>1, <2>3, ChangedTable
  <2>5. Disk(b) /\ Pools(Changed(b, req[p])) = Pools(b)
    BY <2>1, <2>3, ChangedPools, SamePools DEF Ready
  <2>6. undoFile' # Absent
    <3>1. PartialDisk(snap[p])
      BY <1>1 DEF TypeOK
    <3>2. snap[p] \in [DOMAIN snap[p] -> UNION {Content(f) : f \in File}] /\ DOMAIN snap[p] \in SUBSET File
      BY <3>1 DEF PartialDisk
    <3>3. snap[p] \in UNION {[files -> UNION {Content(f) : f \in File}] : files \in SUBSET File}
      BY <3>2
    <3>4. ChangedFiles(disk, snap[p]) \in SUBSET File
      BY <3>2 DEF ChangedFiles
    <3> QED
      BY <2>1, <3>3, <3>4, UndoAssumption
  <2>7. Undo' = TableOf(b)
    BY <2>1, <2>6 DEF Undo
  <2> HIDE DEF b
  <2>8. Table!ChangeAccount
    BY <2>2, <2>4, <2>5, <2>7, AccountChanges
  <2> QED
    BY <2>8 DEF Table!Next
<1>10. ASSUME RestoreSnapshots(p) PROVE UNCHANGED Table!vars
  <2>1. Base(p) = b /\ End(p) /\ disk' = b /\ UNCHANGED <<undoFile, lastChange>>
    BY <1>10, RestoreUndisturbed DEF RestoreSnapshots, Base
  <2> QED
    BY <1>2, <1>3, <2>1
<1>11. ASSUME WriteGroupTemplate(p) \/ UnlinkGroupFiles(p) PROVE Table!Next \/ UNCHANGED Table!vars
  <2>1. /\ Base(p) = b /\ Disk(b) /\ Sound(b) /\ Base(p)' = disk'
        /\ NoteUnrecorded(p) /\ UNCHANGED undoFile
    BY <1>3, <1>4, <1>11 DEF WriteGroupTemplate, UnlinkGroupFiles
  <2>2. CASE disk' = b
    BY <1>2, <1>6, <2>1, <2>2
  <2>3. CASE disk' # b
    <3>1. Undo' = NoChange /\ Committed = b /\ Committed' = disk'
      BY <1>1, <1>5, <2>1, <2>3
    <3>2. Table!ChangeGroup
      <4>1. CASE WriteGroupTemplate(p)
        BY <1>1, <2>1, <3>1, <4>1, TemplateWritten, GroupAdds
      <4>2. CASE UnlinkGroupFiles(p)
        BY <1>1, <2>1, <3>1, <4>2, GroupUnlinked, GroupGoes
      <4> QED
        BY <1>11, <4>1, <4>2
    <3> QED
      BY <3>2 DEF Table!Next
  <2> QED
    BY <2>2, <2>3
<1>12. ASSUME DisableNext(p) \/ DisableStops(p) PROVE Table!Next \/ UNCHANGED Table!vars
  <2>1. /\ UNCHANGED undoFile
        /\ \/ Base(p)' = Base(p) /\ UNCHANGED lastChange
           \/ Base(p) = b /\ Base(p)' = disk' /\ NoteUnrecorded(p) /\ Disabling(p, disk')
    BY <1>1, <1>12, DisableUndisturbed
  <2>2. CASE Base(p)' = Base(p) /\ UNCHANGED lastChange
    BY <1>2, <2>1, <2>2
  <2>3. CASE Base(p) = b /\ Base(p)' = disk' /\ NoteUnrecorded(p) /\ Disabling(p, disk') /\ disk' = b
    BY <1>2, <1>6, <2>1, <2>3
  <2>4. CASE Base(p) = b /\ Base(p)' = disk' /\ NoteUnrecorded(p) /\ Disabling(p, disk') /\ disk' # b
    <3>1. Disk(b) /\ Undo' = NoChange /\ Committed = b /\ Disabling(p, Committed')
      BY <1>1, <1>4, <1>5, <1>12, <2>1, <2>4 DEF DisableNext, DisableStops
    <3>2. Table!ChangeGroup
      BY <3>1, MembersDisabled
    <3> QED
      BY <3>2 DEF Table!Next
  <2> QED
    BY <2>1, <2>2, <2>3, <2>4
<1>13. ASSUME ReactivateOk(p) \/ ReactivateFails(p) PROVE Table!Next \/ UNCHANGED Table!vars
  <2>1. /\ disk' = disk /\ Base(p) = disk /\ Base(p)' = disk'
        /\ undoFile # Absent /\ lastChange.recorded /\ disk = lastChange.before
    BY <1>1, <1>3, <1>13, ReactivateUndisturbed DEF ReactivateOk, ReactivateFails
  <2>2. CASE ReactivateFails(p)
    BY <1>2, <2>1, <2>2 DEF ReactivateFails
  <2>3. CASE ReactivateOk(p)
    <3>1. Undo = TableOf(Committed) /\ Undo' = NoChange /\ Committed' = Committed
      BY <1>1, <2>1, <2>3 DEF ReactivateOk, Undo
    <3>2. Table!RollbackEnds
      BY <3>1 DEF Table!RollbackEnds, Table!table, Undo, TableOf
    <3> QED
      BY <3>2 DEF Table!Next
  <2> QED
    BY <1>13, <2>2, <2>3
<1>14. ASSUME Crash(p) PROVE UNCHANGED Table!vars
  <2>1. disk' = Base(p) /\ End(p) /\ UNCHANGED <<undoFile, lastChange>>
    BY <1>1, <1>14, CrashUndisturbed DEF Crash
  <2> QED
    BY <1>2, <1>3, <2>1
<1>15. ~CreateTimesOut(p)
  BY DEF CreateTimesOut
<1> QED
  BY <1>7, <1>8, <1>9, <1>10, <1>11, <1>12, <1>13, <1>14, <1>15 DEF Continue

LEMMA AtOnce ==
  ASSUME SoundInv, Serial, Serial', [Next]_vars, intact'
  PROVE  [Table!Next]_(Table!vars)
<1>1. TypeOK /\ intact
  BY IntactBefore DEF SoundInv, ProgressInv, ScopeInv
<1>2. CASE UNCHANGED vars
  <2>1. Committed' = CommittedDisk(AtWork', before', disk') /\ AtWork' = AtWork
    BY <1>2 DEF Committed, AtWork, vars, private
  <2>2. Committed' = Committed
    BY <1>2, <2>1 DEF Committed, vars, private
  <2> QED
    BY <1>2, <2>2, ShowsNothing DEF vars
<1>3. ASSUME NEW p \in Proc, Begin(p) \/ Continue(p) \/ Crash(p)
      PROVE  Table!Next \/ UNCHANGED Table!vars
  <2>1. Alone(p) /\ Alone(p)'
    BY <1>1, <1>3, StepAlone
  <2>2. Undisturbed(p) /\ Scoped(p)
    BY <1>1, <2>1 DEF SoundInv, ProgressInv, ScopeInv, Scoped
  <2> QED
    BY <1>3, <2>1, <2>2, StepShows
<1> QED
  BY <1>2, <1>3 DEF Next, Wait

\* While nothing interrupts the backend every step of a request, an account, a group or a
\* rollback one, is one operation on the tables or shows nothing.
THEOREM OneOperationAtATime == SoundStart /\ Spec /\ []Serial => OperationsAtOnce
<1>1. SoundInv /\ Serial /\ Serial' /\ [Next]_vars => (intact' => [Table!Next]_(Table!vars))
  BY AtOnce
<1> QED
  BY <1>1, InitSound, NextSound, PTL DEF Spec, OperationsAtOnce

AccountsStart == SoundStart /\ OwnStart

LEMMA InitTable ==
  ASSUME AccountsStart, Init
  PROVE  Table!Init
<1> DEFINE T == LoadUsers(disk)  P == Pools(disk)
<1>1. AtWork = {} /\ undoFile = Absent /\ Disk(disk) /\ Sound(disk) /\ OwnAddresses(disk)
  BY InitTyped DEF Init, AtWork, AccountsStart, SoundStart, OwnStart, TypeOK
<1>2. Committed = disk
  BY <1>1 DEF Committed, CommittedDisk
<1>3. T \in UserTable /\ AllowedGroups(disk) \subseteq Group /\ P \in [AllowedGroups(disk) -> SUBSET Ip]
  BY <1>1, TableTyped
<1>4. ASSUME NEW u \in User, T[u] # NoUser
      PROVE  /\ T[u].group \in AllowedGroups(disk) \cup {NoGroup}
             /\ T[u].ip # NoIp => /\ {v \in User : T[v] # NoUser /\ T[v].ip = T[u].ip} \subseteq {u}
                                  /\ T[u].group # NoGroup /\ T[u].ip \in P[T[u].group]
  <2>1. /\ T[u].group \in AllowedGroups(disk) \cup {NoGroup}
        /\ T[u].ip # NoIp => T[u].group # NoGroup /\ T[u].ip \in GroupPool(disk, T[u].group)
    BY <1>1, <1>4 DEF Sound, Placed, GroupIn, IpIn
  <2>2. ASSUME T[u].ip # NoIp, NEW v \in User, T[v] # NoUser, T[v].ip = T[u].ip PROVE v = u
    BY <1>1, <1>4, <2>2 DEF OwnAddresses, IpIn
  <2>3. \A g \in AllowedGroups(disk) : P[g] = GroupPool(disk, g)
    BY DEF Pools
  <2> HIDE DEF T, P
  <2> QED
    BY <2>1, <2>2, <2>3
<1>5. T \in [User -> [group : Group \cup {NoGroup}, disabled : BOOLEAN, ip : Ip \cup {NoIp}] \cup {NoUser}]
  BY <1>3 DEF UserTable, UserRecord
<1>6. P \in UNION {[known -> SUBSET Ip] : known \in SUBSET Group} /\ DOMAIN P = AllowedGroups(disk)
  BY <1>3
<1>7. LoadUsers(Committed) = T /\ Pools(Committed) = P
  BY <1>2
<1> HIDE DEF T, P
<1> QED
  BY <1>1, <1>4, <1>5, <1>6, <1>7 DEF Table!Init, Table!Exists, Table!MayHold, Table!Owner

\* To an outside observer a backend that nothing interrupts is a table of accounts and one
\* of groups, on which every request happens at once or not at all.
THEOREM Atomicity == AccountsStart /\ Spec /\ []Serial /\ []intact => ImplementsAccounts
<1>1. AccountsStart /\ Init => Table!Init /\ SoundInv
  BY InitTable, InitSound DEF AccountsStart
<1>2. SoundInv /\ Serial /\ Serial' /\ intact' /\ [Next]_vars => [Table!Next]_(Table!vars)
  BY AtOnce
<1> QED
  BY <1>1, <1>2, NextSound, PTL DEF Spec, ImplementsAccounts, Table!Spec

\* Any number of processes that serve account requests, none of which dies or is given up
\* on: nothing else can interrupt them.
Undying == AccountRequests /\ ~AllowCrash /\ ~AllowTimeout

THEOREM AtomicAccounts == AccountsStart /\ Undying /\ Spec => ImplementsAccounts
<1>1. Undying /\ Init => Undying /\ intact
  BY DEF Init
<1>2. Undying /\ intact /\ [Next]_vars => Undying' /\ intact'
  <2> SUFFICES ASSUME Undying, intact, [Next]_vars PROVE intact'
    BY DEF Undying, AccountRequests
  <2>1. ASSUME NEW p \in Proc, NEW r \in Requests PROVE ~RestoreLastChange(p, r)
    BY DEF Undying, AccountRequests, ManagedAction, RestoreLastChange
  <2>2. ASSUME NEW p \in Proc PROVE ~CreateTimesOut(p) /\ ~Crash(p)
    BY DEF Undying, CreateTimesOut, Crash
  <2>3. ASSUME NEW p \in Proc, Begin(p) PROVE intact'
    BY <2>1, <2>3 DEF Begin, BeginManaged, BeginCreateGroup, BeginDeleteGroup, BeginDisableGroup
  <2>4. ASSUME NEW p \in Proc, Continue(p) PROVE intact'
    BY <2>2, <2>4 DEF Continue, SyncTemplates, LoadRecords, WriteUsers, UsersCommandFails,
       WriteMap, WriteUserConfig, ActivateOk, ActivateFails, Verify, StoreRollbackState,
       RestoreSnapshots, WriteGroupTemplate, UnlinkGroupFiles, DisableNext, DisableStops,
       ReactivateOk, ReactivateFails
  <2> QED
    BY <2>2, <2>3, <2>4 DEF Next, Wait, vars
<1>3. Undying => AccountRequests
  BY DEF Undying
<1> QED
  BY <1>1, <1>2, <1>3, AccountsAreSerial, Atomicity, PTL DEF Spec
-----------------------------------------------------------------------------
(***************************************************************************)
(* Requests end.  Every step of a request leaves it fewer steps than it    *)
(* had, nothing another process does adds to them, and there is always a   *)
(* next one.  Requests may overlap here.                                   *)
(***************************************************************************)
Ahead(label, members) ==
  CASE label = "sync" -> 8
    [] label = "load" -> 7
    [] label = "users" -> 6
    [] label = "map" -> 5
    [] label = "user config" -> 4
    [] label = "activate" -> 3
    [] label = "verify" -> 2
    [] label \in {"store", "restore", "template", "unlink", "reactivate"} -> 1
    [] label = "disabling" -> Cardinality(members)
    [] label = "idle" -> 0
StepsLeft(p) == Ahead(pc[p], loaded[p])

\* The guards of the steps of p.
CanContinue(p) ==
  \/ pc[p] \in {"sync", "load", "map", "user config", "verify", "store", "restore", "template", "unlink"}
  \/ /\ pc[p] = "users"
     /\ \/ UsersWritable(p)
        \/ ~JsonStore /\ req[p].action \in {"create_user", "disable_user", "delete_user"}
  \/ pc[p] = "activate" /\ ActivationFailures(ChangedFiles(disk, snap[p])) # {}
  \/ pc[p] = "reactivate" /\ ActivationFailures(loaded[p]) # {}
  \/ /\ pc[p] = "disabling"
     /\ \/ \E u \in loaded[p] : EditedUsers(disk, Loaded(disk))[u] # NoUser
        \/ ~JsonStore \/ \E u \in loaded[p] : LoadUser(disk, u) = NoUser

\* disable_group_users goes on only while there is a member to disable.
BusyInv == TypeOK /\ \A p \in Proc : pc[p] = "disabling" => loaded[p] # {}

LEMMA OwnLocals ==
  ASSUME TypeOK, NEW p \in Proc, Begin(p) \/ Continue(p) \/ Crash(p)
  PROVE  \A q \in Proc \ {p} : pc'[q] = pc[q] /\ loaded'[q] = loaded[q]
<1>1. \A q \in Proc \ {p} : pc'[q] = pc[q]
  BY OneMoves
<1>2. ASSUME Begin(p) PROVE \A q \in Proc \ {p} : loaded'[q] = loaded[q]
  BY <1>2 DEF Begin, BeginManaged, BeginCreateGroup, BeginDeleteGroup, BeginDisableGroup,
     RestoreLastChange, TypeOK
<1>3. ASSUME Crash(p) PROVE \A q \in Proc \ {p} : loaded'[q] = loaded[q]
  BY <1>3 DEF Crash, End, TypeOK
<1>4. ASSUME \/ SyncTemplates(p) \/ LoadRecords(p) \/ WriteUsers(p) \/ UsersCommandFails(p)
             \/ WriteMap(p) \/ WriteUserConfig(p) \/ ActivateOk(p) \/ ActivateFails(p) \/ Verify(p)
      PROVE  \A q \in Proc \ {p} : loaded'[q] = loaded[q]
  BY <1>4 DEF SyncTemplates, LoadRecords, WriteUsers, UsersCommandFails, WriteMap, WriteUserConfig,
     ActivateOk, ActivateFails, Verify, TypeOK
<1>5. ASSUME \/ CreateTimesOut(p) \/ StoreRollbackState(p) \/ RestoreSnapshots(p)
             \/ WriteGroupTemplate(p) \/ UnlinkGroupFiles(p) \/ DisableNext(p) \/ DisableStops(p)
             \/ ReactivateOk(p) \/ ReactivateFails(p)
      PROVE  \A q \in Proc \ {p} : loaded'[q] = loaded[q]
  BY <1>5 DEF CreateTimesOut, StoreRollbackState, RestoreSnapshots, WriteGroupTemplate,
     UnlinkGroupFiles, DisableNext, DisableStops, ReactivateOk, ReactivateFails, End, TypeOK
<1> QED
  BY <1>1, <1>2, <1>3, <1>4, <1>5 DEF Continue

LEMMA InitBusy == Init => BusyInv
  BY InitTyped DEF Init, BusyInv

LEMMA NextBusy == BusyInv /\ [Next]_vars => BusyInv'
<1> SUFFICES ASSUME BusyInv, [Next]_vars PROVE BusyInv'
  OBVIOUS
<1>1. TypeOK /\ TypeOK'
  BY NextTyped DEF BusyInv
<1>2. CASE UNCHANGED vars
  BY <1>1, <1>2 DEF BusyInv, vars, private
<1>3. ASSUME NEW p \in Proc, Begin(p) \/ Continue(p) \/ Crash(p), pc'[p] = "disabling"
      PROVE  loaded'[p] # {}
  <2>1. CASE \E r \in Requests : BeginDisableGroup(p, r)
    BY <1>1, <2>1 DEF BeginDisableGroup, TypeOK
  <2>2. CASE DisableNext(p)
    BY <1>1, <1>3, <2>2 DEF DisableNext, End, Goto, TypeOK
  <2>3. CASE Begin(p) /\ ~\E r \in Requests : BeginDisableGroup(p, r)
    BY <1>1, <1>3, <2>3 DEF Begin, BeginManaged, BeginCreateGroup, BeginDeleteGroup,
       RestoreLastChange, Start, Goto, TypeOK
  <2>4. CASE Continue(p) /\ ~DisableNext(p)
    BY <1>1, <1>3, <2>4 DEF Continue, SyncTemplates, LoadRecords, WriteUsers, UsersCommandFails,
       CreateTimesOut, WriteMap, WriteUserConfig, ActivateOk, ActivateFails, Verify,
       StoreRollbackState, RestoreSnapshots, WriteGroupTemplate, UnlinkGroupFiles, DisableStops,
       ReactivateOk, ReactivateFails, End, Goto, TypeOK
  <2>5. CASE Crash(p)
    BY <1>1, <1>3, <2>5 DEF Crash, End, Goto, TypeOK
  <2> QED
    BY <1>3, <2>1, <2>2, <2>3, <2>4, <2>5
<1> QED
  BY <1>1, <1>2, <1>3, OwnLocals DEF Next, Wait, BusyInv

\* Whatever the files have become meanwhile, a request is never left without a next step: a
\* JSON record that was there when the request loaded it is still in what it writes back.
THEOREM NeverStuck == Spec => [](\A p \in Proc : pc[p] # "idle" => CanContinue(p))
<1>1. BusyInv => \A p \in Proc : pc[p] # "idle" => CanContinue(p)
  <2> SUFFICES ASSUME BusyInv, NEW p \in Proc, pc[p] # "idle" PROVE CanContinue(p)
    OBVIOUS
  <2>1. pc[p] \in Labels /\ ServingOK(p)
    BY DEF BusyInv, TypeOK
  <2>2. CASE pc[p] = "users"
    <3>1. JsonStore => UsersWritable(p)
      BY <2>1, <2>2 DEF ServingOK, UsersWritable, EditedUsers
    <3>2. UsersWritable(p) \/ req[p].action \in {"create_user", "disable_user", "delete_user"}
      BY DEF UsersWritable
    <3> QED
      BY <2>2, <3>1, <3>2 DEF CanContinue
  <2>3. CASE pc[p] = "disabling"
    <3>1. PICK u \in loaded[p] : u \in User
      BY <2>1, <2>3 DEF BusyInv, ServingOK
    <3>2. JsonStore => EditedUsers(disk, Loaded(disk))[u] = LoadUser(disk, u)
      BY <3>1 DEF EditedUsers, Loaded, LoadUsers
    <3> QED
      BY <2>3, <3>1, <3>2 DEF CanContinue
  <2>4. CASE pc[p] \in {"activate", "reactivate"}
    BY <2>4 DEF CanContinue, ActivationFailures
  <2> QED
    BY <2>1, <2>2, <2>3, <2>4 DEF CanContinue, Labels
<1> QED
  BY <1>1, InitBusy, NextBusy, PTL DEF Spec

LEMMA AheadIs ==
  ASSUME NEW members
  PROVE  /\ Ahead("sync", members) = 8 /\ Ahead("load", members) = 7
         /\ Ahead("users", members) = 6 /\ Ahead("map", members) = 5
         /\ Ahead("activate", members) = 3 /\ Ahead("verify", members) = 2
         /\ Ahead("store", members) = 1 /\ Ahead("restore", members) = 1
         /\ Ahead("template", members) = 1 /\ Ahead("unlink", members) = 1
         /\ Ahead("reactivate", members) = 1 /\ Ahead("idle", members) = 0
BY DEF Ahead

LEMMA AheadUserConfig ==
  ASSUME NEW members
  PROVE  Ahead("user config", members) = 4
BY DEF Ahead

LEMMA AheadMembers ==
  ASSUME NEW members
  PROVE  Ahead("disabling", members) = Cardinality(members)
BY DEF Ahead

LEMMA DisablingCounts ==
  ASSUME BusyInv, IsFiniteSet(User), NEW p \in Proc, pc[p] = "disabling"
  PROVE  /\ Cardinality(loaded[p]) \in Nat \ {0}
         /\ \A u \in loaded[p] : /\ Cardinality(loaded[p] \ {u}) \in Nat
                                /\ Cardinality(loaded[p] \ {u}) < Cardinality(loaded[p])
<1>1. loaded[p] \subseteq User /\ loaded[p] # {}
  BY DEF BusyInv, TypeOK, ServingOK
<1>2. IsFiniteSet(loaded[p])
  BY <1>1, FS_Subset
<1>3. Cardinality(loaded[p]) \in Nat \ {0}
  BY <1>1, <1>2, FS_CardinalityType, FS_EmptySet
<1>4. \A u \in loaded[p] : Cardinality(loaded[p] \ {u}) = Cardinality(loaded[p]) - 1
  BY <1>2, FS_RemoveElement
<1> QED
  BY <1>3, <1>4

LEMMA StepsTyped ==
  ASSUME BusyInv, IsFiniteSet(User), NEW p \in Proc
  PROVE  StepsLeft(p) \in Nat /\ (pc[p] # "idle" => StepsLeft(p) # 0)
<1>1. pc[p] \in Labels
  BY DEF BusyInv, TypeOK
<1>2. CASE pc[p] = "disabling"
  <2>1. StepsLeft(p) = Cardinality(loaded[p])
    BY <1>2, AheadMembers DEF StepsLeft
  <2> QED
    BY <1>2, <2>1, DisablingCounts
<1>3. CASE pc[p] = "user config"
  <2>1. StepsLeft(p) = 4
    BY <1>3, AheadUserConfig DEF StepsLeft
  <2> QED
    BY <2>1
<1>4. CASE pc[p] \notin {"disabling", "user config"}
  <2>1. pc[p] \in {"idle", "sync", "load", "users", "map", "activate", "verify", "store", "restore",
                   "template", "unlink", "reactivate"}
    BY <1>1, <1>4 DEF Labels
  <2> QED
    BY <2>1, AheadIs DEF StepsLeft
<1> QED
  BY <1>2, <1>3, <1>4

LEMMA StepCounts ==
  ASSUME BusyInv, IsFiniteSet(User), NEW p \in Proc, Continue(p)
  PROVE  StepsLeft(p)' \in Nat /\ StepsLeft(p)' < StepsLeft(p)
<1>1. pc \in [Proc -> Labels] /\ DOMAIN loaded = Proc
  BY DEF BusyInv, TypeOK
<1>2. CASE \/ SyncTemplates(p) \/ LoadRecords(p) \/ WriteUsers(p) \/ UsersCommandFails(p)
           \/ ActivateOk(p) \/ ActivateFails(p) \/ Verify(p)
  BY <1>1, <1>2, AheadIs DEF SyncTemplates, LoadRecords, WriteUsers, UsersCommandFails,
     ActivateOk, ActivateFails, Verify, Goto, StepsLeft
<1>3. CASE WriteMap(p)
  <2>1. pc[p] = "map" /\ pc'[p] = "user config"
    BY <1>1, <1>3 DEF WriteMap, Goto
  <2>2. StepsLeft(p) = 5
    BY <2>1, AheadIs DEF StepsLeft
  <2>3. StepsLeft(p)' = 4
    BY <2>1, AheadUserConfig DEF StepsLeft
  <2> QED
    BY <2>2, <2>3
<1>4. CASE WriteUserConfig(p)
  <2>1. pc[p] = "user config" /\ pc'[p] = "activate"
    BY <1>1, <1>4 DEF WriteUserConfig, Goto
  <2>2. StepsLeft(p) = 4
    BY <2>1, AheadUserConfig DEF StepsLeft
  <2>3. StepsLeft(p)' = 3
    BY <2>1, AheadIs DEF StepsLeft
  <2> QED
    BY <2>2, <2>3
<1>5. CASE DisableNext(p) /\ ~End(p)
  <2>1. PICK u \in loaded[p] : loaded'[p] = loaded[p] \ {u} /\ pc' = pc
    BY <1>1, <1>5 DEF DisableNext
  <2>2. pc[p] = "disabling" /\ pc'[p] = "disabling"
    BY <1>5, <2>1 DEF DisableNext
  <2>3. StepsLeft(p) = Cardinality(loaded[p]) /\ StepsLeft(p)' = Cardinality(loaded[p] \ {u})
    BY <2>1, <2>2, AheadMembers DEF StepsLeft
  <2> QED
    BY <2>2, <2>3, DisablingCounts
<1>6. ASSUME End(p), pc[p] # "idle" PROVE StepsLeft(p)' \in Nat /\ StepsLeft(p)' < StepsLeft(p)
  <2>1. StepsLeft(p)' = 0
    BY <1>1, <1>6, AheadIs DEF End, Goto, StepsLeft
  <2> QED
    BY <1>6, <2>1, StepsTyped
<1>7. CASE \/ CreateTimesOut(p) \/ StoreRollbackState(p) \/ RestoreSnapshots(p)
           \/ WriteGroupTemplate(p) \/ UnlinkGroupFiles(p) \/ DisableStops(p)
           \/ ReactivateOk(p) \/ ReactivateFails(p)
  <2>1. End(p) /\ pc[p] # "idle"
    BY <1>7 DEF CreateTimesOut, StoreRollbackState, RestoreSnapshots, WriteGroupTemplate,
       UnlinkGroupFiles, DisableStops, ReactivateOk, ReactivateFails
  <2> QED
    BY <1>6, <2>1
<1>8. CASE DisableNext(p) /\ End(p)
  BY <1>6, <1>8 DEF DisableNext
<1> QED
  BY <1>2, <1>3, <1>4, <1>5, <1>7, <1>8 DEF Continue

\* Each step a request takes, whichever way it goes, brings it nearer its end, and no step of
\* another process takes it back: it has at most eight, or as many as members to disable.
THEOREM EveryStepCounts ==
  ASSUME IsFiniteSet(User)
  PROVE  Spec => [][\A p \in Proc : /\ Continue(p) => StepsLeft(p)' < StepsLeft(p)
                                    /\ pc[p] # "idle" => StepsLeft(p)' <= StepsLeft(p)]_vars
<1>1. ASSUME BusyInv, [Next]_vars, NEW p \in Proc, pc[p] # "idle"
      PROVE  StepsLeft(p)' <= StepsLeft(p)
  <2>1. StepsLeft(p) \in Nat
    BY <1>1, StepsTyped
  <2>2. ASSUME pc'[p] = pc[p], loaded'[p] = loaded[p] PROVE StepsLeft(p)' = StepsLeft(p)
    BY <2>2 DEF StepsLeft
  <2>3. CASE UNCHANGED vars
    BY <2>1, <2>2, <2>3 DEF vars, private
  <2>4. ASSUME NEW q \in Proc, Begin(q) \/ Continue(q) \/ Crash(q), q # p
        PROVE  StepsLeft(p)' <= StepsLeft(p)
    BY <1>1, <2>1, <2>2, <2>4, OwnLocals DEF BusyInv
  <2>5. CASE Continue(p)
    <3>1. StepsLeft(p)' \in Nat /\ StepsLeft(p)' < StepsLeft(p)
      BY <1>1, <2>5, StepCounts
    <3> QED
      BY <2>1, <3>1
  <2>6. CASE Begin(p)
    BY <1>1, <2>6 DEF Begin, BeginManaged, BeginCreateGroup, BeginDeleteGroup, BeginDisableGroup,
       RestoreLastChange, Start
  <2>7. CASE Crash(p)
    <3>1. StepsLeft(p)' = 0
      BY <1>1, <2>7, AheadIs DEF Crash, End, Goto, StepsLeft, BusyInv, TypeOK
    <3> QED
      BY <2>1, <3>1
  <2> QED
    BY <1>1, <2>3, <2>4, <2>5, <2>6, <2>7 DEF Next, Wait
<1>2. BusyInv /\ [Next]_vars
        => \A p \in Proc : /\ Continue(p) => StepsLeft(p)' < StepsLeft(p)
                           /\ pc[p] # "idle" => StepsLeft(p)' <= StepsLeft(p)
  BY <1>1, StepCounts
<1> QED
  BY <1>2, InitBusy, NextBusy, PTL DEF Spec
=============================================================================
