--------------------------- MODULE ManagedPromises ---------------------------
(***************************************************************************)
(* What the repository's documents say of the mutation pipeline and the    *)
(* code does not do.  Each property below is violated by a run of its own; *)
(* the README tells the behaviour TLC finds.                               *)
(***************************************************************************)
EXTENDS ManagedMutation

\* src/docs/api.md:255, rollback_last_change: "Rollback the last mutation to its
\* pre-change state."  The change undone is the last one that reached the files.
RollbackUndoesLastChange ==
  [][\A p \in Proc, r \in Requests :
       RestoreLastChange(p, r) => disk' = lastChange.before]_vars

\* src/deploy/README.md:60: every config-affecting change records its backup before the
\* mutation.  So whenever no request runs, a change of the accounts that last reached the
\* files can be undone from last-rollback.json.
LastChangeUndoable ==
  /\ AllIdle /\ lastChange # NoChange
  /\ LoadUsers(disk) # LoadUsers(lastChange.before)
  =>
    /\ undoFile # Absent
    /\ Restored(disk, undoFile.snapshots) = lastChange.before

\* src/docs/development-plan.xml:392, assigning a group: "Adapter writes only approved
\* targets".  The pipeline changes no file outside the planned files it reports,
\* snapshots and restores.
OnlyPlannedFilesChange ==
  [][\A p \in Proc : InPipeline(p) /\ lock = p =>
       \A f \in File \ PlannedFiles(req[p]) : disk'[f] = disk[f]]_vars

\* src/docs/requirements.xml:92: "group deletion refuses unsafe non-empty deletion".  No
\* user of the auth store belongs to a group that delete_group removes.
DeletedGroupIsEmpty ==
  [][\A p \in Proc, r \in Requests :
       BeginDeleteGroup(p, r) =>
         \A u \in User : LoadUser(disk, u) # NoUser => LoadUser(disk, u).group # r.group]_vars
=============================================================================
