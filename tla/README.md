# ocserv-admin, specified and verified

TLA+ modules for the backend that administers an ocserv VPN host (`src/src/`), the TLC runs that
check small instances of them and the TLAPS proofs of what holds for every instance. File names
below are relative to `src/src/` unless they say otherwise.

## The system

An MCP server (or a Telegram bot) sends actions over loopback HTTP to one backend process, which
edits the files ocserv reads and restarts it.

    mcp_server -> backend_client -> ocserv_admin_api -> safety_controls     (guard, rate limit)
                                          |          -> confirmation_state  (one-shot tokens)
                                          v
           user_lifecycle_manager, policy_group_manager, session_manager
                                          |
                                          v
      adapter_mutations (lock, preflight, snapshots, activate, verify, rollback)
            |                 |                    |
      ocserv_adapter    adapter_templates    adapter_commands  -> ocserv, ocpasswd, occtl, systemctl
      (records, files)  (rendered files)

| component | state it keeps | operations | what is hard |
|---|---|---|---|
| ocserv_adapter | users file (ocpasswd or JSON), `user-groups.json`, groups file, `config-per-user/`, group templates | create, disable, delete user; assign group; update address; create, delete group; disable the users of a group | four stores hold overlapping facts, written one after the other; loaders merge them |
| adapter_mutations | `.mutation.lock`, `last-rollback.json`, snapshots in memory | applyManagedMutation, rollbackLastChange | a step can fail or the process die after others have written |
| adapter_templates | templates and rendered configs | sync_managed_files | writes files other operations also own |
| adapter_commands | none; the running ocserv | validate, reload, restart, health check | reload and restart pick up different files |
| file_lock | an flock | enter, exit | its holder may die |
| confirmation_state | tokens in memory or `confirmations.json` | create, resolve, flush, load | expiry, replay, restart between confirm and execute |
| ocserv_admin_api | the token store, the limiter | credentials, limiter, guard, two-phase requests, one handler per action, serving loop, signal handler | an action spans two requests with anything between them, sent by operators who may name each other; one thread does everything, its own shutdown included |
| safety_controls | accepted timestamps per actor | guardAction, checkRateLimit | window boundary, two limits on one list |
| backend_client, mcp_server | none | plan, send, normalize and page one call per tool | five-second timeout against commands of thirty: an abandoned request is still carried out |
| audit_log | `audit.log`, `error.log`, `admin-changes.log` | append and filter | one action is logged by several functions in two requests |
| action_registry | tables of actions and fields | look up | client and backend each check against a table of their own, with different tests of what is missing |
| user_lifecycle_manager, policy_group_manager, session_manager | none | forward one request each, record it | nothing of their own but the records |
| metrics, logging_config | counters | count, format | nothing: one thread, and only `GET /metrics` reads them |

What makes each one correct: the account stores agree with each other and with what ocserv is told;
a fixed address has one owner and lies in its group's pool; a mutation happens wholly or not at all,
whichever step fails; a rollback returns exactly to the recorded state; ocserv runs what a
successful mutation wrote; two pipelines never interleave; a token executes at most once and never
after it was cancelled or has expired; nothing destructive runs but what one allowed operator proposed
and one, in the same name, confirmed in time and with the context it expected; the limiter turns away exactly the requests over the limit of their window; the logs
tell what happened; and what a client is told of a call is what became of it, also when the client
stopped waiting.

## Modules

| module | models | built on |
|---|---|---|
| `OcservFiles` | the managed files as one function from file to content; every loader, check, planned-file set and write as a pure operator | |
| `ManagedMutation` | the pipeline, the group operations and the rollback as actions on those files, with failures, timeouts and crashes | `OcservFiles` |
| `SoundDisk` | when the files of a disk agree: the start the consistency theorems assume | `OcservFiles` |
| `ManagedPromises` | four statements of the documents the code does not keep | `ManagedMutation` |
| `Accounts` | the abstract tables of accounts and of groups with their pools: every operation at once or not at all, and one earlier state that may be given back | |
| `MCManagedMutation` | the small instances; that their disks are sound, but for the one of `unplanned_file`, is an assumption TLC evaluates | `ManagedPromises`, `SoundDisk` |
| `Confirmation` | the token store, `confirm_action`, the file and its reload | |
| `OneShot` | the abstract token: taken up at most once, never after it lapsed | |
| `MCConfirmation` | the small instance | `Confirmation` |
| `ActionRegistry` | the tables of actions, of their fields and of what is destructive | |
| `AdminApi` | one request from its credentials to its answer: limiter, guard, proposal, resolution and dispatch, with the clock and restarts | `ActionRegistry`, refines `OneShot` |
| `AuditTrail` | the lines each request appends to the logs, and which of them the two filtered logs repeat | `AdminApi` |
| `MCAdminApi` | the small instances | `AuditTrail` |
| `ToolCalls` | clients with their timeout, the backlog, the serving thread with its stack, signals, crashes | composes with `AdminApi` |
| `Paging` | the pages of a list, with the theorem that they adjoin | |
| `MCToolCalls` | the small instances; reads whole lists through `Paging` as an assumption TLC evaluates | `ToolCalls`, `Paging` |
| `OcservFilesProofs`, `SoundDiskProofs`, `ManagedMutationProofs`, `ConfirmationProofs`, `AdminApiProofs`, `AuditTrailProofs`, `ToolCallsProofs` | theorems and lemmas | the modules they are named for |

**From code to state.** `disk` is the file system, `undoFile` is `last-rollback.json`, `lock` the
flock, `running` what ocserv was last started with; `pc`, `req`, `snap` and `loaded` are the locals
of one request: the next step, the payload, the snapshots and the records the record function
loaded. `before`, `lastChange`, `intact` and `requests` are history: no guard of a step reads them
(but the bound on `requests`). `intact` turns false when something happens that the code makes no
attempt to survive: a process dies with changed files, the ocpasswd of create_user times out, or a
rollback passes over a change that recorded no rollback state. The consistency properties are
claimed while `intact` holds, the others always. `Committed` is the disk an observer may count on:
the one a request at work found, or the present one when none is. `Accounts` is implemented with the
tables of that disk as `accounts` and `pools`, and those `rollback_last_change` would give back as
`undo`.

**From code to actions.** Each step of `_apply_managed_mutation_locked` is one action, in the order
of the code: `BeginManaged` (lock, preflight, snapshot), `SyncTemplates`, `LoadRecords`,
`WriteUsers`, `WriteMap`, `WriteUserConfig`, `ActivateOk` or `ActivateFails`, `Verify`,
`StoreRollbackState` or `RestoreSnapshots`. The five record functions share those steps; what they
do differently is in `RecordAccepted`, `UsersAfter`, `MapAfter` and `UserConfigAfter`. The group
operations and `rollback_last_change` have steps of their own, and take no lock, as in the code. A
request that is refused before it writes changes nothing and is a stuttering step.

In `Confirmation`, `records` is the dictionary of the store, `file` is `confirmations.json`, and
`pc` says whether the request being served is about to write the file or to run the confirmed
action. `Store` changes memory first and `Flush` the file next, as `put` and `update` do.

In `AdminApi`, `events` is the limiter's list per actor and `store` the in-memory token store. A
request is one step, since the server answers one at a time: `Serve` has one disjunct per way
through `_execute` and `executeApprovedAction`, in the order of their checks (`RefuseClient`,
`RefuseRate`, `RefuseRequest`, `RejectByGuard`, `Propose`, `RefuseContext`, `RefuseToken`, `Expire`,
`Cancel`, `Confirm`, `Execute`). `Admit` and `Pass` are the conditions the later ones share. What a
handler does is reduced to how it can end (`Endings`), with `ManagedMutation` for its steps;
`StatusOf` says what the API makes of each ending. `calls` and `since` are history. The n-th request
served has the number n, which is the token proposed for it and its request id, unless it brings one.
A request carries a `Payload`, one value for each field of `validateRequest` and its readers;
`Complete` tests the values as that function does. `Identity` is the operator a request speaks for:
the one `confirmation_actor_id` names, or else its sender. A token belongs to the `Identity` of its
proposal and `IsOwner` compares that of the confirmation with it, so an operator on the list can
confirm or cancel what another proposed by naming him. `Mismatch` has the three comparisons of the
expected context, each with the condition it is made under.

`AuditTrail` adds `trail`, the lines of each request, computed from its answer: `HandlerLines` for
the managers and commands, under the sender's name; `ProposalLines` and `ResolutionLines` for the two
phases, under the name the token was stored for; `ApiError` for what `app()` logs.

In `ToolCalls`, `sent` is what the clients asked and were told, `queue` the connections the backend
has not accepted, `stack` the frames of its only thread, `job` the call being served and `stopping`
the `__shutdown_request` of socketserver. `Planned` is planAction: the fields of an action and nothing
else, the required ones neither None nor empty. `CallTool`, `GiveUp` are the client; `Poll`, `App` (which is
`AdminApi!Serve`), `Deliver` the serving loop; `Signal` pushes the handler on whatever the thread is
doing, and `AwaitShutdown` is `server.shutdown()` in it; `Kill` and `Boot` are the process.

## Runs

| run | instance | checks |
|---|---|---|
| `plain` | ocpasswd store, one process, all nine requests, crashes, ocpasswd timeouts; 271,522 states | `TypeOK`, `ConsistentInventory`, `AddressesSound`, `NoLeftovers`, `OthersUntouched`, `FailureLeavesNoTrace`, `RollbackIsExact`, `ActivationCoversChange`, `DisabledStaysDisabled`, `OperationsAtOnce`, `RequestsEnd` |
| `json` | the same with a JSON store, without timeouts (ocpasswd is not run); 298,121 states | `ConsistentInventory`, `AddressesUnique`, `NoLeftovers`, `FailureRestoresScope` |
| `two_processes` | two processes, account requests; 50,603 states | `MutualExclusion`, `ImplementsAccounts` |
| `confirmation` | two tokens, two actors, either store; 7,659 states up to symmetry | `StoreInv`, `ExecutedAtMostOnce`, `CancelIsFinal`, `RestartKeepsOpen`, `ImplementsOneShot` |
| `admin_api` | two operators and a stranger, reads, changes, proposals and resolutions in good and refused forms, some that name another operator, an id or a context that does not fit, restarts; 1,911,266 states up to symmetry | `ApiTypeOK`, `WindowExact`, `RanAsConfirmed`, `TrailIsExact`, `TroubleIsLogged`, `ApiImplementsOneShot` |
| `tool_calls` | one client, three calls, a backlog of two, a field that holds 0, signals, crashes; 933,456 states | `ToolTypeOK`, `ToldTheTruth`, `CancelHeeded`, `FormsAgree`, `ServedInOrder`, `QueuedIsServed` |

What they show, beyond the names: an account mutation that fails at any step puts back every file,
created ones included; a rollback gives back exactly the recorded files, also when an earlier
attempt failed at the restart; choosing reload over restart is always sound for a mutation that
succeeds; nothing but a restore enables a disabled user; a mutation changes nobody else's account,
on whatever disk a crash left; and to an outside observer the pipeline of one or more processes,
with the group operations and the rollback beside it, is a table of accounts and one of groups
changed atomically (`Accounts`), because until a request ends a failure returns to the tables it
found. Every request ends, and without the lock, whether it answers or its process dies. A
destructive action runs with the payload it was proposed with, once, in its time, for a confirmation
that names its token and speaks for the operator it was proposed for. The audit log says that a
change was made exactly when one was, in the name of the operator whose request made it, after the
lines of its proposal and confirmation; every refusal and failure leaves a line in `error.log` but for three kinds that the property names
(a cancelled token, a confirmation in the wrong context, an exception `app()` does not catch). A
client that gave up on a confirmation and then cancels cannot be overtaken by it: the backlog is
served in order, so either the cancellation is refused as replayed or the action never runs.

**Bounds.** Two users, two groups (one of them protected) and two addresses are the least that make
a name, an assignment or an address collide. `MaxRequests = 3` lets a change, an unrecorded change
and a rollback follow each other, and a rollback be tried again. The initial disks are a fresh
installation and a host set up by hand: a template with a pool, and a user ocpasswd created in it
before any map existed. One group is created and deleted, one stays. For the tokens, a lifetime of
one tick and a clock of four leave room to create, let lapse and restart twice. For the API, three
requests are what a proposal, its resolution and a replay take, and what the write limit of two
needs to be exceeded; a window of one tick and a lifetime of none put every event at, before and
after the boundary with a clock of one. For the calls, three are an abandoned proposal or
confirmation, a cancellation and one more, and the backlog of two is full with the others waiting.
`AdminApiProofs`, `AuditTrailProofs` and `ToolCallsProofs` hold at every window, lifetime, backlog and number of
clients. `Symmetry` of tokens and actors is sound: no property tells them apart and none is a
liveness property.

**Fairness.** `FairSpec` asks that a request that has begun takes its next step. The code gives no
step a reason to wait for ever: every subprocess but one runs under `_run_command` with a timeout, the
remaining one with a timeout of its own, and the lock is taken without blocking. Requests, crashes and time
are not promised. `FairToolSpec` asks the same of the serving thread (`Thread`): a frame on top of its
stack returns, for the same reason. Not that clients give up, nor that a signal or a crash comes:
`QueuedIsServed` holds whatever they do. `Confirmation` and `AdminApi` need no fairness: their
properties are safety. Deadlock is checked in every run whose system cannot stop; an idle backend
of `ManagedMutation`, which may idle for ever, has the step `Wait`.

### Where the documents and the code part

Each of these runs ends in a counterexample.

- `rollback_older_change`: `docs/api.md:255` has rollback undo the last mutation. create_group,
  delete_group and disable_group_users record no rollback state, so after one of them the rollback
  undoes an older mutation. TLC: a user is created, the users of its group are disabled, the
  rollback takes back the creation.
- `crash_without_backup`: `deploy/README.md:60` has every change record its backup before the
  mutation. `last-rollback.json` is written last. TLC: the process dies after `WriteUsers`.
- `unplanned_file`: `docs/development-plan.xml:392` has assign_group write only approved targets.
  It also writes or removes `config-per-user/<user>`, which is neither planned nor snapshotted.
- `timeout_group_delete`: `docs/requirements.xml:92` has group deletion refuse a group in use. Only
  the map is asked, and an ocpasswd that times out leaves a user outside the map.
- `admin_changes_log`: `deploy/README.md:59` has `admin-changes.log` record successful administrative
  changes. `ADMIN_CHANGE_COMMANDS` (`audit_log.py:47-56`) lacks update_user_ip. TLC: an operator
  changes a user's address, and nothing appears there. create_group, delete_group and
  disable_group_users are missing in the same way.
- `graceful_shutdown`: the message at `ocserv_admin_api.py:546` is "graceful shutdown". The handler
  calls `server.shutdown()` in the thread that runs `serve_forever()`, on top of it, and so waits for
  itself. TLC: SIGTERM to an idle backend, which then hangs until it is killed.

Three more are not runs of their own, and are written into the definitions and properties instead.

- `docs/api.md:280` says of `expected_group` "verify the target group". The code compares it only
  where the pending action names a group (`ocserv_admin_api.py:278`); elsewhere any value passes.
  `expected_username` is compared with the group, or the action, where no user is named (`:353`).
- `deploy/README.md:59` has `error.log` capture failures and rejections. The three kinds of `Silent`
  leave no line there.
- An operator on the list can propose, confirm and cancel in the name of any other (`:285`, `:352`).
  The MCP servers offer no field for it (`OwnConfirmed`); other clients of the API can.

## Proofs

TLAPS proves the following for every set of processes, users, groups, addresses, requests, tokens,
actors, clients, limits and bounds, from the assumptions named in the modules: the atoms (`Absent`,
`NoUser`, `None`, ...) are different from the values they stand beside, the initial disks hold contents their loaders accept,
requests carry the fields `validateRequest` asks for, and bounds are numbers.

| theorem | states | argument |
|---|---|---|
| `Exclusion` | `Spec => []MutualExclusion` | `LockInv`: `lock = p` exactly while `p` is inside the pipeline; this alone is inductive and implies exclusion. A crash ends the request and frees the lock in one step. |
| `TypeCorrect` | `Spec => []TypeOK` | `TypeOK` is inductive because it also says what each program counter guarantees (`ServingOK`), for example that the records an update was based on hold its target. Lemmas of `OcservFilesProofs` show that each loader and each write keeps every file's content in its type. |
| `OneProcessIsSerial`, `AccountsAreSerial` | `OneProcess /\ Spec => []Serial`, `AccountRequests /\ Spec => []Serial` | requests never overlap: trivially with one process; with any number of them when all requests are account requests, by `LockInv` and `TurnInv`, since those run only in the pipeline. |
| `FailureRestores` | `Spec /\ []Serial => FailureRestoresScope` | `ScopeInv`: inside the pipeline the snapshots cover the planned files with their first contents, and files outside `Reach` (the planned files and the one assign_group adds) still have theirs. |
| `OthersStayUntouched` | `Spec /\ []Serial => []OthersUntouched` | `ProgressInv` says which of five disks a pipeline is at, as a function of the disk it found and its request (`Progress`). On each of them every other user loads as before (`OthersKept`), also when the map and the records disagree. |
| `Consistent`, `AddressesStaySound`, `NothingLeft` | `SoundStart /\ Spec /\ []Serial => []ConsistentInventory`, `[]AddressesSound`, `[]NoLeftovers` | `SoundInv` adds to `ProgressInv`: while `intact`, the disk is `Good` (sound, and with `OwnStart` of unshared addresses) between requests, and inside one the disk it found is (`Base`). `RequestDone` says how far a group operation or a rollback is. The three properties are not inductive: they follow from `Sound`, which `SoundDiskProofs` shows each completed change to keep (`ChangedSound`) and each restored snapshot to return to (`ChangedRestores`). |
| `AddressesStayUnique` | `SoundStart /\ OwnStart /\ Spec /\ []Serial => []AddressesUnique` | the same invariant, in the middle of a request too (`OwnAtWork`): each of its disks shares no address if the one it found did not. |
| `NoTrace`, `RollbackExact`, `ActivationCovers` | `SoundStart /\ Spec /\ []Serial => FailureLeavesNoTrace`, `RollbackIsExact`, `ActivationCoversChange` | the rest of `SoundInv`: on a sound disk the file assign_group adds to its plan is already what it writes; undoFile, as long as the last change is the recorded one, leads back to the disk before it, which was good (`Undoable`); up to activation `running` is what the request found (`ServiceKnown`). |
| `DisabledStay` | `Spec /\ []Serial => DisabledStaysDisabled` | from `ProgressInv`: the records a process is about to write are those its disk holds, so no write enables anybody. If requests overlap this fails: disable_group_users takes no lock, and its work is lost when it falls between the loading and the writing of a mutation. |
| `OneOperationAtATime` | `SoundStart /\ Spec /\ []Serial => OperationsAtOnce` | under `SoundInv` `Committed` is `Base(p)` for the process p that moves. It changes when a mutation stores its rollback state, a group operation writes its last file or a rollback takes its first step, each time by one operation of `Accounts` (`StepShows`, from `AccountChanges`, `GroupAdds`, `GroupGoes`, `MembersDisabled`); every other step shows nothing (`ShowsNothing`). |
| `Atomicity` | `AccountsStart /\ Spec /\ []Serial /\ []intact => ImplementsAccounts` | the steps as above; the initial disks make an initial table (`InitTable`). |
| `AtomicAccounts` | `AccountsStart /\ Undying /\ Spec => ImplementsAccounts` | for any number of processes: account requests take turns (`AccountsAreSerial`), and with neither crashes nor timeouts nothing else turns `intact` false. |
| `NeverStuck`, `EveryStepCounts` | `Spec => [](pc[p] # "idle" => CanContinue(p))`; with finitely many users `StepsLeft(p)` falls with every step of p and rises with no other | for requests that overlap too. `BusyInv`: disable_group_users goes on only with members left, and `TypeOK` has the records a JSON store is written back from hold the target. These are the two facts `RequestsEnd` rests on, with `Exclusion` for the lock; that a guard which holds makes the action ENABLED, and the temporal induction over `StepsLeft`, are left to TLC. |
| `StoreInvariant` | `Spec => []StoreInv` | `TokenInv`: a token that was executed or cancelled is alive nowhere, neither pending in memory nor in the file nor being served; only the token being flushed may be staler in the file than in memory. |
| `AtMostOnce`, `CancelStays` | `Spec => []ExecutedAtMostOnce`, `Spec => []CancelIsFinal` | follow from `StoreInv` |
| `RestartSafe` | `Spec => []RestartKeepsOpen` | `FileInv`: between requests of a persistent store the file agrees with memory on every record that has not expired. |
| `Refinement` | `Spec => ImplementsOneShot` | under `StoreInv` each step is an offer, a performance, a lapse or a stutter of `OneShot` |
| `ApiTypeCorrect` | `AdminApi!Spec => []ApiTypeOK` | inductive; every disjunct of `Serve` is first shown to be of one form (`Served`: one answer appended, the limiter's list as the answer says, at most one token changed), and all later lemmas use that form. |
| `ConfirmedBeforeRun` | `Spec => []RanAsConfirmed` | `TokenInv`: a token in the store is as the call that proposed it said, and nothing has run under it while it is pending. A request that is complete names an operator or none, and who passes the guard is allowed, so the two requests agree in the name they speak for, not in their senders. |
| `LimiterExact` | `Spec => []WindowExact` | `LimiterInv`: the list of an actor holds only requests that were let through, and all that may still count. Without the second half a list trimmed too early would pass. |
| `ApiRefinement` | `Spec => ApiImplementsOneShot` | under `TokenInv` each request is an offer, a performance, a lapse or a stutter of `OneShot` |
| `TrailExact`, `TroubleRecorded` | `AuditSpec => []TrailIsExact`, `[]TroubleIsLogged` | `TrailInv` fits each request's lines to its answer; it needs `TokenInv` (a live token is of a destructive action) and `RanAsConfirmed` (the run is under the token it answers, and both requests speak for the same operator). |
| `PagesAdjoin` | a page is the stretch of the list at its offset, the next begins where it stops, further on | arithmetic on `SubSeq`; no induction: it is a statement about one page and the next |
| `ApiInside` | `ToolSpec => AdminApi!Spec` | `ToolInv` says that the call in service is one of a client, so `App` is a step of `AdminApi`; the theorems of `AdminApiProofs` hold of `ToolCalls` too. |
| `CallsInOrder` | `ToolSpec => []ServedInOrder` | `ToolInv`: the queue is increasing and beyond the job; a call in it, or in service, is unserved and later than every served one; the n-th call served is no earlier than the n-th made. |
| `ClientsHearTheTruth`, `CancellationHeeded`, `PlannedFormsAgree`, `ToolTypeCorrect` | `ToolSpec => []ToldTheTruth`, `[]CancelHeeded`, `[]FormsAgree`, `[]ToolTypeOK` | `HistoryInv`, inductive over `AdminApi`: each answer fits its request (`Fits`), a token answered as replayed was settled before, a cancelled one is not pending and nothing ran under it. With `ToolInv` (each client heard the answer to its own call, or gave up) the four follow; for the forms, `PlannedIsComplete` compares the two tables and the two tests, which differ over 0 and false alone. |
| `ConfirmedByItsProposer` | `ToolSpec => []OwnConfirmed` | `RanAsConfirmed` has proposal and confirmation speak for one operator; what was planned names none, so each speaks for its sender. |

`Serial` says that while a request is running every other process is idle. The theorems about the
content of the files take it as a hypothesis, since group operations and rollback take no lock, and
two theorems discharge it: for one process, which is the packaged deployment with all nine requests,
and for any number of processes that serve account requests. `TypeCorrect` and `Exclusion` do without.

`SoundStart` asks for initial disks that are `Sound`: each section of the map is empty or says what
the records say, every address lies in the pool of its user's group and is the one in
config-per-user, and rendering the templates moves no pool. Fresh installations and hosts set up as
documented are sound; the disk of `unplanned_file`, with a config-per-user option no record knows, is
not, and there `FailureLeavesNoTrace` fails. `OwnStart` asks that on none of them two users share an
address; `AccountsStart` is both. TLC evaluates what they ask of the disks on those of the instances.
`UndoAssumption` keeps the atoms for "no rollback state" and "nothing to give back" apart from the
values they stand beside.

`Atomicity` is for behaviours that nothing interrupts: a crash or a timeout of create_user does leave
half a change, and a rollback over an unrecorded change gives back more than the last one, neither of
which the tables of `Accounts` have. `OneOperationAtATime` covers each behaviour as far as the first
such event.

`AddressesUnique` is claimed while `intact` too. It takes six requests to break it otherwise, more
than the runs make: an assignment writes the map; a process dies in create_user before the new user
is in it; update_user_ip enters the user's address, without a group; a process dies in delete_user
with the address still in the map, where preflight, which looks at the groups, sees no conflict; the
address is given to somebody else, since the uniqueness check reads the records; and once the users
file has the first user again two hold it, for good if that request dies too. The attempt to prove
the property without `intact` led there.

Only model-checked: that reading a list page by page gives the whole list (`PagesShowAll`, an
induction over data), and `RequestsEnd` and `QueuedIsServed`, liveness under fairness; all three are
out of the prover's reach. `OwnConfirmed` is proved and in no run. Every other invariant and action property of the runs is the statement of
a theorem.

## Abstractions

- Names, addresses, passwords and texts are atoms. A group file is the set of addresses its
  `ipv4-network` covers; a hand-made template stands for its own rendering. Network and broadcast
  addresses, and what the address parser rejects, are left out; error codes and log lines are in
  `AdminApi` and `AuditTrail`, which reduce a handler to how it ends.
- One file is written in one step, and so are the group of rendered files of `sync_managed_files`,
  the restoring of a set of snapshots and the two unlinks of delete_group. Torn writes are modelled
  for `confirmations.json` alone.
- An ocpasswd that fails leaves its file as it was, but for the timed-out create. Exceptions of the
  operating system (a full disk, a missing binary) are not modelled.
- A reload is taken to reread none of the service files, a failed restart to leave the service as
  it was, down, or up with the new files.
- The order in which disable_group_users takes its users is left open.
- Not modelled: the legacy group file without `.conf`, a groups file that is a directory, and
  verification against occtl beyond the group it reports for assign_group.
- In `Confirmation` a token stands for its payload, so the checks of the expected action, user and
  group only refuse (`AdminApi` has them); the clock does not go back; guard and limiter are in
  `AdminApi`, which has the in-memory store alone.
- In `Confirmation` an actor is the operator a request speaks for, as the store sees it.
- In `AdminApi` names, operators, tokens, decisions and request ids are themselves. Of the other
  fields only what the tests of `validateRequest` and `planAction` tell apart is kept: absent, null,
  the empty string, 0 or false, of the right type, or of a wrong one (`Content`). Bound: a name, a
  token, a decision, an expected value and a request id are strings or falsy; so a number that `str()`
  turns into a token, or an `expected_group` of 0, is left out. An actor id a request names is one of
  `Actor`, on the list or not.
- In `AuditTrail` either activation is written as restart_service; the reads of occtl inside
  delete_user and assign_group, and the warning about a corrupt record, are left out.
- In `ToolCalls` a client guesses no token: it resolves one that some client was told of. A request is
  written whole at once, and an answer arrives unless the client gave up or the process died.
  A thread that is between two calls to `accept` is one that waits in `serve_forever`.

## Not modelled

- `metrics` and `logging_config`: counters that only grow, in one thread, and the format of lines. A
  model would repeat the sums and say nothing of the rest of the system.
- `GET /health`, `/readiness`, `/metrics`, the configuration from the environment and the command
  lines: they read and change no state the properties speak of.
- The tool catalogue of the MCP server, its schemas, group choices, rendering and SDK glue: text.
- The loaders of `user-groups.json` and `last-rollback.json` refuse a torn file, so a crash in the
  middle of `write_text` stops every later account request until someone repairs it. A torn write is modelled only
  for `confirmations.json`, whose loader goes on; in the other two it would be a state without steps.
- Rollback and group operations against the pipeline of a second process: they take no lock, the
  packaged deployment runs one process, and no document promises anything of two. The theorems exclude
  it by `Serial`, and by nothing else.
- Sessions: which users are connected is asked of occtl and kept nowhere; the answer that delete_user
  acts on is left open.
- Memory growth of the token store and the limiter's table: the bounds of the models stand for it.
