------------------------------ MODULE AuditTrail ------------------------------
(***************************************************************************)
(* The lines that the requests of AdminApi append to audit.log, and which  *)
(* of them error.log and admin-changes.log repeat (src/src/audit_log.py).  *)
(*                                                                         *)
(* A line is reduced to its request_id, actor_id, command, result and      *)
(* whether it carries an error code.  The occtl reads that delete_user and *)
(* assign_group make on their way and the warning about a corrupt record   *)
(* are left out; restart_service stands for either way of activating.      *)
(***************************************************************************)
EXTENDS AdminApi

VARIABLE trail  \* for each request served, the lines it appended

\* The request_id of a line that names no request: a fresh one, or "unknown-request".
NoId == 0

Result == {"ok", "failed", "rejected", "pending", "missing", "replayed", "expired", "cancelled",
           "confirmed"}

Line(id, actor, command, result, coded) ==
  <<[request |-> id, actor |-> actor, command |-> command, result |-> result, coded |-> coded]>>
Ran(id, actor, command, good) == Line(id, actor, command, IF good THEN "ok" ELSE "failed", ~good)
If(condition, lines) == IF condition THEN lines ELSE <<>>

ApiError(actor, action) == Line(NoId, actor, action, "failed", TRUE)

\* What the commands write: validateConfig; then the reload or restart and the health check of
\* safeReload and activateService; a read of the sessions.
Validation(id, actor, ending) == Ran(id, actor, "validate_config", ending # "invalid")
Activation(id, actor, command, ending) ==
  Validation(id, actor, ending)
    \o If(ending # "invalid", Ran(id, actor, command, ending # "unreloaded"))
    \o If(ending \notin {"invalid", "unreloaded"},
          Ran(id, actor, "health_check", ending # "unhealthy"))
SessionsRead(id, actor, ending) == If(ending = "ok", Ran(id, actor, "show_sessions", TRUE))

\* What the managers add, under the request_id of the action.
Done(id, actor, action, ending) == If(ending = "ok", Ran(id, actor, action, TRUE))
SessionLines(actor, action, id, ending) ==
  (IF action = "list_sessions" THEN SessionsRead(id, actor, ending)
                               ELSE Ran(id, actor, action, ending = "ok"))
    \o Done(id, actor, action, ending)
MutationLines(actor, action, id, ending) ==
  If(ending \notin {"refused", "raised"}, Activation(id, actor, "restart_service", ending))
    \o Done(id, actor, action, ending)
GroupLines(actor, action, id, ending) == Done(id, actor, action, ending)

HandlerLines_Unlogged(actor, action, id, ending) ==
  CASE action \in {"reload_service", "rollback_last_change"} \cup Pipelines
         -> Activation(id, actor, "restart_service", ending)
    [] OTHER -> <<>>
HandlerLines(actor, action, id, ending) ==
  CASE action = "list_groups"     -> <<>>
    [] action = "list_users"      -> Done(id, actor, action, ending)
    [] action = "show_user_ips"   -> SessionsRead(id, actor, ending)
    [] action = "validate_config" -> Validation(id, actor, ending)
    [] action = "reload_service"  -> Activation(id, actor, action, ending)
    [] action \in {"list_sessions", "disconnect_session"} -> SessionLines(actor, action, id, ending)
    [] action \in {"rollback_last_change"} \cup Pipelines -> MutationLines(actor, action, id, ending)
    [] action \in {"create_group", "delete_group", "disable_group_users"}
                                  -> GroupLines(actor, action, id, ending)

\* _audit_rejection for the sender and createPendingConfirmation for the operator it names;
\* resolvePendingConfirmation, for the owner of the token, whoever sent it.
ProposalLines(actor, owner, action, id) ==
  Line(id, actor, action, "rejected", TRUE) \o Line(id, owner, action, "pending", FALSE)
ResolutionLines(token, result) ==
  IF store[token] = None THEN Line(NoId, None, None, "missing", TRUE)
  ELSE Line(store[token].request_id, store[token].owner, store[token].action, result,
            result \notin {"cancelled", "confirmed"})

Resolved(code) ==
  CASE code = "CONFIRMATION_REPLAYED" -> "replayed"
    [] code = "CONFIRMATION_EXPIRED"  -> "expired"
    [] code = "UNAUTHORIZED_OPERATOR" -> "rejected"
    [] OTHER                          -> "cancelled"

\* The lines of one request: an exception is logged by app(), under an id of its own.
Lines(call, n) ==
  LET r == call.request  reply == call.reply  run == call.reply.run  id == RequestId(r.payload, n) IN
  CASE run # None ->
         If(r.action = "confirm_action", ResolutionLines(TokenOf(r), "confirmed"))
           \o HandlerLines(call.actor, run.action, run.id, run.ending)
           \o If(reply.status = "error", ApiError(call.actor, r.action))
    [] run = None /\ reply.status = "pending"  -> 
         ProposalLines(call.actor, Identity(call.actor, r.payload), r.action, id)
    [] run = None /\ reply.status = "error"    -> ApiError(call.actor, r.action)
    [] run = None /\ reply.status = "rejected" -> Line(id, call.actor, r.action, "rejected", TRUE)
    [] run = None /\ reply.error = "INVALID_CONFIRMATION_CONTEXT" -> <<>>
    [] OTHER -> ResolutionLines(TokenOf(r), Resolved(reply.error))

\* What recordAuditEvent copies to the two other files.
ERROR_RESULTS == {"failed", "rejected"}
ADMIN_CHANGE_COMMANDS ==
  {"create_user", "disable_user", "delete_user", "assign_group", "disconnect_session",
   "reload_service", "restart_service", "rollback_last_change"}
_should_write_error_log_Results(line) == line.result = "failed"
_should_write_error_log(line) == line.coded \/ line.result \in ERROR_RESULTS
_should_write_admin_change_log(line) == line.result = "ok" /\ line.command \in ADMIN_CHANGE_COMMANDS

AuditInit == Init /\ trail = <<>>

AuditNext ==
  \/ /\ \E actor \in Actor, r \in Request : Serve(actor, r)
     /\ trail' = Append(trail, Lines(calls'[Id], Id))
  \/ (Tick \/ Restart) /\ UNCHANGED trail

AuditSpec == AuditInit /\ [][AuditNext]_<<vars, trail>>

-----------------------------------------------------------------------------
Changes ==
  ALLOWED_ACTIONS \ (READ_ACTIONS \cup {"confirm_action", "reload_service"})

\* src/docs/development-plan.xml:386, :13: the log records the confirmation and the outcome.  In
\* audit.log a request is said to have made a change exactly when it did, under the request_id of
\* that change and in the name of the operator who sent the request.  Before a destructive change
\* the log has under the same id that it was proposed and that it was confirmed, both in the name
\* of the operator for whom it was confirmed: the sender, or another whom confirmation_actor_id
\* names.
Says(i, k, id, command, result) ==
  /\ trail[i][k].request = id /\ trail[i][k].command = command /\ trail[i][k].result = result
SaysFor(i, k, id, actor, command, result) ==
  Says(i, k, id, command, result) /\ trail[i][k].actor = actor
TrailIsExact ==
  \A i \in 1..Len(calls), action \in Changes :
    LET run   == calls[i].reply.run
        owner == Identity(calls[i].actor, calls[i].request.payload)
        said  == {k \in 1..Len(trail[i]) :
                    trail[i][k].command = action /\ trail[i][k].result = "ok"}
    IN /\ said # {} <=> run # None /\ run.action = action /\ run.ending = "ok"
       /\ \A k \in said :
            /\ SaysFor(i, k, run.id, calls[i].actor, action, "ok")
            /\ action \in DESTRUCTIVE_ACTIONS =>
                 /\ \E p \in 1..Len(trail[run.under]) :
                      SaysFor(run.under, p, run.id, owner, action, "pending")
                 /\ \E c \in 1..k : SaysFor(i, c, run.id, owner, action, "confirmed")

\* src/deploy/README.md:59: error.log captures failures and rejections.  A request that was
\* refused or did not end well has a line there, also where the caller was told "ok" or where the
\* line is the only trace.  Three kinds have none: a cancelled token, a confirmation in the wrong
\* context, and an exception that app() does not catch.
Silent(reply) ==
  \/ reply.run = None /\ reply.status = "failed"
       /\ reply.error \in {None, "INVALID_CONFIRMATION_CONTEXT"}
  \/ reply.run # None /\ reply.run.ending = "raised"
EndedWell(reply) ==
  reply.status \in {"ok", "pending"} /\ (reply.run # None => reply.run.ending = "ok")
TroubleIsLogged ==
  \A i \in 1..Len(calls) :
    ~EndedWell(calls[i].reply) /\ ~Silent(calls[i].reply)
      => \E k \in 1..Len(trail[i]) : _should_write_error_log(trail[i][k])

\* src/deploy/README.md:59: admin-changes.log records successful administrative changes.
ChangesLogged ==
  \A i \in 1..Len(calls) :
    LET run == calls[i].reply.run IN
    run # None /\ run.action \in Changes /\ run.ending = "ok" =>
      \E k \in 1..Len(trail[i]) :
        /\ Says(i, k, run.id, run.action, "ok")
        /\ _should_write_admin_change_log(trail[i][k])
=============================================================================
