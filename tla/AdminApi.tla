------------------------------- MODULE AdminApi -------------------------------
(***************************************************************************)
(* The request handling of src/src/ocserv_admin_api.py: the client's       *)
(* credential, the rate limiter and the guard of src/src/safety_controls.py*)
(* the two phases of a destructive action and the dispatch to a handler.   *)
(*                                                                         *)
(* The WSGI server answers one request at a time, so a request is one step.*)
(* The n-th request has the number n, which stands for the request_id it   *)
(* is given unless it brings one of its own, and for the confirmation      *)
(* token created for it.  The handler itself is reduced to how it ends     *)
(* (ManagedMutation has its steps).                                        *)
(***************************************************************************)
EXTENDS ActionRegistry, Naturals, FiniteSets, Sequences

CONSTANTS
  Actor,            \* actor ids that clients send
  AllowedActor,     \* OCSERV_ADMIN_ALLOWED_ACTORS
  Target,           \* the user or group a request names
  BadName,          \* those that USERNAME_PATTERN and GROUP_PATTERN reject
  Request,          \* the requests clients send
  MaxRequests,      \* OCSERV_ADMIN_RATE_LIMIT_MAX_REQUESTS
  ReadMaxRequests,  \* OCSERV_ADMIN_RATE_LIMIT_READ_MAX_REQUESTS, or None
  Window,           \* OCSERV_ADMIN_RATE_LIMIT_WINDOW_SECONDS, in ticks
  Lifetime,         \* expires_in_seconds, in ticks
  MaxTime,          \* bound: last tick of the clock
  MaxCalls,         \* bound: requests ever served
  None,             \* no value; of a field: it is absent
  Null, Blank, Zero,\* of a field: null, "", and 0 (or false where no boolean belongs)
  Proper,           \* of a field: its type is right and what it holds does not matter
  Odd               \* of a field: its type is wrong

Number   == 1..MaxCalls
Decision == {"confirm", "cancel", "anything else"}

Action   == ALLOWED_ACTIONS \cup {"no action of the whitelist"}

\* What a field may hold.  Bound: a name, a token, a decision, an expected value and a request_id
\* are strings or falsy.  What python takes for missing in `not payload.get(field)`:
Falsy   == {None, Null, Blank, Zero}
Unnamed == {None, Null, Blank}
Content == Falsy \cup {Proper, Odd}
Payload ==
  [username : Target \cup Falsy, group : Target \cup Falsy,
   ipv4_address : Content, ipv4_network : Content, ipv4_netmask : Content,
   routes : Content, force : Content, confirmed : Content,
   token : Number \cup Falsy, decision : Decision \cup Falsy,
   expected_action : Action \cup Unnamed, expected_username : Target \cup Action \cup Unnamed,
   expected_group : Target \cup Unnamed,
   confirmation_actor_id : Actor \cup Content, request_id : Number \cup Falsy]

\* authentic: the request comes from the loopback with the bearer token.
RequestType == [authentic : BOOLEAN, action : Action, payload : Payload]

ASSUME NumberAssumption ==
  /\ {MaxRequests, Window, Lifetime, MaxTime, MaxCalls} \subseteq Nat
  /\ ReadMaxRequests \in Nat \cup {None}
ASSUME RequestAssumption == Request \subseteq RequestType /\ BadName \subseteq Target

Status == {"pending", "confirmed", "cancelled", "expired"}
Ending == {"ok", "refused", "invalid", "unreloaded", "unhealthy", "unverified", "partial", "raised"}
ErrorCode ==
  {"UNAUTHORIZED_CLIENT", "RATE_LIMITED", "INVALID_REQUEST", "UNAUTHORIZED_OPERATOR",
   "ACTION_NOT_ALLOWED", "INVALID_NAME", "CONFIRMATION_REQUIRED", "INVALID_CONFIRMATION_CONTEXT",
   "CONFIRMATION_NOT_FOUND", "CONFIRMATION_REPLAYED", "CONFIRMATION_EXPIRED"} \cup Ending

\* What ran: an action with its payload, under the request_id it was given.  History: the number
\* of the request that asked for it.
Run    == [action : Action, payload : Payload, id : Number, under : Number, ending : Ending]
Reply  == [status : {"ok", "pending", "rejected", "failed", "error", "crashed"},
           error : ErrorCode \cup {None}, run : Run \cup {None}]
Call   == [actor : Actor, request : Request, at : Nat, reply : Reply]
Record == [status : Status, owner : Actor, action : Action, payload : Payload,
           request_id : Number, expires : Nat]

ASSUME NoneAssumption ==
  /\ None \notin Nat /\ None \notin ErrorCode /\ None \notin Run /\ None \notin Record
  /\ Content \cap Target = {} /\ Content \cap Action = {} /\ Content \cap Actor = {}
  /\ Content \cap Number = {} /\ Content \cap Decision = {} /\ Cardinality(Content) = 6

VARIABLES
  now,     \* the clock
  events,  \* the limiter: per actor, the requests it counted
  store,   \* the in-memory confirmation store
  calls,   \* history: the requests served, with their answers
  since    \* history: how many of them the process now running has not served

vars == <<now, events, store, calls, since>>

Init ==
  /\ now = 0
  /\ events = [a \in Actor |-> {}]
  /\ store = [n \in Number |-> None]
  /\ calls = <<>>
  /\ since = 0

Id == Len(calls) + 1

Answer(actor, r, reply) ==
  calls' = Append(calls, [actor |-> actor, request |-> r, at |-> now, reply |-> reply])

Refusal(status, code) == [status |-> status, error |-> code, run |-> None]

-----------------------------------------------------------------------------
\* checkRateLimit: only requests that were let through are counted, reads and writes in one
\* list, each compared with its own limit.
Limiting == MaxRequests > 0 /\ Window > 0
Limit(action) ==
  IF action \in READ_ACTIONS /\ ReadMaxRequests # None THEN ReadMaxRequests ELSE MaxRequests
Recent_Closed(actor) == {e \in events[actor] : e.at + Window >= now}
Recent(actor) == {e \in events[actor] : e.at + Window > now}
UnderLimit(actor, action) == Limiting => Cardinality(Recent(actor)) < Limit(action)

\* The bearer token comes first, then the limiter; a counted request goes on.
RefuseClient(actor, r) ==
  /\ ~r.authentic
  /\ Answer(actor, r, Refusal("error", "UNAUTHORIZED_CLIENT"))
  /\ UNCHANGED <<events, store>>

RefuseRate(actor, r) ==
  /\ r.authentic /\ ~UnderLimit(actor, r.action)
  /\ events' = [events EXCEPT ![actor] = Recent(actor)]
  /\ Answer(actor, r, Refusal("error", "RATE_LIMITED"))
  /\ UNCHANGED store

Admit(actor, r) ==
  /\ r.authentic /\ UnderLimit(actor, r.action)
  /\ events' = IF Limiting
               THEN [events EXCEPT ![actor] = Recent(actor) \cup {[id |-> Id, at |-> now]}]
               ELSE events

\* validateRequest.
required_fields == [
  create_user |-> {"username"}, update_user_ip |-> {"username", "ipv4_address"},
  create_group |-> {"group"}, disconnect_session |-> {"username"},
  disable_user |-> {"username"}, disable_group_users |-> {"group"},
  delete_user |-> {"username"}, delete_group |-> {"group"},
  assign_group |-> {"username", "group"}, rollback_last_change |-> {},
  confirm_action |-> {"token", "decision"}]
Complete(r) ==
  /\ r.action \in DOMAIN required_fields
       => \A field \in required_fields[r.action] : r.payload[field] \notin Falsy
  /\ r.action = "delete_user" => r.payload.force \in {None, Proper}
  /\ r.payload.routes \in {None, Proper}
  /\ r.action # "confirm_action" => r.payload.confirmed = None
  /\ r.payload.confirmation_actor_id \in {None, Blank} \cup Actor

\* Whoever sends a request may name an operator in it, for whom a token is stored or resolved.
Identity(actor, payload) ==
  IF payload.confirmation_actor_id \in Falsy THEN actor ELSE payload.confirmation_actor_id
RequestId(payload, n) == IF payload.request_id \in Falsy THEN n ELSE payload.request_id

\* target_group and target_user of a pending confirmation, and what a confirmation expects.
TargetGroup(payload) == IF payload.group \in {None, Null} THEN None ELSE payload.group
TargetUser(action, payload) ==
  IF payload.username \in Target THEN payload.username
  ELSE IF TargetGroup(payload) # None THEN TargetGroup(payload) ELSE action
Expected(value) == IF value \in Unnamed THEN None ELSE value

\* guardAction, without the confirmation: the error it finds first.
GuardError(actor, action, payload) ==
  CASE actor \notin AllowedActor    -> "UNAUTHORIZED_OPERATOR"
    [] actor \in AllowedActor /\ action \notin ALLOWED_ACTIONS -> "ACTION_NOT_ALLOWED"
    [] /\ actor \in AllowedActor /\ action \in ALLOWED_ACTIONS
       /\ payload.username \in BadName \/ payload.group \in BadName -> "INVALID_NAME"
    [] OTHER                        -> None

RefuseRequest(actor, r) ==
  /\ Admit(actor, r)
  /\ ~Complete(r)
  /\ Answer(actor, r, Refusal("error", "INVALID_REQUEST"))
  /\ UNCHANGED store

RejectByGuard(actor, r) ==
  /\ Admit(actor, r)
  /\ Complete(r) /\ GuardError(actor, r.action, r.payload) # None
  /\ Answer(actor, r, Refusal("rejected", GuardError(actor, r.action, r.payload)))
  /\ UNCHANGED store

\* The rest of executeApprovedAction runs behind these three.
Pass(actor, r) ==
  /\ Admit(actor, r)
  /\ Complete(r) /\ GuardError(actor, r.action, r.payload) = None

\* confirmDestructiveAction fails: the request waits under a token, for the operator it names.
Propose(actor, r) ==
  /\ Pass(actor, r)
  /\ r.action \in DESTRUCTIVE_ACTIONS
  /\ store' = [store EXCEPT ![Id] =
                 [status |-> "pending", owner |-> Identity(actor, r.payload), action |-> r.action,
                  payload |-> r.payload, request_id |-> RequestId(r.payload, Id),
                  expires |-> now + Lifetime]]
  /\ Answer(actor, r, Refusal("pending", "CONFIRMATION_REQUIRED"))

-----------------------------------------------------------------------------
\* How each handler can end: refused before it changed anything; invalid, unreloaded,
\* unhealthy, unverified where activateService, safeReload or verifyMutation give up; partial
\* when some users of a group were disabled; raised when ocpasswd does not return.
Pipelines == {"create_user", "update_user_ip", "disable_user", "delete_user", "assign_group"}
Endings(action) == {"ok"} \cup
  CASE action = "reload_service"       -> {"invalid", "unreloaded", "unhealthy"}
    [] action = "validate_config"      -> {"invalid"}
    [] action = "rollback_last_change" -> {"refused", "invalid", "unreloaded", "unhealthy"}
    [] action = "disable_group_users"  -> {"refused", "partial"}
    [] action \in Pipelines            ->
         {"refused", "invalid", "unreloaded", "unhealthy", "unverified"}
           \cup (IF action = "create_user" THEN {"raised"} ELSE {})
    [] OTHER                           -> {"refused"}

\* A handler that gives up raises; reload_service answers ok whatever safeReload reports, and
\* validate_config fails without an error code.
StatusOf(action, ending) ==
  CASE ending = "ok" \/ action = "reload_service"         -> "ok"
    [] ending = "invalid" /\ action = "validate_config"   -> "failed"
    [] ending = "raised"                                  -> "crashed"
    [] OTHER                                              -> "error"

Executed(action, payload, id, under, ending) ==
  LET status == StatusOf(action, ending) IN
  [status |-> status,
   error  |-> IF status \in {"ok", "failed"} THEN None ELSE ending,
   run    |-> [action |-> action, payload |-> payload, id |-> id, under |-> under,
               ending |-> ending]]

Execute(actor, r, ending) ==
  /\ Pass(actor, r)
  /\ r.action \notin DESTRUCTIVE_ACTIONS \cup {"confirm_action"} /\ ending \in Endings(r.action)
  /\ Answer(actor, r, Executed(r.action, r.payload, RequestId(r.payload, Id), Id, ending))
  /\ UNCHANGED store

\* _handle_confirm_action: the context is compared before the token is looked at.  The group that
\* a confirmation expects is compared only if the pending request names one.
TokenOf(r) == r.payload.token
Mismatch(r) ==
  /\ store[TokenOf(r)] # None
  /\ LET pending == store[TokenOf(r)] IN
     \/ Expected(r.payload.expected_action) \notin {None, pending.action}
     \/ Expected(r.payload.expected_username)
          \notin {None, TargetUser(pending.action, pending.payload)}
     \/ /\ TargetGroup(pending.payload) # None
        /\ Expected(r.payload.expected_group) \notin {None, TargetGroup(pending.payload)}
RefuseContext(actor, r) ==
  /\ Pass(actor, r)
  /\ r.action = "confirm_action" /\ Mismatch(r)
  /\ Answer(actor, r, Refusal("failed", "INVALID_CONFIRMATION_CONTEXT"))
  /\ UNCHANGED store

Resolving(actor, r) ==
  /\ Pass(actor, r)
  /\ r.action = "confirm_action" /\ ~Mismatch(r)
IsPending(n) == store[n] # None /\ store[n].status = "pending"
IsLive(n)    == IsPending(n) /\ now <= store[n].expires
IsOwner(actor, r) == store[TokenOf(r)].owner = Identity(actor, r.payload)

\* resolvePendingConfirmation: the outcomes that leave the token as it is, ...
RefuseToken(actor, r) ==
  /\ Resolving(actor, r)
  /\ \/ store[TokenOf(r)] = None
        /\ Answer(actor, r, Refusal("failed", "CONFIRMATION_NOT_FOUND"))
     \/ store[TokenOf(r)] # None /\ ~IsPending(TokenOf(r))
        /\ Answer(actor, r, Refusal("failed", "CONFIRMATION_REPLAYED"))
     \/ IsLive(TokenOf(r)) /\ ~IsOwner(actor, r)
        /\ Answer(actor, r, Refusal("failed", "UNAUTHORIZED_OPERATOR"))
  /\ UNCHANGED store

\* ... and those that settle it.
Settle_StatusOnly(n, status) == store' = [store EXCEPT ![n] = [status |-> status]]
Settle(n, status) == store' = [store EXCEPT ![n].status = status]
Expire(actor, r) ==
  /\ Resolving(actor, r)
  /\ IsPending(TokenOf(r)) /\ ~IsLive(TokenOf(r))
  /\ Settle(TokenOf(r), "expired")
  /\ Answer(actor, r, Refusal("failed", "CONFIRMATION_EXPIRED"))

Cancel_NotStored(actor, r) ==
  /\ Resolving(actor, r)
  /\ IsLive(TokenOf(r)) /\ IsOwner(actor, r)
  /\ r.payload.decision = "cancel"
  /\ Answer(actor, r, Refusal("failed", None))
  /\ UNCHANGED store
\* A cancelled token is answered without an error code, and still as a failure.
Cancel(actor, r) ==
  /\ Resolving(actor, r)
  /\ IsLive(TokenOf(r)) /\ IsOwner(actor, r)
  /\ r.payload.decision = "cancel"
  /\ Settle(TokenOf(r), "cancelled")
  /\ Answer(actor, r, Refusal("failed", None))

\* Everything else than "cancel" confirms.  The token is settled before the action runs, with the
\* payload and the request_id that it was proposed with, and stays settled however that ends.
Resumed(n, ending) ==
  Executed(store[n].action, store[n].payload, store[n].request_id, n, ending)
Confirm_SettlesSuccess(actor, r, ending) ==
  /\ Resolving(actor, r)
  /\ IsLive(TokenOf(r)) /\ IsOwner(actor, r)
  /\ r.payload.decision # "cancel"
  /\ ending \in Endings(store[TokenOf(r)].action)
  /\ IF ending = "ok" THEN Settle(TokenOf(r), "confirmed") ELSE UNCHANGED store
  /\ Answer(actor, r, Resumed(TokenOf(r), ending))
Confirm_AnyActor(actor, r, ending) ==
  /\ Resolving(actor, r)
  /\ IsLive(TokenOf(r))
  /\ r.payload.decision # "cancel"
  /\ ending \in Endings(store[TokenOf(r)].action)
  /\ Settle(TokenOf(r), "confirmed")
  /\ Answer(actor, r, Resumed(TokenOf(r), ending))
Confirm(actor, r, ending) ==
  /\ Resolving(actor, r)
  /\ IsLive(TokenOf(r)) /\ IsOwner(actor, r)
  /\ r.payload.decision # "cancel"
  /\ ending \in Endings(store[TokenOf(r)].action)
  /\ Settle(TokenOf(r), "confirmed")
  /\ Answer(actor, r, Resumed(TokenOf(r), ending))

\* One request, from app() to its answer.
Serve(actor, r) ==
  /\ Len(calls) < MaxCalls
  /\ \/ RefuseClient(actor, r) \/ RefuseRate(actor, r)
     \/ RefuseRequest(actor, r) \/ RejectByGuard(actor, r)
     \/ Propose(actor, r)
     \/ RefuseContext(actor, r) \/ RefuseToken(actor, r)
     \/ Expire(actor, r) \/ Cancel(actor, r)
     \/ \E ending \in Ending : Execute(actor, r, ending) \/ Confirm(actor, r, ending)
  /\ UNCHANGED <<now, since>>

Tick ==
  /\ now < MaxTime
  /\ now' = now + 1
  /\ UNCHANGED <<events, store, calls, since>>

\* The process ends and starts again: the limiter and the tokens were in memory.
Restart ==
  /\ events' = [a \in Actor |-> {}]
  /\ store' = [n \in Number |-> None]
  /\ since' = Len(calls)
  /\ UNCHANGED <<now, calls>>

Next ==
  \/ \E actor \in Actor, r \in Request : Serve(actor, r)
  \/ Tick
  \/ Restart

Spec == Init /\ [][Next]_vars

-----------------------------------------------------------------------------
\* Every variable holds what the code can put in it.
ApiTypeOK ==
  /\ now \in 0..MaxTime
  /\ events \in [Actor -> SUBSET [id : Number, at : 0..MaxTime]]
  /\ store \in [Number -> Record \cup {None}]
  /\ calls \in Seq(Call) /\ Len(calls) <= MaxCalls
  /\ since \in 0..Len(calls)

\* The limiter against what was really served (safety_controls.py): a request is turned away
\* exactly when the process already let through as many requests of that actor, within one
\* window before it, as its kind may have.  A request that was turned away does not count, and
\* one exactly a window old no longer does.
Authentic(i) == calls[i].request.authentic
LetThrough(i) == Authentic(i) /\ calls[i].reply.error # "RATE_LIMITED"
LetThroughOf(actor, upTo) ==
  {[id |-> j, at |-> calls[j].at] :
     j \in {k \in since+1..upTo : calls[k].actor = actor /\ LetThrough(k)}}
CountedBefore(i) == {e \in LetThroughOf(calls[i].actor, i - 1) : e.at + Window > calls[i].at}
WindowExact ==
  Limiting =>
    \A i \in since+1..Len(calls) :
      Authentic(i) =>
        (LetThrough(i) <=> Cardinality(CountedBefore(i)) < Limit(calls[i].request.action))

\* src/docs/verification-plan.xml:186: no destructive action reaches execution without a
\* recorded confirmation.  A destructive action runs with the payload and the request_id that an
\* earlier call proposed it with, in the lifetime of that proposal.  This call names its token, and
\* the context it expects, the group only where the proposal names one.  Both came from operators
\* who are allowed, and in the name of the same one: any of them can speak for another
\* (confirmation_actor_id).  No other call ran it.
RanAsConfirmed ==
  \A i \in 1..Len(calls) :
    LET run == calls[i].reply.run  confirmation == calls[i].request.payload IN
    run # None /\ run.action \in DESTRUCTIVE_ACTIONS =>
      /\ run.under < i /\ calls[run.under].reply.status = "pending"
      /\ LET asked == calls[run.under] IN
         /\ asked.actor \in AllowedActor /\ calls[i].actor \in AllowedActor
         /\ Identity(asked.actor, asked.request.payload) = Identity(calls[i].actor, confirmation)
         /\ asked.request.action = run.action /\ asked.request.payload = run.payload
         /\ run.id = RequestId(run.payload, run.under)
         /\ calls[i].at <= asked.at + Lifetime
      /\ confirmation.token = run.under /\ confirmation.decision # "cancel"
      /\ Expected(confirmation.expected_action) \in {None, run.action}
      /\ Expected(confirmation.expected_username) \in {None, TargetUser(run.action, run.payload)}
      /\ TargetGroup(run.payload) # None
           => Expected(confirmation.expected_group) \in {None, TargetGroup(run.payload)}
      /\ \A j \in 1..Len(calls) :
           j # i /\ calls[j].reply.run # None => calls[j].reply.run.under # run.under

\* What makes these inductive.  The limiter remembers every request it let through that may
\* still count, and no other; ...
LimiterInv ==
  /\ \A i \in 1..Len(calls) : calls[i].at <= now
  /\ Limiting =>
       \A a \in Actor :
         LET passed == LetThroughOf(a, Len(calls)) IN
         /\ events[a] \subseteq passed
         /\ {e \in passed : e.at + Window > now} \subseteq events[a]

\* ... a token in the store is as the call that proposed it said, and nothing ran under it
\* while it is pending.
TokenInv ==
  /\ \A i \in 1..Len(calls) :
       calls[i].reply.run # None => /\ calls[i].reply.run.under <= i
                                    /\ calls[i].reply.status # "pending"
  /\ \A n \in Number :
       store[n] # None =>
         /\ n <= Len(calls) /\ calls[n].reply.status = "pending"
         /\ calls[n].actor \in AllowedActor
         /\ Identity(calls[n].actor, calls[n].request.payload) = store[n].owner
         /\ calls[n].request.action = store[n].action
         /\ calls[n].request.payload = store[n].payload
         /\ store[n].request_id = RequestId(store[n].payload, n)
         /\ store[n].expires = calls[n].at + Lifetime
         /\ IsPending(n) => \A j \in 1..Len(calls) :
              calls[j].reply.run # None => calls[j].reply.run.under # n

\* The tokens of the API as a whole, with the limiter, the guard and restarts around them, are
\* offers taken up at most once.
Offered == {n \in 1..Len(calls) : calls[n].reply.status = "pending"}
OpenTokens == {n \in Number : IsLive(n)}
Performed ==
  [n \in Number |-> Cardinality({i \in 1..Len(calls) :
     i > n /\ calls[i].reply.run # None /\ calls[i].reply.run.under = n})]
Tokens == INSTANCE OneShot
            WITH Token <- Number, offered <- Offered, open <- OpenTokens, performed <- Performed
ApiImplementsOneShot == Tokens!Spec
=============================================================================
