------------------------------- MODULE ToolCalls -------------------------------
(***************************************************************************)
(* From a tool call to its answer: src/src/mcp_server.py and               *)
(* src/src/backend_client.py on one side of a loopback connection, the     *)
(* serving loop of src/src/ocserv_admin_api.py on the other.               *)
(*                                                                         *)
(* A client is one MCP server process; it has one call under way at a time *)
(* (execute blocks its event loop) and gives it up after five seconds.     *)
(* The backend is one thread.  What it does with a request is AdminApi.    *)
(***************************************************************************)
EXTENDS AdminApi

CONSTANTS
  Client,   \* MCP servers, known by their OCSERV_ADMIN_CLIENT_ACTOR_ID
  Backlog   \* request_queue_size of socketserver.TCPServer

ASSUME ClientAssumption  == Client \subseteq Actor
ASSUME BacklogAssumption == Backlog \in Nat

VARIABLES
  sent,      \* the calls, in the order they were made, with what the client was told
  queue,     \* connections the backend has not accepted yet
  stack,     \* what the backend's thread is running, innermost last; empty: no process
  job,       \* the call it is serving, or None
  stopping   \* the server's __shutdown_request

backend  == <<queue, stack, job, stopping>>
toolVars == <<vars, sent, backend>>

ToolInit ==
  /\ Init
  /\ sent = <<>>
  /\ queue = <<>> /\ stack = <<"serve_forever">> /\ job = None /\ stopping = FALSE

-----------------------------------------------------------------------------
(***************************************************************************)
(* The client.                                                             *)
(***************************************************************************)
\* planAction.  A call it refuses reaches no backend and is a stuttering step.  A required field
\* is missing when it is None or "": 0 and false pass.
Present(payload) == {field \in DOMAIN payload : payload[field] # None}
Planned_AnyDecision(r) ==
  /\ r.action \in ALLOWED_ACTIONS
  /\ Present(r.payload) \subseteq ACTION_FIELDS[r.action]
  /\ \A field \in REQUIRED_ACTION_FIELDS[r.action] : r.payload[field] \notin {None, Null, Blank}
  /\ {r.payload.force, r.payload.routes} \subseteq {None, Proper}
Planned(r) ==
  /\ r.action \in ALLOWED_ACTIONS
  /\ Present(r.payload) \subseteq ACTION_FIELDS[r.action]
  /\ \A field \in REQUIRED_ACTION_FIELDS[r.action] : r.payload[field] \notin {None, Null, Blank}
  /\ {r.payload.force, r.payload.routes} \subseteq {None, Proper}
  /\ r.action = "confirm_action" => r.payload.decision \in DECISION_VALUES

\* normalizeBackendResponse and what call_tool makes of an exception.  A reply that is not JSON,
\* the server's own page for an uncaught exception, becomes an invalid request.
Outcome == [status : {"ok", "pending_confirmation", "rejected", "failed", "raised"},
            code : ErrorCode \cup {"UNKNOWN_ERROR", "NOT_JSON", "BACKEND_UNAVAILABLE", "timed out", None}]
ASSUME NoOutcomeAssumption == None \notin Outcome
Told(status, code) == [status |-> status, code |-> code]
Unavailable == Told("failed", "BACKEND_UNAVAILABLE")
Abandoned   == Told("raised", "timed out")
Normalized(reply) ==
  CASE reply.status = "pending"  -> Told("pending_confirmation", reply.error)
    [] reply.status = "rejected" -> Told("rejected", reply.error)
    [] reply.status = "ok"       -> Told("ok", None)
    [] reply.status = "crashed"  -> Told("failed", "NOT_JSON")
    [] OTHER -> Told("failed", IF reply.error = None THEN "UNKNOWN_ERROR" ELSE reply.error)

Waiting(c) == {n \in 1..Len(sent) : sent[n].client = c /\ sent[n].told = None}
\* Tokens are not guessed: a client resolves one that some client was told about.
Known(token) ==
  \E n \in 1..Len(sent) :
    sent[n].told # None /\ sent[n].told.status = "pending_confirmation" /\ sent[n].served = token

\* _request: the connection is made at once or not at all.
Enqueued(n) == Append(queue, n)
CallTool(c, r) ==
  /\ Len(sent) < MaxCalls /\ Waiting(c) = {}
  /\ r.authentic /\ Planned(r) /\ (TokenOf(r) \in Falsy \/ Known(TokenOf(r)))
  /\ LET up == stack # <<>> /\ Len(queue) < Backlog IN
     /\ sent' = Append(sent, [client |-> c, request |-> r, served |-> None,
                              told |-> IF up THEN None ELSE Unavailable])
     /\ queue' = IF up THEN Enqueued(Len(sent) + 1) ELSE queue
  /\ UNCHANGED <<vars, stack, job, stopping>>

GiveUp_Retries(c) ==
  /\ Waiting(c) # {}
  /\ sent' = [n \in 1..Len(sent) |->
                IF n \in Waiting(c) THEN [sent[n] EXCEPT !.told = Abandoned] ELSE sent[n]]
  /\ queue' = IF Len(queue) < Backlog THEN Enqueued(CHOOSE n \in Waiting(c) : TRUE) ELSE queue
  /\ UNCHANGED <<vars, stack, job, stopping>>
GiveUp_Unavailable(c) ==
  /\ Waiting(c) # {}
  /\ sent' = [n \in 1..Len(sent) |->
                IF n \in Waiting(c) THEN [sent[n] EXCEPT !.told = Unavailable] ELSE sent[n]]
  /\ UNCHANGED <<vars, backend>>
\* Five seconds without an answer, or a connection reset by a dead backend, end the call with an
\* exception that _request does not catch.  The backend is not told.
GiveUp(c) ==
  /\ Waiting(c) # {}
  /\ sent' = [n \in 1..Len(sent) |->
                IF n \in Waiting(c) THEN [sent[n] EXCEPT !.told = Abandoned] ELSE sent[n]]
  /\ UNCHANGED <<vars, backend>>

-----------------------------------------------------------------------------
(***************************************************************************)
(* The backend's thread.                                                   *)
(***************************************************************************)
Top == stack[Len(stack)]
Runs(frame) == stack # <<>> /\ Top = frame
Pop == SubSeq(stack, 1, Len(stack) - 1)

\* serve_forever: leave the loop when asked to, else take the next connection.
Poll ==
  /\ Runs("serve_forever")
  /\ IF stopping
     THEN stack' = Pop /\ stopping' = FALSE /\ UNCHANGED <<queue, job>>
     ELSE /\ queue # <<>>
          /\ job' = Head(queue) /\ queue' = Tail(queue)
          /\ stack' = Append(stack, "app")
          /\ UNCHANGED stopping
  /\ UNCHANGED <<vars, sent>>

\* app() runs to its answer, whether or not the client still waits for it, ...
App ==
  /\ Runs("app")
  /\ Serve(sent[job].client, sent[job].request)
  /\ sent' = [sent EXCEPT ![job].served = Id]
  /\ stack' = Append(Pop, "answer")
  /\ UNCHANGED <<queue, job, stopping>>

Deliver_KeepsJob ==
  /\ Runs("answer")
  /\ sent' = IF sent[job].told = None
             THEN [sent EXCEPT ![job].told = Normalized(calls[sent[job].served].reply)]
             ELSE sent
  /\ stack' = Pop
  /\ UNCHANGED <<vars, queue, job, stopping>>
Deliver_Awaited ==
  /\ Runs("answer") /\ sent[job].told = None
  /\ sent' = [sent EXCEPT ![job].told = Normalized(calls[sent[job].served].reply)]
  /\ stack' = Pop /\ job' = None
  /\ UNCHANGED <<vars, queue, stopping>>
\* ... and the answer is written to the connection.
Deliver ==
  /\ Runs("answer")
  /\ sent' = IF sent[job].told = None
             THEN [sent EXCEPT ![job].told = Normalized(calls[sent[job].served].reply)]
             ELSE sent
  /\ stack' = Pop /\ job' = None
  /\ UNCHANGED <<vars, queue, stopping>>

\* SIGTERM: the handler runs in the same thread, on top of whatever that was doing, ...
Signal ==
  /\ stack # <<>> /\ Top # "_shutdown_handler"
  /\ stack' = Append(stack, "_shutdown_handler")
  /\ stopping' = TRUE
  /\ UNCHANGED <<vars, sent, queue, job>>

\* ... and server.shutdown() waits in it until serve_forever has returned.
IsShutDown == stack = <<>> \/ stack[1] # "serve_forever"
AwaitShutdown ==
  /\ Runs("_shutdown_handler")
  /\ stack' = IF IsShutDown THEN Pop ELSE stack
  /\ UNCHANGED <<vars, sent, queue, job, stopping>>

\* SIGKILL, or any other sudden end: the connections, the tokens and the limiter are gone.
Kill ==
  /\ stack # <<>>
  /\ stack' = <<>> /\ queue' = <<>> /\ job' = None /\ stopping' = FALSE
  /\ Restart
  /\ UNCHANGED sent

Boot ==
  /\ stack = <<>>
  /\ stack' = <<"serve_forever">>
  /\ UNCHANGED <<vars, sent, queue, job, stopping>>

TimePasses == Tick /\ UNCHANGED <<sent, backend>>

ToolNext ==
  \/ \E c \in Client : GiveUp(c) \/ \E r \in Request : CallTool(c, r)
  \/ Poll \/ App \/ Deliver
  \/ Signal \/ AwaitShutdown \/ Kill \/ Boot
  \/ TimePasses

ToolSpec == ToolInit /\ [][ToolNext]_toolVars

\* The thread goes on with what it can do: every command of a handler has a timeout.
Thread == Poll \/ App \/ Deliver \/ AwaitShutdown
FairToolSpec == ToolSpec /\ WF_toolVars(Thread)

-----------------------------------------------------------------------------
Frame == {"serve_forever", "app", "answer", "_shutdown_handler"}

\* Every variable holds what the code can put in it; a call is being served exactly while a
\* frame of its handler is on the stack.
ToolTypeOK ==
  /\ ApiTypeOK
  /\ sent \in Seq([client : Client, request : Request, served : Number \cup {None},
                   told : Outcome \cup {None}])
  /\ Len(calls) <= Len(sent) /\ Len(sent) <= MaxCalls
  /\ queue \in Seq(1..Len(sent)) /\ Len(queue) <= Backlog
  /\ stack \in Seq(Frame) /\ stopping \in BOOLEAN
  /\ job # None <=> \E k \in 1..Len(stack) : stack[k] \in {"app", "answer"}

\* What the client is told is what happened to the request behind it (backend_client.py:444-489).
\* "ok" means that the action ran to its end, except for a reload that failed.  An error means
\* that it did not, except for a create_user whose ocpasswd outlived its timeout.  After
\* CONFIRMATION_REPLAYED the token can be relied on to be settled, whatever became of the call
\* that settled it.
RunOf(n) == IF sent[n].served = None THEN None ELSE calls[sent[n].served].reply.run
SettledBefore(i, token) ==
  \E j \in 1..i-1 :
    /\ TokenOf(calls[j].request) = token
    /\ \/ calls[j].reply.run # None
       \/ calls[j].reply.status = "failed" /\ calls[j].reply.error \in {None, "CONFIRMATION_EXPIRED"}
ToldTheTruth ==
  \A n \in 1..Len(sent) :
    LET told == sent[n].told  run == RunOf(n) IN
    told # None =>
      /\ told.status = "ok" =>
           run # None /\ (run.ending = "ok" \/ run.action = "reload_service")
      /\ told.status \in {"failed", "rejected", "pending_confirmation"} =>
           run = None \/ run.ending # "ok"
      /\ told = Unavailable => sent[n].served = None
      /\ told.code = "CONFIRMATION_REPLAYED" =>
           SettledBefore(sent[n].served, TokenOf(sent[n].request))

\* src/docs/development-plan.xml:110: retries and repeated calls cannot replay a destructive
\* action.  A client that gave up on its confirmation, changed its mind and heard that the token
\* is cancelled (which confirm_action reports as UNKNOWN_ERROR, as it does nothing else) never
\* sees the action run, although the confirmation may have waited in the backlog all the time.
CancelHeeded ==
  \A n \in 1..Len(sent) :
    sent[n].request.action = "confirm_action" /\ sent[n].told = Told("failed", "UNKNOWN_ERROR") =>
      /\ sent[n].request.payload.decision = "cancel"
      /\ \A i \in 1..Len(calls) :
           calls[i].reply.run # None => calls[i].reply.run.under # TokenOf(sent[n].request)

\* The two sides have their own tables of fields and actions and their own tests
\* (backend_client.py:568-592, ocserv_admin_api.py:105-131, safety_controls.py:165).  The backend
\* knows the action of every call that was planned, and refuses the form of one only where a field
\* it requires is 0 or false, which the client takes for given (:579).  What the backend alone
\* would accept never gets there: only "confirm" makes it run a destructive action.
FormsAgree ==
  \A i \in 1..Len(calls) :
    LET r == calls[i].request IN
    /\ calls[i].reply.error # "ACTION_NOT_ALLOWED"
    /\ calls[i].reply.error = "INVALID_REQUEST"
         => \E field \in required_fields[r.action] : r.payload[field] = Zero
    /\ r.action = "confirm_action" /\ calls[i].reply.run # None
         => r.payload.decision = "confirm"

\* The backend lets any operator speak for another (ocserv_admin_api.py:285, :352), but what the
\* MCP servers send names none: confirmation_actor_id is not among their fields
\* (backend_client.py:568-592).  Through them a destructive action runs only when the server whose
\* call proposed it confirms it.
OwnConfirmed ==
  \A i \in 1..Len(calls) :
    calls[i].request.action = "confirm_action" /\ calls[i].reply.run # None
      => calls[calls[i].reply.run.under].actor = calls[i].actor

\* Whatever the backend carries out is one call, carried out once: a call that was given up is
\* not repeated.  Calls take effect in the order they were made, those given up among them, so a
\* confirmation never overtakes the cancellation sent after it, nor the other way round.
ServedInOrder ==
  /\ \A i \in 1..Len(calls) : \E n \in 1..Len(sent) : sent[n].served = i
  /\ \A m, n \in 1..Len(sent) :
       sent[m].served # None /\ sent[n].served # None /\ m < n => sent[m].served < sent[n].served

\* A request that reached the backend is carried out, also when its client has given it up,
\* unless the process is told to stop or dies.
Interrupted == stack = <<>> \/ stopping
QueuedIsServed ==
  \A n \in Number :
    (\E k \in 1..Len(queue) : queue[k] = n)
      ~> ((n <= Len(sent) /\ sent[n].served # None) \/ Interrupted)

\* src/src/ocserv_admin_api.py:546: "graceful shutdown".  A backend that is told to stop, and is
\* not killed, leaves its serving loop.
ShutdownCompletes == stopping ~> stack = <<>>
=============================================================================
