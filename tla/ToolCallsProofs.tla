---------------------------- MODULE ToolCallsProofs ----------------------------
(***************************************************************************)
(* What a client is told is what happened, a cancellation holds, calls take*)
(* effect in order and once, and the backend behind its queue is still the *)
(* AdminApi of the other proofs: for every set of clients and requests and *)
(* every length of the backlog.                                            *)
(***************************************************************************)
EXTENDS ToolCalls, AdminApiProofs, SequenceTheorems

-----------------------------------------------------------------------------
(***************************************************************************)
(* What an answer says of its request.                                     *)
(***************************************************************************)
Cancelled(r, reply) ==
  r.action = "confirm_action" /\ reply.status = "failed" /\ reply.error = None /\ reply.run = None

Fits(r, reply) ==
  /\ reply.error = "INVALID_REQUEST" => ~Complete(r)
  /\ reply.error = "ACTION_NOT_ALLOWED" => r.action \notin ALLOWED_ACTIONS
  /\ reply.status = "pending" => r.action \in DESTRUCTIVE_ACTIONS
  /\ reply.status = "ok" =>
       reply.run # None /\ (reply.run.ending = "ok" \/ reply.run.action = "reload_service")
  /\ reply.run # None =>
       /\ reply.status # "ok" => reply.run.ending # "ok"
       /\ reply.error = None /\ reply.status = "failed" => reply.run.action = "validate_config"
       /\ r.action = "confirm_action" =>
            r.payload.decision # "cancel" /\ reply.run.action \in DESTRUCTIVE_ACTIONS
  /\ reply.error = None => reply.status \in {"ok", "failed"}
  /\ Cancelled(r, reply) => TokenOf(r) \in Number /\ r.payload.decision = "cancel"

\* A request that settles its token says so in its answer; others leave what is settled alone.
Settles(reply) ==
  \/ reply.run # None
  \/ reply.status = "failed" /\ reply.error \in {None, "CONFIRMATION_EXPIRED"}
Notes(r, reply) ==
  /\ \A n \in Number :
       store'[n] # None /\ store'[n].status # "pending" =>
         store'[n] = store[n] \/ (n = TokenOf(r) /\ Settles(reply))
  /\ reply.error = "CONFIRMATION_REPLAYED" =>
       TokenOf(r) \in Number /\ store[TokenOf(r)] # None /\ ~IsPending(TokenOf(r))
  /\ Cancelled(r, reply) => IsPending(TokenOf(r)) /\ store'[TokenOf(r)].status # "pending"

\* A step appends one answer.
LEMMA AnswerIs ==
  ASSUME ApiTypeOK, NEW actor, NEW r, NEW x, NEW y, Answer(actor, r, x),
         calls' = Append(calls, Entry(actor, r, y))
  PROVE  x = y
<1>1. /\ Append(calls, Entry(actor, r, x))[Len(calls) + 1] = Entry(actor, r, x)
      /\ Append(calls, Entry(actor, r, y))[Len(calls) + 1] = Entry(actor, r, y)
  BY DEF ApiTypeOK
<1>2. calls' = Append(calls, Entry(actor, r, x))
  BY DEF Answer, Entry
<1>3. Entry(actor, r, x) = Entry(actor, r, y)
  BY <1>1, <1>2
<1>4. Entry(actor, r, x).reply = x /\ Entry(actor, r, y).reply = y
  BY DEF Entry
<1> QED
  BY <1>3, <1>4

\* A refusal that leaves the tokens as they are.
LEMMA RefusalFits ==
  ASSUME ApiTypeOK, NEW actor, NEW r, NEW reply, NEW status, NEW code,
         calls' = Append(calls, Entry(actor, r, reply)),
         Answer(actor, r, Refusal(status, code)), UNCHANGED store,
         status \in {"pending", "rejected", "failed", "error"}, code # None,
         code = "INVALID_REQUEST" => ~Complete(r),
         code = "ACTION_NOT_ALLOWED" => r.action \notin ALLOWED_ACTIONS,
         code = "CONFIRMATION_REPLAYED" =>
           TokenOf(r) \in Number /\ store[TokenOf(r)] # None /\ ~IsPending(TokenOf(r)),
         status # "pending"
  PROVE  Fits(r, reply) /\ Notes(r, reply)
<1>1. reply = [status |-> status, error |-> code, run |-> None]
  BY AnswerIs DEF Refusal
<1> QED
  BY <1>1 DEF Fits, Notes, Cancelled

\* Running an action leaves the tokens as they are, or settles the one that was named.
LEMMA ExecutedFits ==
  ASSUME NEW action \in Action, NEW payload \in Payload, NEW id \in Number, NEW under \in Number,
         NEW ending \in Ending, ending \in Endings(action), NEW r, NEW reply,
         reply = Executed(action, payload, id, under, ending),
         r.action = "confirm_action" => r.payload.decision # "cancel" /\ action \in DESTRUCTIVE_ACTIONS
  PROVE  Fits(r, reply) /\ reply.run # None /\ reply.error # "CONFIRMATION_REPLAYED"
<1>0. AnswersRun(reply, RunRecord(action, payload, id, under, ending))
  BY ExecutedIsReply
<1>1. /\ reply.run = RunRecord(action, payload, id, under, ending)
      /\ reply.status # "pending" /\ reply.run # None
  BY <1>0 DEF AnswersRun
<1>2. reply.run.action = action /\ reply.run.ending = ending
  BY <1>1 DEF RunRecord
<1>3. reply.status = StatusOf(action, ending)
  BY DEF Executed
<1>4. reply.error = IF reply.status \in {"ok", "failed"} THEN None ELSE ending
  BY DEF Executed
<1>5. None # ending
  BY NoneAssumption DEF ErrorCode
<1>6. /\ reply.status = "ok" <=> ending = "ok" \/ action = "reload_service"
      /\ reply.status = "failed" => action = "validate_config"
  <2>1. action = "reload_service" => ending # "raised"
    BY DEF Endings, Pipelines
  <2>2. CASE ending = "ok" \/ action = "reload_service"
    <3>1. /\ ~(ending = "invalid" /\ action = "validate_config")
          /\ ending # "raised"
      BY <2>1, <2>2
    <3>2. StatusOf(action, ending) = "ok"
      BY <2>2, <3>1 DEF StatusOf
    <3> QED
      BY <1>3, <2>2, <3>2
  <2>3. CASE ending # "ok" /\ action # "reload_service"
    <3>1. StatusOf(action, ending) # "ok"
      BY <2>3 DEF StatusOf
    <3>2. StatusOf(action, ending) = "failed" => action = "validate_config"
      BY <2>3 DEF StatusOf
    <3> QED
      BY <1>3, <2>3, <3>1, <3>2
  <2> QED
    BY <2>2, <2>3
<1>7. reply.error \notin {"INVALID_REQUEST", "ACTION_NOT_ALLOWED", "CONFIRMATION_REPLAYED"}
  <2> DEFINE codes == {"INVALID_REQUEST", "ACTION_NOT_ALLOWED", "CONFIRMATION_REPLAYED"}
  <2>1. codes \subseteq ErrorCode /\ ending \notin codes
    BY DEF ErrorCode, Ending
  <2>2. None \notin codes
    BY <2>1, NoneAssumption
  <2> HIDE DEF codes
  <2>3. reply.error \notin codes
    BY <1>4, <2>1, <2>2
  <2> QED
    BY <2>3 DEF codes
<1>8. reply.error = None => reply.status \in {"ok", "failed"}
  BY <1>4, <1>5
<1>9. ~Cancelled(r, reply)
  BY <1>1 DEF Cancelled
<1> HIDE DEF StatusOf
<1> QED
  BY <1>1, <1>2, <1>6, <1>7, <1>8, <1>9 DEF Fits

\* Every way to serve a request fits it, and keeps what is settled.
LEMMA ServeFits ==
  ASSUME ApiTypeOK, TokenInv, NEW actor \in Actor, NEW r \in Request, NEW reply,
         Serve(actor, r), Served(actor, r, reply),
         \A n \in 1..Len(calls) : Fits(calls[n].request, calls[n].reply)
  PROVE  Fits(r, reply) /\ Notes(r, reply)
<1>1. calls' = Append(calls, Entry(actor, r, reply)) /\ Id \in Number
  BY DEF Served
<1>2. None \notin ErrorCode
  BY NoneAssumption
<1>3. CASE RefuseClient(actor, r)
  <2>1. None # "UNAUTHORIZED_CLIENT"
    BY <1>2 DEF ErrorCode
  <2> QED
    BY <1>1, <1>3, <2>1, RefusalFits DEF RefuseClient
<1>4. CASE RefuseRate(actor, r)
  <2>1. None # "RATE_LIMITED"
    BY <1>2 DEF ErrorCode
  <2> QED
    BY <1>1, <1>4, <2>1, RefusalFits DEF RefuseRate
<1>5. CASE RefuseRequest(actor, r)
  <2>1. None # "INVALID_REQUEST"
    BY <1>2 DEF ErrorCode
  <2> QED
    BY <1>1, <1>5, <2>1, RefusalFits DEF RefuseRequest
<1>6. CASE RejectByGuard(actor, r)
  <2> DEFINE code == GuardError(actor, r.action, r.payload)
  <2>1. /\ code \in {"UNAUTHORIZED_OPERATOR", "ACTION_NOT_ALLOWED", "INVALID_NAME"}
        /\ code = "ACTION_NOT_ALLOWED" => r.action \notin ALLOWED_ACTIONS
    BY <1>6 DEF RejectByGuard, GuardError
  <2>2. code # None
    BY <1>6 DEF RejectByGuard
  <2> HIDE DEF code
  <2>3. Answer(actor, r, Refusal("rejected", code)) /\ UNCHANGED store
    BY <1>6 DEF RejectByGuard, code
  <2> QED
    BY <1>1, <2>1, <2>2, <2>3, RefusalFits
<1>7. CASE Propose(actor, r)
  <2>1. reply = [status |-> "pending", error |-> "CONFIRMATION_REQUIRED", run |-> None]
    BY <1>1, <1>7, AnswerIs DEF Propose, Refusal
  <2>2. None # "CONFIRMATION_REQUIRED"
    BY <1>2 DEF ErrorCode
  <2>3. Fits(r, reply)
    BY <1>7, <2>1, <2>2 DEF Fits, Cancelled, Propose
  <2>4. /\ store'[Id].status = "pending"
        /\ \A n \in Number \ {Id} : store'[n] = store[n]
    BY <1>1, <1>7 DEF Propose, ApiTypeOK
  <2> QED
    BY <2>1, <2>2, <2>3, <2>4 DEF Notes, Cancelled
<1>8. CASE RefuseContext(actor, r)
  <2>1. None # "INVALID_CONFIRMATION_CONTEXT"
    BY <1>2 DEF ErrorCode
  <2> QED
    BY <1>1, <1>8, <2>1, RefusalFits DEF RefuseContext
<1>9. CASE RefuseToken(actor, r)
  <2>1. TokenOf(r) \in Number
    BY <1>9, ResolvingNamesToken DEF RefuseToken, Resolving, Pass
  <2>2. PICK code \in {"CONFIRMATION_NOT_FOUND", "CONFIRMATION_REPLAYED", "UNAUTHORIZED_OPERATOR"} :
          /\ Answer(actor, r, Refusal("failed", code)) /\ UNCHANGED store
          /\ code = "CONFIRMATION_REPLAYED" => store[TokenOf(r)] # None /\ ~IsPending(TokenOf(r))
    BY <1>9 DEF RefuseToken
  <2>3. code # None
    BY <1>2, <2>2 DEF ErrorCode
  <2> QED
    BY <1>1, <2>1, <2>2, <2>3, RefusalFits
<1>10. ASSUME NEW status \in {"expired", "cancelled", "confirmed"},
              Resolving(actor, r), IsPending(TokenOf(r)), Settle(TokenOf(r), status), Settles(reply)
       PROVE  /\ \A n \in Number :
                   store'[n] # None /\ store'[n].status # "pending" =>
                     store'[n] = store[n] \/ (n = TokenOf(r) /\ Settles(reply))
              /\ TokenOf(r) \in Number /\ store'[TokenOf(r)].status # "pending"
  <2>1. TokenOf(r) \in Number
    BY <1>10, ResolvingNamesToken DEF Resolving, Pass
  <2>2. store[TokenOf(r)] \in Record
    BY <1>10, <2>1 DEF IsPending, ApiTypeOK
  <2>3. store' = [store EXCEPT ![TokenOf(r)] = [store[TokenOf(r)] EXCEPT !.status = status]]
    BY <1>10 DEF Settle
  <2>4. [store[TokenOf(r)] EXCEPT !.status = status].status = status
    BY <2>2 DEF Record
  <2>5. store'[TokenOf(r)].status = status /\ \A n \in Number \ {TokenOf(r)} : store'[n] = store[n]
    BY <2>1, <2>3, <2>4 DEF ApiTypeOK
  <2> QED
    BY <1>10, <2>1, <2>5
<1>11. CASE Expire(actor, r)
  <2>1. reply = [status |-> "failed", error |-> "CONFIRMATION_EXPIRED", run |-> None]
    BY <1>1, <1>11, AnswerIs DEF Expire, Refusal
  <2>2. None # "CONFIRMATION_EXPIRED"
    BY <1>2 DEF ErrorCode
  <2>3. Settles(reply) /\ Fits(r, reply)
    BY <2>1, <2>2 DEF Settles, Fits, Cancelled
  <2> QED
    BY <1>10, <1>11, <2>1, <2>2, <2>3 DEF Expire, Notes, Cancelled
<1>12. CASE Cancel(actor, r)
  <2>1. reply = [status |-> "failed", error |-> None, run |-> None]
    BY <1>1, <1>12, AnswerIs DEF Cancel, Refusal
  <2>2. None \notin {"INVALID_REQUEST", "ACTION_NOT_ALLOWED", "CONFIRMATION_REPLAYED"}
    BY <1>2 DEF ErrorCode
  <2>3. TokenOf(r) \in Number /\ r.payload.decision = "cancel" /\ IsPending(TokenOf(r))
    BY <1>12, ResolvingNamesToken DEF Cancel, Resolving, Pass, IsLive
  <2>4. Settles(reply) /\ Fits(r, reply)
    BY <2>1, <2>2, <2>3 DEF Settles, Fits, Cancelled
  <2>5. /\ \A n \in Number :
             store'[n] # None /\ store'[n].status # "pending" =>
               store'[n] = store[n] \/ (n = TokenOf(r) /\ Settles(reply))
        /\ store'[TokenOf(r)].status # "pending"
    BY <1>10, <1>12, <2>3, <2>4 DEF Cancel
  <2> QED
    BY <2>1, <2>2, <2>3, <2>4, <2>5 DEF Notes
<1>13. ASSUME NEW ending \in Ending, Execute(actor, r, ending)
       PROVE  Fits(r, reply) /\ Notes(r, reply)
  <2>0. ending \in Endings(r.action)
    BY <1>13 DEF Execute
  <2>1. r.action \in Action /\ r.payload \in Payload /\ RequestId(r.payload, Id) \in Number
    BY <1>1, RequestNames
  <2>2. /\ reply = Executed(r.action, r.payload, RequestId(r.payload, Id), Id, ending)
        /\ r.action # "confirm_action"
    BY <1>1, <1>13, AnswerIs DEF Execute
  <2>3. Fits(r, reply) /\ reply.run # None /\ reply.error # "CONFIRMATION_REPLAYED"
    BY <1>1, <2>0, <2>1, <2>2, ExecutedFits
  <2> QED
    BY <1>13, <2>3 DEF Notes, Cancelled, Execute
<1>14. ASSUME NEW ending \in Ending, Confirm(actor, r, ending)
       PROVE  Fits(r, reply) /\ Notes(r, reply)
  <2>1. TokenOf(r) \in Number /\ IsPending(TokenOf(r)) /\ r.payload.decision # "cancel"
    BY <1>14, ResolvingNamesToken DEF Confirm, Resolving, Pass, IsLive
  <2> DEFINE record == store[TokenOf(r)]
  <2>2. record \in Record /\ record # None
    BY <2>1 DEF IsPending, ApiTypeOK
  <2>3. record.action \in Action /\ record.payload \in Payload /\ record.request_id \in Number
    BY <2>2 DEF Record
  <2>4. record.action \in DESTRUCTIVE_ACTIONS
    BY <2>1, <2>2 DEF TokenInv, Fits, Number
  <2>5. reply = Executed(record.action, record.payload, record.request_id, TokenOf(r), ending)
    BY <1>1, <1>14, AnswerIs DEF Confirm, Resumed
  <2>6. ending \in Endings(record.action) /\ Resolving(actor, r) /\ Settle(TokenOf(r), "confirmed")
    BY <1>14 DEF Confirm
  <2> HIDE DEF record
  <2>7. Fits(r, reply) /\ reply.run # None /\ reply.error # "CONFIRMATION_REPLAYED"
    BY <2>1, <2>3, <2>4, <2>5, <2>6, ExecutedFits
  <2>8. Settles(reply)
    BY <2>7 DEF Settles
  <2> QED
    BY <1>10, <2>1, <2>7, <2>8, <2>6 DEF Notes, Cancelled
<1> QED
  BY <1>3, <1>4, <1>5, <1>6, <1>7, <1>8, <1>9, <1>11, <1>12, <1>13, <1>14 DEF Serve
-----------------------------------------------------------------------------
(***************************************************************************)
(* What the history of the backend says of its tokens.                     *)
(***************************************************************************)
HistoryInv ==
  /\ \A i \in 1..Len(calls) :
       LET r == calls[i].request  reply == calls[i].reply IN
       /\ Fits(r, reply)
       /\ reply.error = "CONFIRMATION_REPLAYED" => SettledBefore(i, TokenOf(r))
       /\ Cancelled(r, reply) =>
            /\ TokenOf(r) \in 1..Len(calls) /\ ~IsPending(TokenOf(r))
            /\ \A j \in 1..Len(calls) :
                 calls[j].reply.run # None => calls[j].reply.run.under # TokenOf(r)
  /\ \A n \in Number :
       store[n] # None /\ ~IsPending(n) => SettledBefore(Len(calls) + 1, n)

LEMMA InitHistory == Init => HistoryInv
<1> SUFFICES ASSUME Init PROVE HistoryInv
  OBVIOUS
<1>1. Len(calls) = 0 /\ \A n \in Number : store[n] = None
  BY DEF Init
<1> QED
  BY <1>1 DEF HistoryInv

\* A token that is not pending stays so, unless it is a new one.
LEMMA StaysSettled ==
  ASSUME ApiTypeOK, NEW actor \in Actor, NEW r \in Request, NEW reply, Served(actor, r, reply),
         NEW t \in Number, t # Id, ~IsPending(t)
  PROVE  ~IsPending(t)'
<1>1. CASE store' = store
  BY <1>1 DEF IsPending
<1>2. CASE Proposed(actor, r, reply)
  <2>1. store'[t] = store[t]
    BY <1>2 DEF Proposed, ApiTypeOK
  <2> QED
    BY <2>1 DEF IsPending
<1>3. ASSUME NEW n, NEW status, Settled(n, status) PROVE ~IsPending(t)'
  <2>1. t # n /\ store' = [store EXCEPT ![n].status = status]
    BY <1>3 DEF Settled, Settle
  <2>2. store'[t] = store[t]
    BY <2>1 DEF ApiTypeOK
  <2> QED
    BY <2>2 DEF IsPending
<1> QED
  BY <1>1, <1>2, <1>3 DEF Served, TokenStep, RanAtOnce, Confirmed

LEMMA ServedHistory ==
  ASSUME ApiTypeOK, TokenInv, HistoryInv, NEW actor \in Actor, NEW r \in Request, NEW reply,
         Serve(actor, r), Served(actor, r, reply)
  PROVE  HistoryInv'
<1>1. /\ Id = Len(calls) + 1 /\ Id \in Number /\ Len(calls') = Id /\ Len(calls) \in Nat
      /\ calls'[Id].request = r /\ calls'[Id].reply = reply
      /\ \A i \in 1..Len(calls) : calls'[i] = calls[i]
  BY ServedSteps
<1>2. Fits(r, reply) /\ Notes(r, reply)
  BY ServeFits DEF HistoryInv
<1> PICK len \in Nat : len = Len(calls)
  BY <1>1
<1>3. ASSUME NEW i \in 1..len + 1, NEW k \in i..len + 2, NEW t, SettledBefore(i, t)
      PROVE  SettledBefore(k, t)'
  BY <1>1, <1>3 DEF SettledBefore
<1>4. ASSUME Settles(reply) PROVE SettledBefore(len + 2, TokenOf(r))'
  BY <1>1, <1>4 DEF SettledBefore, Settles
<1>5. \A n \in Number : store'[n] # None /\ ~IsPending(n)' => SettledBefore(len + 2, n)'
  <2> SUFFICES ASSUME NEW n \in Number, store'[n] # None, ~IsPending(n)'
               PROVE  SettledBefore(len + 2, n)'
    OBVIOUS
  <2>1. store'[n].status # "pending"
    BY DEF IsPending
  <2>2. CASE store'[n] = store[n]
    <3>1. store[n] # None /\ ~IsPending(n)
      BY <2>1, <2>2 DEF IsPending
    <3>2. SettledBefore(len + 1, n)
      BY <3>1 DEF HistoryInv
    <3> QED
      BY <1>3, <3>2
  <2>3. CASE n = TokenOf(r) /\ Settles(reply)
    BY <1>4, <2>3
  <2> QED
    BY <1>2, <2>1, <2>2, <2>3 DEF Notes
<1>6. ASSUME reply.error = "CONFIRMATION_REPLAYED" PROVE SettledBefore(len + 1, TokenOf(r))'
  <2>1. TokenOf(r) \in Number /\ store[TokenOf(r)] # None /\ ~IsPending(TokenOf(r))
    BY <1>2, <1>6 DEF Notes
  <2>2. SettledBefore(len + 1, TokenOf(r))
    BY <2>1 DEF HistoryInv
  <2> QED
    BY <1>3, <2>2
\* What is cancelled stays so: nothing that runs from here on runs under its token.
<1>7. ASSUME NEW t \in 1..len, ~IsPending(t), reply.run # None PROVE reply.run.under # t
  <2>1. CASE reply.run.under = Id
    BY <1>1, <2>1
  <2>2. CASE /\ \E ending \in Ending : Confirmed(actor, r, ending, reply)
             /\ reply.run.under = TokenOf(r)
    BY <1>7, <2>2 DEF Confirmed, IsLive
  <2> QED
    BY <1>7, <2>1, <2>2, ServedRuns
<1> DEFINE NoRun(t) == \A j \in 1..Len(calls) :
                         calls[j].reply.run # None => calls[j].reply.run.under # t
<1>8. ASSUME NEW t \in 1..len, ~IsPending(t), NoRun(t)
      PROVE  ~IsPending(t)' /\ NoRun(t)'
  <2>1. t \in Number /\ t # Id
    BY <1>1, <1>8, NumberAssumption DEF Number
  <2>2. ~IsPending(t)'
    BY <1>8, <2>1, StaysSettled
  <2>3. ASSUME NEW j \in 1..len + 1, calls'[j].reply.run # None
        PROVE  calls'[j].reply.run.under # t
    <3>1. CASE j = Id
      BY <1>1, <1>7, <1>8, <2>3, <3>1
    <3>2. CASE j \in 1..len
      BY <1>1, <1>8, <2>3, <3>2
    <3> QED
      BY <1>1, <3>1, <3>2
  <2> QED
    BY <1>1, <2>2, <2>3
<1>9. ASSUME Cancelled(r, reply)
      PROVE  TokenOf(r) \in 1..len /\ ~IsPending(TokenOf(r))' /\ NoRun(TokenOf(r))'
  <2>1. TokenOf(r) \in Number /\ IsPending(TokenOf(r)) /\ store'[TokenOf(r)].status # "pending"
    BY <1>2, <1>9 DEF Fits, Notes
  <2>2. TokenOf(r) \in 1..len /\ NoRun(TokenOf(r))
    BY <2>1 DEF TokenInv, IsPending, Number
  <2>3. reply.run = None
    BY <1>9 DEF Cancelled
  <2>4. NoRun(TokenOf(r))'
    BY <1>1, <2>2, <2>3
  <2> QED
    BY <2>1, <2>2, <2>4 DEF IsPending
<1> HIDE DEF NoRun
<1> DEFINE About(i) ==
      LET q == calls[i].request  reply_ == calls[i].reply IN
      /\ Fits(q, reply_)
      /\ reply_.error = "CONFIRMATION_REPLAYED" => SettledBefore(i, TokenOf(q))
      /\ Cancelled(q, reply_) => TokenOf(q) \in 1..Len(calls) /\ ~IsPending(TokenOf(q)) /\ NoRun(TokenOf(q))
<1>10. ASSUME NEW i \in 1..len PROVE About(i)'
  <2> DEFINE q == calls[i].request
  <2>1. PICK token : token = TokenOf(q)
    OBVIOUS
  <2>2. calls'[i] = calls[i] /\ TokenOf(calls[i].request) = token
    BY <1>1, <2>1
  <2>3. calls[i].reply.error = "CONFIRMATION_REPLAYED" => SettledBefore(i, token)
    BY <2>2 DEF HistoryInv
  <2>4. Cancelled(calls[i].request, calls[i].reply) =>
          token \in 1..len /\ ~IsPending(token) /\ NoRun(token)
    BY <2>2 DEF HistoryInv, NoRun
  <2>5. calls[i].reply.error = "CONFIRMATION_REPLAYED" => SettledBefore(i, token)'
    BY <1>3, <2>3
  <2>6. Cancelled(calls[i].request, calls[i].reply) => ~IsPending(token)' /\ NoRun(token)'
    BY <1>8, <2>4
  <2>7. Fits(calls[i].request, calls[i].reply)
    BY DEF HistoryInv
  <2>8. /\ SettledBefore(i, TokenOf(calls[i].request))' <=> SettledBefore(i, token)'
        /\ IsPending(TokenOf(calls[i].request))' <=> IsPending(token)'
        /\ NoRun(TokenOf(calls[i].request))' <=> NoRun(token)'
    BY <2>2
  <2> QED
    BY <1>1, <2>2, <2>4, <2>5, <2>6, <2>7, <2>8
<1>11. About(len + 1)'
  <2>1. calls'[len + 1].request = r /\ calls'[len + 1].reply = reply
    BY <1>1
  <2> QED
    BY <1>1, <1>2, <1>6, <1>9, <2>1
<1>12. \A i \in 1..Len(calls') : About(i)'
  BY <1>1, <1>10, <1>11
<1>13. (\A n \in Number :
           store[n] # None /\ ~IsPending(n) => SettledBefore(Len(calls) + 1, n))'
  BY <1>1, <1>5 DEF SettledBefore
<1> QED
  BY <1>12, <1>13 DEF HistoryInv, NoRun

LEMMA NextHistory ==
  ASSUME ApiTypeOK, TokenInv, HistoryInv, [Next]_vars PROVE HistoryInv'
<1>1. ASSUME NEW actor \in Actor, NEW r \in Request, Serve(actor, r) PROVE HistoryInv'
  BY <1>1, ServeIsServed, ServedHistory
<1>2. CASE Tick \/ UNCHANGED vars
  <2>1. calls' = calls /\ store' = store
    BY <1>2 DEF Tick, vars
  <2> QED
    BY <2>1 DEF HistoryInv, SettledBefore, IsPending
<1>3. CASE Restart
  <2>1. calls' = calls /\ \A n \in Number : store'[n] = None
    BY <1>3 DEF Restart
  <2>2. \A i \in 1..Len(calls) : TokenOf(calls[i].request) \in 1..Len(calls) =>
          TokenOf(calls[i].request) \in Number
    BY NumberAssumption DEF ApiTypeOK, Number
  <2> QED
    BY <2>1, <2>2 DEF HistoryInv, SettledBefore, IsPending
<1> QED
  BY <1>1, <1>2, <1>3 DEF Next

-----------------------------------------------------------------------------
(***************************************************************************)
(* The queue, the thread and what the clients were told.                   *)
(***************************************************************************)
SentRecord == [client : Client, request : Request, served : Number \cup {None},
               told : Outcome \cup {None}]

\* The stacks of the thread, with the signal handler on top or not.
Loop      == "serve_forever"
Handler   == "_shutdown_handler"
Idle      == {<<>>, <<Loop>>, <<Loop, Handler>>}
Serving   == {<<Loop, "app">>, <<Loop, "app", Handler>>}
Answering == {<<Loop, "answer">>, <<Loop, "answer", Handler>>}

\* A call that was handed over, and is neither served nor refused.
Pending(s, n) ==
  /\ n \in 1..Len(s) /\ s[n].served = None /\ s[n].told # Unavailable
  /\ \A m \in 1..Len(s) : s[m].served # None => m < n

ThreadInv ==
  /\ sent \in Seq(SentRecord) /\ Len(sent) <= MaxCalls
  /\ queue \in Seq(Nat) /\ Len(queue) <= Backlog /\ stopping \in BOOLEAN
  /\ stack \in Idle \cup Serving \cup Answering
  /\ stack \in Idle <=> job = None
  /\ \A k \in 1..Len(queue) : Pending(sent, queue[k]) /\ (job # None => job < queue[k])
  /\ \A j, k \in 1..Len(queue) : j < k => queue[j] < queue[k]
  /\ stack \in Serving => job \in Nat /\ Pending(sent, job)
  /\ stack \in Answering => job \in 1..Len(sent) /\ sent[job].served # None

\* What a call was told, against the answer of the backend.
Heard(call, answers) ==
  \/ call.told \in {None, Abandoned}
  \/ call.told = Unavailable /\ call.served = None
  \/ call.served # None /\ call.told = Normalized(answers[call.served].reply)

SentInv ==
  /\ \A n \in 1..Len(sent) : Planned(sent[n].request) /\ Heard(sent[n], calls)
  /\ \A n \in 1..Len(sent) :
       sent[n].served # None =>
         /\ sent[n].served \in 1..Len(calls) /\ sent[n].served <= n
         /\ calls[sent[n].served].request = sent[n].request
         /\ sent[n].told # Unavailable

ToolInv == ThreadInv /\ SentInv /\ ServedInOrder

\* What the thread can be doing, and what it does next.
LEMMA StackSteps ==
  /\ \A a, b : Append(<<a>>, b) = <<a, b>> /\ SubSeq(<<a, b>>, 1, 1) = <<a>>
  /\ \A a, b, c : Append(<<a, b>>, c) = <<a, b, c>>
  /\ \A a : SubSeq(<<a>>, 1, 0) = <<>>
<1>1. ASSUME NEW a, NEW b PROVE Append(<<a>>, b) = <<a, b>> /\ SubSeq(<<a, b>>, 1, 1) = <<a>>
  <2> DEFINE S == {a, b}
  <2>1. /\ <<a>> \in Seq(S) /\ Len(<<a>>) = 1 /\ <<a>>[1] = a
        /\ <<a, b>> \in Seq(S) /\ Len(<<a, b>>) = 2 /\ <<a, b>>[1] = a /\ <<a, b>>[2] = b
    OBVIOUS
  <2>2. a \in S /\ b \in S
    OBVIOUS
  <2> HIDE DEF S
  <2>3. Append(<<a>>, b) = <<a, b>>
    <3>1. /\ Append(<<a>>, b) \in Seq(S) /\ Len(Append(<<a>>, b)) = 2
          /\ Append(<<a>>, b)[1] = a /\ Append(<<a>>, b)[2] = b
      BY <2>1, <2>2, AppendProperties
    <3>2. \A i \in 1..2 : Append(<<a>>, b)[i] = <<a, b>>[i]
      BY <2>1, <3>1
    <3> QED
      BY <2>1, <3>1, <3>2, SeqEqual
  <2>4. SubSeq(<<a, b>>, 1, 1) = <<a>>
    <3>1. \A i \in 1..1 : <<a, b>>[i] \in S
      BY <2>1, <2>2
    <3>2. /\ SubSeq(<<a, b>>, 1, 1) \in Seq(S) /\ Len(SubSeq(<<a, b>>, 1, 1)) = 1
          /\ SubSeq(<<a, b>>, 1, 1)[1] = a
      BY <2>1, <3>1, SubSeqProperties
    <3>3. \A i \in 1..1 : SubSeq(<<a, b>>, 1, 1)[i] = <<a>>[i]
      BY <2>1, <3>2
    <3> QED
      BY <2>1, <3>2, <3>3, SeqEqual
  <2> QED
    BY <2>3, <2>4
<1>2. ASSUME NEW a, NEW b, NEW c PROVE Append(<<a, b>>, c) = <<a, b, c>>
  <2> DEFINE S == {a, b, c}
  <2>1. /\ <<a, b>> \in Seq(S) /\ Len(<<a, b>>) = 2 /\ <<a, b>>[1] = a /\ <<a, b>>[2] = b
        /\ <<a, b, c>> \in Seq(S) /\ Len(<<a, b, c>>) = 3
        /\ <<a, b, c>>[1] = a /\ <<a, b, c>>[2] = b /\ <<a, b, c>>[3] = c
    OBVIOUS
  <2>2. c \in S
    OBVIOUS
  <2> HIDE DEF S
  <2>3. /\ Append(<<a, b>>, c) \in Seq(S) /\ Len(Append(<<a, b>>, c)) = 3
        /\ Append(<<a, b>>, c)[1] = a /\ Append(<<a, b>>, c)[2] = b
        /\ Append(<<a, b>>, c)[3] = c
    BY <2>1, <2>2, AppendProperties
  <2>4. \A i \in 1..3 : Append(<<a, b>>, c)[i] = <<a, b, c>>[i]
    BY <2>1, <2>3
  <2> QED
    BY <2>1, <2>3, <2>4, SeqEqual
<1>3. ASSUME NEW a PROVE SubSeq(<<a>>, 1, 0) = <<>>
  BY SubSeqEmpty
<1> QED
  BY <1>1, <1>2, <1>3

LEMMA StackShapes ==
  ASSUME stack \in Idle \cup Serving \cup Answering
  PROVE  /\ Runs("serve_forever") => stack = <<Loop>> /\ Pop = <<>>
         /\ Runs("app") => stack = <<Loop, "app">> /\ Pop = <<Loop>>
         /\ Runs("answer") => stack = <<Loop, "answer">> /\ Pop = <<Loop>>
         /\ stack # <<>> => ~IsShutDown
         /\ stack # <<>> /\ Top # "_shutdown_handler" =>
              \/ stack \in Idle /\ Append(stack, "_shutdown_handler") \in Idle
              \/ stack \in Serving /\ Append(stack, "_shutdown_handler") \in Serving
              \/ stack \in Answering /\ Append(stack, "_shutdown_handler") \in Answering
         /\ stack \in Seq(Frame)
         /\ (\E k \in 1..Len(stack) : stack[k] \in {"app", "answer"}) <=> stack \notin Idle
<1>1. CASE stack = <<>>
  BY <1>1 DEF Runs, IsShutDown, Frame, Idle
<1>2. CASE stack = <<Loop>>
  BY <1>2, StackSteps DEF Runs, Top, Pop, IsShutDown, Frame, Idle, Loop, Handler
<1>3. CASE stack = <<Loop, Handler>>
  BY <1>3, StackSteps DEF Runs, Top, Pop, IsShutDown, Frame, Idle, Loop, Handler
<1>4. CASE stack = <<Loop, "app">>
  BY <1>4, StackSteps DEF Runs, Top, Pop, IsShutDown, Frame, Idle, Serving, Loop, Handler
<1>5. CASE stack = <<Loop, "app", Handler>>
  BY <1>5, StackSteps DEF Runs, Top, Pop, IsShutDown, Frame, Idle, Serving, Loop, Handler
<1>6. CASE stack = <<Loop, "answer">>
  BY <1>6, StackSteps DEF Runs, Top, Pop, IsShutDown, Frame, Idle, Answering, Loop, Handler
<1>7. CASE stack = <<Loop, "answer", Handler>>
  BY <1>7, StackSteps DEF Runs, Top, Pop, IsShutDown, Frame, Idle, Answering, Loop, Handler
<1> QED
  BY <1>1, <1>2, <1>3, <1>4, <1>5, <1>6, <1>7 DEF Idle, Serving, Answering

\* The three kinds of stacks, told apart.
LEMMA StackKinds ==
  /\ <<>> \in Idle /\ <<Loop>> \in Idle
  /\ <<Loop, "app">> \in Serving /\ <<Loop, "answer">> \in Answering
  /\ Idle \cap Serving = {} /\ Idle \cap Answering = {} /\ Serving \cap Answering = {}
  BY DEF Idle, Serving, Answering, Loop, Handler

\* Steps of the tools, seen by the request handling.
LEMMA ToolStepIsStep ==
  ASSUME ThreadInv, [ToolNext]_toolVars PROVE [Next]_vars
<1>1. CASE App
  <2>1. Runs("app")
    BY <1>1 DEF App
  <2>2. stack \in Serving
    BY <2>1, StackShapes, StackKinds DEF ThreadInv
  <2>3. sent[job] \in SentRecord
    BY <2>2 DEF ThreadInv, Pending
  <2>4. sent[job].client \in Actor /\ sent[job].request \in Request
    BY <2>3, ClientAssumption DEF SentRecord
  <2> QED
    BY <1>1, <2>4 DEF App, Next
<1>2. CASE Kill
  BY <1>2 DEF Kill, Next
<1>3. CASE TimePasses
  BY <1>3 DEF TimePasses, Next
<1>4. CASE \/ \E c \in Client : GiveUp(c) \/ \E r \in Request : CallTool(c, r)
           \/ Poll \/ Deliver \/ Signal \/ AwaitShutdown \/ Boot \/ UNCHANGED toolVars
  BY <1>4 DEF CallTool, GiveUp, Poll, Deliver, Signal, AwaitShutdown, Boot, toolVars
<1> QED
  BY <1>1, <1>2, <1>3, <1>4 DEF ToolNext

\* What becomes of an answer on its way is none of the failures that the client reports itself.
LEMMA NormalizedIs ==
  ASSUME NEW reply \in Reply
  PROVE  /\ Normalized(reply) \in Outcome
         /\ Normalized(reply) \notin {Unavailable, Abandoned, None}
<1> DEFINE code == IF reply.error = None THEN "UNKNOWN_ERROR" ELSE reply.error
<1>1. /\ reply.error \in ErrorCode \cup {None} /\ code \in ErrorCode \cup {"UNKNOWN_ERROR"}
      /\ reply.status \in {"ok", "pending", "rejected", "failed", "error", "crashed"}
  BY DEF Reply
<1>2. code # "BACKEND_UNAVAILABLE"
  BY <1>1 DEF ErrorCode, Ending
<1> HIDE DEF code
<1>3. Normalized(reply) \in {Told("pending_confirmation", reply.error),
        Told("rejected", reply.error), Told("ok", None), Told("failed", "NOT_JSON"),
        Told("failed", code)}
  BY <1>1 DEF Normalized, code
<1>4. Normalized(reply) \in Outcome
  <2>1. \A status \in {"ok", "pending_confirmation", "rejected", "failed"},
           what \in ErrorCode \cup {"UNKNOWN_ERROR", "NOT_JSON", None} :
             Told(status, what) \in Outcome
    BY DEF Told, Outcome
  <2> QED
    BY <1>1, <1>3, <2>1
<1>5. Normalized(reply).status # "raised" /\ Normalized(reply) # Unavailable
  BY <1>2, <1>3 DEF Told, Unavailable
<1>6. Abandoned.status = "raised"
  BY DEF Abandoned, Told
<1> QED
  BY <1>4, <1>5, <1>6, NoOutcomeAssumption

LEMMA ToldKinds ==
  /\ Unavailable \in Outcome /\ Abandoned \in Outcome
  /\ Unavailable # Abandoned /\ None # Unavailable /\ None # Abandoned
<1>1. Unavailable \in Outcome /\ Abandoned \in Outcome /\ Unavailable # Abandoned
  BY DEF Unavailable, Abandoned, Told, Outcome
<1> QED
  BY <1>1, NoOutcomeAssumption

LEMMA ToolInitInv == ToolInit => ToolInv
<1> SUFFICES ASSUME ToolInit PROVE ToolInv
  OBVIOUS
<1>1. Len(sent) = 0 /\ Len(queue) = 0 /\ Len(calls) = 0 /\ stack = <<Loop>>
  BY DEF ToolInit, Init, Loop
<1>2. ThreadInv
  <2>1. stack \in Idle /\ stack \notin Serving \cup Answering
    BY <1>1, StackKinds
  <2>2. /\ sent = <<>> /\ queue = <<>> /\ job = None
        /\ sent \in Seq(SentRecord) /\ queue \in Seq(Nat)
    BY EmptySeq DEF ToolInit
  <2>4. stopping \in BOOLEAN
    BY DEF ToolInit
  <2>3. 0 <= MaxCalls /\ 0 <= Backlog
    BY NumberAssumption, BacklogAssumption
  <2> QED
    BY <1>1, <2>1, <2>2, <2>3, <2>4 DEF ThreadInv
<1>3. SentInv /\ ServedInOrder
  BY <1>1 DEF SentInv, ServedInOrder
<1> QED
  BY <1>2, <1>3 DEF ToolInv

\* A step that leaves the calls of both sides alone keeps what relates them.
LEMMA SentStays ==
  ASSUME ToolInv, UNCHANGED <<sent, calls>> PROVE SentInv' /\ ServedInOrder'
<1>1. SentInv'
  BY DEF ToolInv, SentInv, Heard
<1>2. ServedInOrder'
  BY DEF ToolInv, ServedInOrder
<1> QED
  BY <1>1, <1>2

LEMMA CallToolInv ==
  ASSUME ToolInv, NEW c \in Client, NEW r \in Request, CallTool(c, r) PROVE ToolInv'
<1> DEFINE up == stack # <<>> /\ Len(queue) < Backlog
           new == [client |-> c, request |-> r, served |-> None,
                   told |-> IF up THEN None ELSE Unavailable]
<1> PICK n : n = Len(sent)
  OBVIOUS
<1>1. /\ n \in Nat /\ n < MaxCalls /\ sent \in Seq(SentRecord)
      /\ sent' = Append(sent, new) /\ UNCHANGED <<calls, stack, job, stopping>>
      /\ queue' = IF up THEN Append(queue, n + 1) ELSE queue
      /\ Planned(r)
  BY DEF ToolInv, ThreadInv, CallTool, Enqueued, vars
<1>2. /\ new \in SentRecord /\ new.client = c /\ new.request = r /\ new.served = None
      /\ new.told = IF up THEN None ELSE Unavailable
  BY ToldKinds DEF SentRecord
<1>3. up \in BOOLEAN /\ (up => Len(queue) < Backlog)
  OBVIOUS
<1> HIDE DEF up, new
<1>4. /\ sent' \in Seq(SentRecord) /\ Len(sent') = n + 1
      /\ \A m \in 1..n : sent'[m] = sent[m]
      /\ sent'[n + 1] = new
  BY <1>1, <1>2
<1>5. \A m \in Nat : Pending(sent, m) => Pending(sent', m)
  BY <1>1, <1>2, <1>4 DEF Pending
<1>6. up => Pending(sent', n + 1)
  BY <1>1, <1>2, <1>4, ToldKinds DEF Pending
<1>7. \A m \in Nat : Pending(sent, m) => m <= n
  BY DEF Pending
<1>8. \A k \in 1..Len(queue) : queue[k] \in Nat /\ queue[k] <= n
  BY <1>7 DEF ToolInv, ThreadInv
<1>9. job # None => job <= n
  <2>1. stack \in Serving \cup Answering => job \in 1..Len(sent)
    BY DEF ToolInv, ThreadInv, Pending
  <2> QED
    BY <1>1, <2>1 DEF ToolInv, ThreadInv
<1>10. /\ queue' \in Seq(Nat) /\ Len(queue') <= Backlog
       /\ \A k \in 1..Len(queue') : Pending(sent', queue'[k]) /\ (job # None => job < queue'[k])
       /\ \A j, k \in 1..Len(queue') : j < k => queue'[j] < queue'[k]
  <2>1. CASE ~up
    <3>1. queue' = queue
      BY <1>1, <2>1
    <3>2. /\ queue \in Seq(Nat) /\ Len(queue) <= Backlog
          /\ \A k \in 1..Len(queue) :
               queue[k] \in Nat /\ Pending(sent, queue[k]) /\ (job # None => job < queue[k])
          /\ \A j, k \in 1..Len(queue) : j < k => queue[j] < queue[k]
      BY <1>8 DEF ToolInv, ThreadInv
    <3> QED
      BY <1>5, <3>1, <3>2
  <2>2. CASE up
    <3>1. /\ queue \in Seq(Nat) /\ queue' = Append(queue, n + 1) /\ Len(queue) < Backlog
          /\ \A k \in 1..Len(queue) : Pending(sent, queue[k]) /\ (job # None => job < queue[k])
          /\ \A j, k \in 1..Len(queue) : j < k => queue[j] < queue[k]
      BY <1>1, <1>3, <2>2 DEF ToolInv, ThreadInv
    <3> PICK q : q = Len(queue)
      OBVIOUS
    <3>2. /\ q \in Nat /\ queue' \in Seq(Nat) /\ Len(queue') = q + 1
          /\ \A k \in 1..q : queue'[k] = queue[k]
          /\ queue'[q + 1] = n + 1
      BY <1>1, <3>1
    <3>3. q + 1 <= Backlog
      BY <3>1, <3>2, BacklogAssumption
    <3>4. job # None => job < n + 1
      <4>1. job # None => job \in Nat
        BY DEF ToolInv, ThreadInv, Pending
      <4> QED
        BY <1>1, <1>9, <4>1
    <3>5. ASSUME NEW k \in 1..q + 1
          PROVE  Pending(sent', queue'[k]) /\ (job # None => job < queue'[k])
      <4>1. CASE k = q + 1
        BY <1>6, <2>2, <3>2, <3>4, <4>1
      <4>2. CASE k \in 1..q
        <5>1. /\ queue'[k] = queue[k] /\ queue[k] \in Nat
              /\ Pending(sent, queue[k]) /\ (job # None => job < queue[k])
          BY <3>1, <3>2, <4>2
        <5> QED
          BY <1>5, <5>1
      <4> QED
        BY <3>2, <4>1, <4>2
    <3>6. ASSUME NEW j \in 1..q + 1, NEW k \in 1..q + 1, j < k PROVE queue'[j] < queue'[k]
      <4>1. j \in 1..q /\ queue'[j] = queue[j] /\ queue[j] <= n /\ queue[j] \in Nat /\ n \in Nat
        BY <1>1, <1>8, <3>2, <3>6
      <4>2. CASE k = q + 1
        BY <3>2, <4>1, <4>2
      <4>3. CASE k \in 1..q
        BY <3>1, <3>2, <3>6, <4>1, <4>3
      <4> QED
        BY <3>2, <4>2, <4>3
    <3> QED
      BY <3>2, <3>3, <3>5, <3>6
  <2> QED
    BY <2>1, <2>2
<1>11. ThreadInv'
  <2>1. stack \in Serving => job \in Nat /\ Pending(sent', job)
    BY <1>5 DEF ToolInv, ThreadInv
  <2>2. stack \in Answering => job \in 1..n + 1 /\ sent'[job].served # None
    BY <1>1, <1>4 DEF ToolInv, ThreadInv
  <2>3. n + 1 <= MaxCalls
    BY <1>1, NumberAssumption
  <2> QED
    BY <1>1, <1>4, <1>10, <2>1, <2>2, <2>3 DEF ToolInv, ThreadInv
<1>12. SentInv'
  <2>1. ASSUME NEW m \in 1..n
        PROVE  /\ Planned(sent'[m].request) /\ Heard(sent'[m], calls')
               /\ sent'[m].served # None =>
                    /\ sent'[m].served \in 1..Len(calls') /\ sent'[m].served <= m
                    /\ calls'[sent'[m].served].request = sent'[m].request
                    /\ sent'[m].told # Unavailable
    BY <1>1, <1>4 DEF ToolInv, SentInv, Heard
  <2>2. /\ Planned(sent'[n + 1].request) /\ Heard(sent'[n + 1], calls') /\ sent'[n + 1].served = None
    BY <1>1, <1>2, <1>4 DEF Heard
  <2> QED
    BY <1>1, <1>4, <2>1, <2>2 DEF SentInv
<1>13. ServedInOrder'
  <2>1. /\ \A m \in 1..n : sent'[m].served = sent[m].served
        /\ sent'[n + 1].served = None /\ calls' = calls /\ n \in Nat
    BY <1>1, <1>2, <1>4
  <2>2. /\ \A i \in 1..Len(calls) : \E m \in 1..n : sent[m].served = i
        /\ \A k, m \in 1..n :
             sent[k].served # None /\ sent[m].served # None /\ k < m
               => sent[k].served < sent[m].served
    BY DEF ToolInv, ServedInOrder
  <2>3. \A i \in 1..Len(calls') : \E m \in 1..n + 1 : sent'[m].served = i
    BY <2>1, <2>2
  <2>4. \A k, m \in 1..n + 1 :
          sent'[k].served # None /\ sent'[m].served # None /\ k < m
            => sent'[k].served < sent'[m].served
    BY <2>1, <2>2
  <2> QED
    BY <1>4, <2>3, <2>4 DEF ServedInOrder
<1> QED
  BY <1>11, <1>12, <1>13 DEF ToolInv

\* Other changes to what the clients were told, or to nothing at all.
LEMMA GiveUpInv ==
  ASSUME ToolInv, NEW c \in Client, GiveUp(c) PROVE ToolInv'
<1> PICK len : len = Len(sent)
  OBVIOUS
<1>1. /\ len \in Nat /\ sent \in Seq(SentRecord) /\ len <= MaxCalls
      /\ UNCHANGED <<calls, queue, stack, job, stopping>>
  BY DEF ToolInv, ThreadInv, GiveUp, vars, backend
<1> DEFINE abandoned(n) == [sent[n] EXCEPT !.told = Abandoned]
<1>2. \A n \in 1..len :
        /\ sent[n] \in SentRecord /\ abandoned(n) \in SentRecord
        /\ abandoned(n).client = sent[n].client /\ abandoned(n).request = sent[n].request
        /\ abandoned(n).served = sent[n].served /\ abandoned(n).told = Abandoned
  <2> SUFFICES ASSUME NEW n \in 1..len
               PROVE  /\ sent[n] \in SentRecord /\ abandoned(n) \in SentRecord
                      /\ abandoned(n).client = sent[n].client
                      /\ abandoned(n).request = sent[n].request
                      /\ abandoned(n).served = sent[n].served /\ abandoned(n).told = Abandoned
    OBVIOUS
  <2>1. sent[n] \in SentRecord
    BY <1>1
  <2> QED
    BY <2>1, ToldKinds DEF SentRecord
<1>3. /\ Len(sent') = len /\ sent' \in Seq(SentRecord)
      /\ \A n \in 1..len : sent'[n] \in {sent[n], abandoned(n)}
  <2>1. sent' = [n \in 1..len |-> IF n \in Waiting(c) THEN abandoned(n) ELSE sent[n]]
    BY DEF GiveUp
  <2>2. \A n \in 1..len :
          (IF n \in Waiting(c) THEN abandoned(n) ELSE sent[n]) \in SentRecord
    BY <1>2
  <2> HIDE DEF abandoned
  <2>3. sent' \in [1..len -> SentRecord]
    BY <2>1, <2>2
  <2>4. sent' \in Seq(SentRecord) /\ Len(sent') = len
    BY <1>1, <2>3
  <2>5. \A n \in 1..len : sent'[n] \in {sent[n], abandoned(n)}
    BY <2>1
  <2> QED
    BY <2>4, <2>5
<1> HIDE DEF abandoned
<1>4. \A n \in 1..len :
        /\ sent'[n].request = sent[n].request /\ sent'[n].served = sent[n].served
        /\ sent'[n].told = sent[n].told \/ sent'[n].told = Abandoned
  BY <1>2, <1>3
<1>5. \A n \in Nat : Pending(sent, n) => Pending(sent', n)
  BY <1>1, <1>3, <1>4, ToldKinds DEF Pending
<1>6. ThreadInv'
  <2>1. stack \in Serving => job \in Nat /\ Pending(sent', job)
    BY <1>5 DEF ToolInv, ThreadInv
  <2>2. stack \in Answering => job \in 1..len /\ sent'[job].served # None
    BY <1>4 DEF ToolInv, ThreadInv
  <2>3. \A k \in 1..Len(queue) : Pending(sent', queue[k])
    BY <1>5 DEF ToolInv, ThreadInv
  <2> QED
    BY <1>1, <1>3, <2>1, <2>2, <2>3 DEF ToolInv, ThreadInv
<1>7. SentInv'
  <2>1. \A n \in 1..len : Planned(sent'[n].request) /\ Heard(sent'[n], calls')
    BY <1>1, <1>4 DEF ToolInv, SentInv, Heard
  <2>2. \A n \in 1..len : sent'[n].served # None =>
          /\ sent'[n].served \in 1..Len(calls) /\ sent'[n].served <= n
          /\ calls[sent'[n].served].request = sent'[n].request
          /\ sent'[n].told # Unavailable
    BY <1>4, ToldKinds DEF ToolInv, SentInv
  <2> QED
    BY <1>1, <1>3, <2>1, <2>2 DEF SentInv
<1>8. ServedInOrder'
  BY <1>1, <1>3, <1>4 DEF ToolInv, ServedInOrder
<1> QED
  BY <1>6, <1>7, <1>8 DEF ToolInv

LEMMA PollInv ==
  ASSUME ToolInv, Poll PROVE ToolInv'
<1>1. /\ stack = <<Loop>> /\ Pop = <<>> /\ stack \in Idle /\ job = None
      /\ UNCHANGED <<sent, calls>>
  BY StackShapes, StackKinds DEF ToolInv, ThreadInv, Poll, vars
<1>2. SentInv' /\ ServedInOrder'
  BY <1>1, SentStays
<1>3. CASE stopping
  <2>1. /\ stack' \in Idle /\ stack' \notin Serving /\ stack' \notin Answering
        /\ UNCHANGED <<queue, job>>
    BY <1>1, <1>3, StackKinds DEF Poll
  <2>2. stopping' \in BOOLEAN
    BY <1>3 DEF Poll
  <2>3. ThreadInv'
    BY <1>1, <2>1, <2>2 DEF ToolInv, ThreadInv
  <2> QED
    BY <1>2, <2>3 DEF ToolInv
<1>4. CASE ~stopping
  <2>1. /\ queue # <<>> /\ job' = Head(queue) /\ queue' = Tail(queue)
        /\ stack' = Append(stack, "app") /\ UNCHANGED stopping
    BY <1>4 DEF Poll
  <2>2. stack' \in Serving /\ stack' \notin Idle /\ stack' \notin Answering
    BY <1>1, <2>1, StackSteps, StackKinds
  <2> PICK q : q = Len(queue)
    OBVIOUS
  <2>3. /\ queue \in Seq(Nat) /\ q \in Nat /\ q <= Backlog /\ stopping \in BOOLEAN
        /\ sent \in Seq(SentRecord) /\ Len(sent) <= MaxCalls
        /\ \A k \in 1..q : queue[k] \in Nat /\ Pending(sent, queue[k])
        /\ \A j, k \in 1..q : j < k => queue[j] < queue[k]
    BY DEF ToolInv, ThreadInv
  <2>4. /\ queue' \in Seq(Nat) /\ Len(queue') = q - 1 /\ q >= 1
        /\ job' = queue[1]
        /\ \A k \in 1..q - 1 : queue'[k] = queue[k + 1]
    BY <2>1, <2>3, HeadTailProperties, EmptySeq
  <2>5. job' \in Nat /\ Pending(sent, job') /\ job' # None
    BY <2>3, <2>4, NoneAssumption
  <2>6. \A k \in 1..q - 1 : Pending(sent, queue'[k]) /\ job' < queue'[k]
    BY <2>3, <2>4
  <2>7. \A j, k \in 1..q - 1 : j < k => queue'[j] < queue'[k]
    BY <2>3, <2>4
  <2>8. Len(queue') <= Backlog
    BY <2>3, <2>4, BacklogAssumption
  <2>9. ThreadInv'
    BY <1>1, <2>1, <2>2, <2>3, <2>4, <2>5, <2>6, <2>7, <2>8 DEF ThreadInv
  <2> QED
    BY <1>2, <2>9 DEF ToolInv
<1> QED
  BY <1>3, <1>4

\* The signal handler, and a process that starts.
LEMMA SignalsInv ==
  ASSUME ToolInv, Signal \/ AwaitShutdown \/ Boot \/ TimePasses \/ UNCHANGED toolVars
  PROVE  ToolInv'
<1>1. UNCHANGED <<sent, calls, queue, job>>
  BY DEF Signal, AwaitShutdown, Boot, TimePasses, Tick, vars, backend, toolVars
<1>2. /\ stack' \in Idle <=> stack \in Idle
      /\ stack' \in Serving <=> stack \in Serving
      /\ stack' \in Answering <=> stack \in Answering
      /\ stack' \in Idle \cup Serving \cup Answering
  <2>0. stack \in Idle \cup Serving \cup Answering
    BY DEF ToolInv, ThreadInv
  <2>1. CASE UNCHANGED stack
    BY <2>0, <2>1
  <2>2. CASE Signal
    <3>1. stack # <<>> /\ Top # "_shutdown_handler" /\ stack' = Append(stack, "_shutdown_handler")
      BY <2>2 DEF Signal
    <3> QED
      BY <2>0, <3>1, StackShapes, StackKinds
  <2>3. CASE AwaitShutdown
    <3>1. stack # <<>> /\ stack' = IF IsShutDown THEN Pop ELSE stack
      BY <2>3 DEF AwaitShutdown, Runs
    <3>2. stack' = stack
      BY <2>0, <3>1, StackShapes
    <3> QED
      BY <2>0, <3>2
  <2>4. CASE Boot
    <3>1. stack = <<>> /\ stack' = <<Loop>>
      BY <2>4 DEF Boot, Loop
    <3> QED
      BY <3>1, StackKinds
  <2> QED
    BY <2>1, <2>2, <2>3, <2>4 DEF TimePasses, backend, toolVars
<1>3. stopping' \in BOOLEAN
  BY DEF Signal, AwaitShutdown, Boot, TimePasses, backend, toolVars, ToolInv, ThreadInv
<1>4. ThreadInv'
  BY <1>1, <1>2, <1>3 DEF ToolInv, ThreadInv
<1> QED
  BY <1>1, <1>4, SentStays DEF ToolInv

LEMMA KillInv ==
  ASSUME ToolInv, Kill PROVE ToolInv'
<1>1. /\ stack' = <<>> /\ queue' = <<>> /\ job' = None /\ UNCHANGED <<sent, calls>>
      /\ stack' \in Idle /\ stack' \notin Serving /\ stack' \notin Answering
  BY StackKinds DEF Kill, Restart
<1>2. queue' \in Seq(Nat) /\ Len(queue') = 0 /\ 0 <= Backlog
  BY <1>1, EmptySeq, BacklogAssumption
<1>3. stopping' \in BOOLEAN
  BY DEF Kill
<1>4. ThreadInv'
  BY <1>1, <1>2, <1>3 DEF ToolInv, ThreadInv
<1> QED
  BY <1>1, <1>4, SentStays DEF ToolInv

\* The call on top of the stack is served: the next number goes to a call no older than it.
LEMMA AppInv ==
  ASSUME ToolInv, ApiTypeOK, App PROVE ToolInv'
<1> PICK len : len = Len(sent)
  OBVIOUS
<1> PICK id : id = Id
  OBVIOUS
<1>1. /\ stack = <<Loop, "app">> /\ Pop = <<Loop>> /\ stack \in Serving
      /\ UNCHANGED <<queue, job, stopping>>
  BY StackShapes, StackKinds DEF ToolInv, ThreadInv, App
<1>2. /\ job \in Nat /\ Pending(sent, job) /\ job # None
      /\ len \in Nat /\ sent \in Seq(SentRecord) /\ len <= MaxCalls
  BY <1>1, NoneAssumption DEF ToolInv, ThreadInv
<1>3. /\ job \in 1..len /\ sent[job] \in SentRecord /\ sent[job].served = None
      /\ \A m \in 1..len : sent[m].served # None => m < job
  BY <1>2 DEF Pending
<1>4. sent[job].client \in Actor /\ sent[job].request \in Request
  BY <1>3, ClientAssumption DEF SentRecord
<1>5. PICK reply \in Reply : Served(sent[job].client, sent[job].request, reply)
  BY <1>4, ServeIsServed DEF App
<1>6. /\ id = Len(calls) + 1 /\ Len(calls') = id /\ Len(calls) \in Nat /\ id \in Number
      /\ calls'[id].request = sent[job].request
      /\ \A i \in 1..Len(calls) : calls'[i] = calls[i]
  BY <1>4, <1>5, ServedSteps
<1> DEFINE now_served == [sent[job] EXCEPT !.served = id]
<1>7. /\ now_served \in SentRecord /\ now_served.request = sent[job].request
      /\ now_served.served = id /\ now_served.told = sent[job].told
  BY <1>3, <1>6 DEF SentRecord
<1>8. sent' = [sent EXCEPT ![job] = now_served]
  BY DEF App
<1> HIDE DEF now_served
<1>9. /\ sent' \in Seq(SentRecord) /\ Len(sent') = len /\ sent'[job] = now_served
      /\ \A m \in 1..len : m # job => sent'[m] = sent[m]
  BY <1>2, <1>3, <1>7, <1>8
<1>10. id # None
  BY <1>6, NoneAssumption DEF Number
<1> DEFINE Maps(n, i) == sent[n].served = i
<1>0. \A i \in 1..Len(calls) : \E n \in 1..len : Maps(n, i)
  BY DEF ToolInv, ServedInOrder
<1>11. id <= job
  <2>1. CASE Len(calls) = 0
    BY <1>3, <1>6, <2>1
  <2>2. CASE Len(calls) # 0
    <3>1. PICK n \in 1..len : sent[n].served = Len(calls)
      BY <1>0, <1>6, <2>2
    <3>2. sent[n].served # None
      BY <1>6, <3>1, NoneAssumption
    <3>3. n < job /\ Len(calls) <= n
      BY <1>3, <3>1, <3>2 DEF ToolInv, SentInv
    <3> QED
      BY <1>2, <1>6, <3>3
  <2> QED
    BY <2>1, <2>2
<1>12. ThreadInv'
  <2>1. stack' \in Answering /\ stack' \notin Idle /\ stack' \notin Serving
    BY <1>1, StackSteps, StackKinds DEF App
  <2>2. \A k \in 1..Len(queue) : Pending(sent, queue[k]) /\ job < queue[k] /\ queue[k] \in Nat
    BY <1>2 DEF ToolInv, ThreadInv
  <2>3. ASSUME NEW k \in 1..Len(queue) PROVE Pending(sent', queue[k])
    <3>1. /\ queue[k] \in 1..len /\ queue[k] # job
          /\ sent[queue[k]].served = None /\ sent[queue[k]].told # Unavailable
          /\ \A m \in 1..len : sent[m].served # None => m < queue[k]
      BY <1>2, <2>2 DEF Pending
    <3>2. sent'[queue[k]] = sent[queue[k]]
      BY <1>9, <3>1
    <3>3. \A m \in 1..len : sent'[m].served # None => m < queue[k]
      BY <1>9, <2>2, <3>1
    <3> QED
      BY <1>9, <3>1, <3>2, <3>3 DEF Pending
  <2>4. job \in 1..len /\ sent'[job].served # None
    BY <1>3, <1>7, <1>9, <1>10
  <2> QED
    BY <1>1, <1>2, <1>9, <2>1, <2>2, <2>3, <2>4 DEF ToolInv, ThreadInv
<1>13. SentInv'
  <2>1. ASSUME NEW m \in 1..len, m # job
        PROVE  /\ Planned(sent'[m].request) /\ Heard(sent'[m], calls')
               /\ sent'[m].served # None =>
                    /\ sent'[m].served \in 1..id /\ sent'[m].served <= m
                    /\ calls'[sent'[m].served].request = sent'[m].request
                    /\ sent'[m].told # Unavailable
    <3>1. sent'[m] = sent[m] /\ Planned(sent[m].request) /\ Heard(sent[m], calls)
      BY <1>9, <2>1 DEF ToolInv, SentInv
    <3>2. sent[m].served # None =>
            /\ sent[m].served \in 1..Len(calls) /\ sent[m].served <= m
            /\ calls[sent[m].served].request = sent[m].request
            /\ sent[m].told # Unavailable
      BY DEF ToolInv, SentInv
    <3>3. Heard(sent[m], calls')
      BY <1>6, <3>1, <3>2 DEF Heard
    <3> QED
      BY <1>6, <3>1, <3>2, <3>3
  <2>2. /\ Planned(sent'[job].request) /\ Heard(sent'[job], calls')
        /\ sent'[job].told # Unavailable
    <3>1. sent[job].told # Unavailable /\ Heard(sent[job], calls) /\ Planned(sent[job].request)
      BY <1>2, <1>3 DEF ToolInv, SentInv, Pending
    <3>2. sent[job].told \in {None, Abandoned}
      BY <1>3, <3>1 DEF Heard
    <3> QED
      BY <1>7, <1>9, <3>1, <3>2 DEF Heard
  <2>3. /\ sent'[job].served = id /\ id \in 1..id /\ id <= job
        /\ calls'[id].request = sent'[job].request
    BY <1>6, <1>7, <1>9, <1>11
  <2> QED
    BY <1>6, <1>9, <2>1, <2>2, <2>3 DEF SentInv
<1>14. ServedInOrder'
  <2>1. ASSUME NEW i \in 1..id PROVE \E n \in 1..len : sent'[n].served = i
    <3>1. CASE i = id
      BY <1>3, <1>7, <1>9, <3>1
    <3>2. CASE i # id
      <4>1. PICK n \in 1..len : sent[n].served = i
        BY <1>0, <1>6, <3>2
      <4>2. n # job
        BY <1>3, <4>1, NoneAssumption
      <4> QED
        BY <1>9, <4>1, <4>2
    <3> QED
      BY <3>1, <3>2
  <2>2. ASSUME NEW m \in 1..len, NEW n \in 1..len,
               sent'[m].served # None, sent'[n].served # None, m < n
        PROVE  sent'[m].served < sent'[n].served
    <3>1. CASE n = job
      <4>1. sent'[m] = sent[m] /\ sent[m].served \in 1..Len(calls)
        BY <1>9, <2>2, <3>1 DEF ToolInv, SentInv
      <4> QED
        BY <1>6, <1>7, <1>9, <3>1, <4>1
    <3>2. CASE n # job
      <4>1. sent'[n] = sent[n]
        BY <1>9, <3>2
      <4>2. m # job
        BY <1>2, <1>3, <2>2, <4>1
      <4>3. sent'[m] = sent[m]
        BY <1>9, <4>2
      <4> QED
        BY <2>2, <4>1, <4>3 DEF ToolInv, ServedInOrder
    <3> QED
      BY <3>1, <3>2
  <2> QED
    BY <1>6, <1>9, <2>1, <2>2 DEF ServedInOrder
<1> QED
  BY <1>12, <1>13, <1>14 DEF ToolInv

LEMMA DeliverInv ==
  ASSUME ToolInv, ApiTypeOK, Deliver PROVE ToolInv'
<1> PICK len : len = Len(sent)
  OBVIOUS
<1>1. /\ stack = <<Loop, "answer">> /\ Pop = <<Loop>> /\ stack \in Answering
      /\ UNCHANGED <<queue, stopping, calls>> /\ job' = None /\ stack' = <<Loop>>
  BY StackShapes, StackKinds DEF ToolInv, ThreadInv, Deliver, vars
<1>2. /\ len \in Nat /\ sent \in Seq(SentRecord) /\ len <= MaxCalls
      /\ job \in 1..len /\ sent[job].served # None
  BY <1>1 DEF ToolInv, ThreadInv
<1> DEFINE answer == Normalized(calls[sent[job].served].reply)
           told_now == [sent[job] EXCEPT !.told = answer]
<1>3. sent[job].served \in 1..Len(calls) /\ sent[job] \in SentRecord
  BY <1>2 DEF ToolInv, SentInv
<1>4. answer \in Outcome /\ answer # Unavailable
  <2>1. calls[sent[job].served] \in Call
    BY <1>3 DEF ApiTypeOK
  <2>2. calls[sent[job].served].reply \in Reply
    BY <2>1 DEF Call
  <2> QED
    BY <2>2, NormalizedIs
<1>5. sent' = sent \/ sent' = [sent EXCEPT ![job] = told_now]
  BY DEF Deliver
<1> HIDE DEF answer
<1>6. /\ told_now \in SentRecord /\ told_now.request = sent[job].request
      /\ told_now.served = sent[job].served /\ told_now.told = answer
  BY <1>3, <1>4 DEF SentRecord
<1> HIDE DEF told_now
<1>7. /\ sent' \in Seq(SentRecord) /\ Len(sent') = len
      /\ \A m \in 1..len : m # job => sent'[m] = sent[m]
      /\ sent'[job] \in {sent[job], told_now}
  BY <1>2, <1>5, <1>6
<1>8. ThreadInv'
  <2>1. stack' \in Idle /\ stack' \notin Answering /\ stack' \notin Serving
    BY <1>1, StackKinds
  <2>2. ASSUME NEW n \in Nat, Pending(sent, n) PROVE Pending(sent', n)
    <3>1. n # job /\ n \in 1..len
      BY <1>2, <2>2 DEF Pending
    <3>2. \A m \in 1..len : sent'[m].served = sent[m].served
      BY <1>6, <1>7
    <3> QED
      BY <1>2, <1>7, <2>2, <3>1, <3>2 DEF Pending
  <2>3. \A k \in 1..Len(queue) : queue[k] \in Nat /\ Pending(sent', queue[k])
    BY <2>2 DEF ToolInv, ThreadInv
  <2> QED
    BY <1>1, <1>2, <1>7, <2>1, <2>3 DEF ToolInv, ThreadInv
<1>9. SentInv'
  <2>1. ASSUME NEW m \in 1..len
        PROVE  /\ Planned(sent'[m].request) /\ Heard(sent'[m], calls)
               /\ sent'[m].served = sent[m].served /\ sent'[m].request = sent[m].request
               /\ sent'[m].served # None => sent'[m].told # Unavailable
    <3>1. CASE sent'[m] = sent[m]
      BY <3>1 DEF ToolInv, SentInv
    <3>2. CASE m = job /\ sent'[m] = told_now
      <4>1. Planned(sent[job].request)
        BY <1>2 DEF ToolInv, SentInv
      <4> QED
        BY <1>2, <1>4, <1>6, <3>2, <4>1 DEF Heard, answer
    <3> QED
      BY <1>7, <3>1, <3>2
  <2>2. \A m \in 1..len : sent[m].served # None =>
          /\ sent[m].served \in 1..Len(calls) /\ sent[m].served <= m
          /\ calls[sent[m].served].request = sent[m].request
    BY DEF ToolInv, SentInv
  <2> QED
    BY <1>1, <1>7, <2>1, <2>2 DEF SentInv
<1>10. ServedInOrder'
  <2>1. \A m \in 1..len : sent'[m].served = sent[m].served
    BY <1>6, <1>7
  <2> QED
    BY <1>1, <1>2, <1>7, <2>1 DEF ToolInv, ServedInOrder
<1> QED
  BY <1>8, <1>9, <1>10 DEF ToolInv

LEMMA NextToolInv == ToolInv /\ ApiTypeOK /\ [ToolNext]_toolVars => ToolInv'
<1> SUFFICES ASSUME ToolInv, ApiTypeOK, [ToolNext]_toolVars PROVE ToolInv'
  OBVIOUS
<1>1. ASSUME NEW c \in Client, GiveUp(c) PROVE ToolInv'
  BY <1>1, GiveUpInv
<1>2. ASSUME NEW c \in Client, NEW r \in Request, CallTool(c, r) PROVE ToolInv'
  BY <1>2, CallToolInv
<1> QED
  BY <1>1, <1>2, PollInv, AppInv, DeliverInv, SignalsInv, KillInv DEF ToolNext

-----------------------------------------------------------------------------
(***************************************************************************)
(* The theorems.                                                           *)
(***************************************************************************)
\* Whatever the clients, the queue and the signals do, the backend behind them is the AdminApi of
\* the other proofs, whose theorems hold of every ToolSpec.
THEOREM ApiInside == ToolSpec => Spec
<1>1. ToolInit => Init
  BY DEF ToolInit
<1>2. ApiTypeOK /\ ToolInv /\ [ToolNext]_toolVars => (ApiTypeOK /\ ToolInv)' /\ [Next]_vars
  BY ToolStepIsStep, NextType, NextToolInv DEF ToolInv
<1> QED
  BY <1>1, <1>2, InitType, ToolInitInv, PTL DEF ToolSpec, Spec

LEMMA AlwaysToolInv ==
  ToolSpec => [](ApiTypeOK /\ TokenInv /\ RanAsConfirmed /\ HistoryInv /\ ToolInv)
<1>1. ToolInit => ApiTypeOK /\ TokenInv /\ RanAsConfirmed /\ HistoryInv /\ ToolInv
  BY InitType, InitTokens, InitHistory, ToolInitInv DEF ToolInit
<1>2. /\ ApiTypeOK /\ TokenInv /\ RanAsConfirmed /\ HistoryInv /\ ToolInv /\ [ToolNext]_toolVars
      => (ApiTypeOK /\ TokenInv /\ RanAsConfirmed /\ HistoryInv /\ ToolInv)'
  <2> SUFFICES ASSUME ApiTypeOK, TokenInv, RanAsConfirmed, HistoryInv, ToolInv,
                      [ToolNext]_toolVars
               PROVE  (ApiTypeOK /\ TokenInv /\ RanAsConfirmed /\ HistoryInv /\ ToolInv)'
    OBVIOUS
  <2>1. [Next]_vars
    BY ToolStepIsStep DEF ToolInv
  <2> QED
    BY <2>1, NextType, NextTokens, NextHistory, NextToolInv
<1> QED
  BY <1>1, <1>2, PTL DEF ToolSpec

\* backend_client.py:444-489, ocserv_admin_api.py:557.  Calls take effect in the order they were
\* made, each of them once, those that were given up among them (ServedInOrder).
THEOREM CallsInOrder == ToolSpec => []ServedInOrder
<1>1. ToolInv => ServedInOrder
  BY DEF ToolInv
<1> QED
  BY <1>1, AlwaysToolInv, PTL

\* The answer that a client heard is the one to its own request.
LEMMA HeardFits ==
  ASSUME ApiTypeOK, HistoryInv, ToolInv, NEW n \in 1..Len(sent), sent[n].served # None
  PROVE  /\ sent[n].served \in 1..Len(calls)
         /\ calls[sent[n].served].request = sent[n].request
         /\ calls[sent[n].served].reply \in Reply
         /\ Fits(sent[n].request, calls[sent[n].served].reply)
<1>1. sent[n].served \in 1..Len(calls) /\ calls[sent[n].served].request = sent[n].request
  BY DEF ToolInv, SentInv
<1>2. calls[sent[n].served] \in Call
  BY <1>1 DEF ApiTypeOK
<1>3. Fits(sent[n].request, calls[sent[n].served].reply)
  BY <1>1 DEF HistoryInv
<1> QED
  BY <1>1, <1>2, <1>3 DEF Call

\* What each kind of answer becomes.
LEMMA NormalizedSays ==
  ASSUME NEW reply \in Reply
  PROVE  LET told == Normalized(reply) IN
         /\ told.status = "ok" <=> reply.status = "ok"
         /\ told.code = "CONFIRMATION_REPLAYED" => reply.error = "CONFIRMATION_REPLAYED"
         /\ told = Told("failed", "UNKNOWN_ERROR") =>
              reply.status \in {"failed", "error"} /\ reply.error = None
<1>1. /\ reply.error \in ErrorCode \cup {None}
      /\ reply.status \in {"ok", "pending", "rejected", "failed", "error", "crashed"}
  BY DEF Reply
<1>2. /\ "UNKNOWN_ERROR" \notin ErrorCode /\ "CONFIRMATION_REPLAYED" \in ErrorCode
  BY DEF ErrorCode, Ending
<1>3. None # "CONFIRMATION_REPLAYED"
  BY <1>2, NoneAssumption
<1>4. CASE reply.status = "pending"
  <2>1. Normalized(reply) = Told("pending_confirmation", reply.error)
    BY <1>4 DEF Normalized
  <2> QED
    BY <1>4, <2>1 DEF Told
<1>5. CASE reply.status = "rejected"
  <2>1. Normalized(reply) = Told("rejected", reply.error)
    BY <1>5 DEF Normalized
  <2> QED
    BY <1>5, <2>1 DEF Told
<1>6. CASE reply.status = "ok"
  <2>1. Normalized(reply) = Told("ok", None)
    BY <1>6 DEF Normalized
  <2> QED
    BY <1>3, <1>6, <2>1 DEF Told
<1>7. CASE reply.status = "crashed"
  <2>1. Normalized(reply) = Told("failed", "NOT_JSON")
    BY <1>7 DEF Normalized
  <2> QED
    BY <1>7, <2>1 DEF Told
<1>8. CASE reply.status \in {"failed", "error"}
  <2>1. Normalized(reply) =
          Told("failed", IF reply.error = None THEN "UNKNOWN_ERROR" ELSE reply.error)
    BY <1>8 DEF Normalized
  <2>2. CASE reply.error = None
    BY <1>8, <2>1, <2>2 DEF Told
  <2>3. CASE reply.error # None
    BY <1>1, <1>2, <1>8, <2>1, <2>3 DEF Told
  <2> QED
    BY <2>2, <2>3
<1> QED
  BY <1>1, <1>4, <1>5, <1>6, <1>7, <1>8

LEMMA HeardIsTrue ==
  ASSUME ApiTypeOK, HistoryInv, ToolInv PROVE ToldTheTruth
<1> SUFFICES ASSUME NEW n \in 1..Len(sent), sent[n].told # None
             PROVE  /\ sent[n].told.status = "ok" =>
                         RunOf(n) # None /\ (RunOf(n).ending = "ok" \/ RunOf(n).action = "reload_service")
                    /\ sent[n].told.status \in {"failed", "rejected", "pending_confirmation"} =>
                         RunOf(n) = None \/ RunOf(n).ending # "ok"
                    /\ sent[n].told = Unavailable => sent[n].served = None
                    /\ sent[n].told.code = "CONFIRMATION_REPLAYED" =>
                         SettledBefore(sent[n].served, TokenOf(sent[n].request))
  BY DEF ToldTheTruth
<1>1. Heard(sent[n], calls) /\ (sent[n].served # None => sent[n].told # Unavailable)
  BY DEF ToolInv, SentInv
<1>0. /\ Unavailable.status = "failed" /\ Unavailable.code = "BACKEND_UNAVAILABLE"
      /\ Abandoned.status = "raised" /\ Abandoned.code = "timed out"
  BY DEF Unavailable, Abandoned, Told
<1>2. CASE sent[n].told = Unavailable /\ sent[n].served = None
  <2>1. RunOf(n) = None
    BY <1>2 DEF RunOf
  <2> QED
    BY <1>0, <1>2, <2>1
<1>3. CASE sent[n].told = Abandoned
  BY <1>0, <1>3, ToldKinds
<1>4. CASE sent[n].served # None /\ sent[n].told = Normalized(calls[sent[n].served].reply)
  <2> DEFINE reply == calls[sent[n].served].reply
  <2>1. /\ reply \in Reply /\ Fits(sent[n].request, reply) /\ RunOf(n) = reply.run
        /\ sent[n].served \in 1..Len(calls)
        /\ calls[sent[n].served].request = sent[n].request
    BY <1>4, HeardFits DEF RunOf
  <2>2. reply.error = "CONFIRMATION_REPLAYED" =>
          SettledBefore(sent[n].served, TokenOf(sent[n].request))
    BY <2>1 DEF HistoryInv
  <2>3. sent[n].told = Normalized(reply)
    BY <1>4
  <2> HIDE DEF reply
  <2>4. /\ sent[n].told.status = "ok" <=> reply.status = "ok"
        /\ sent[n].told.code = "CONFIRMATION_REPLAYED" => reply.error = "CONFIRMATION_REPLAYED"
    BY <2>1, <2>3, NormalizedSays
  <2> QED
    BY <1>1, <1>4, <2>1, <2>2, <2>4 DEF Fits
<1> QED
  BY <1>1, <1>2, <1>3, <1>4 DEF Heard

\* backend_client.py:444-489.  What a client is told is what happened to the request behind it,
\* whichever calls were given up or cut off by a crash (ToldTheTruth).
THEOREM ClientsHearTheTruth == ToolSpec => []ToldTheTruth
<1>1. ApiTypeOK /\ HistoryInv /\ ToolInv => ToldTheTruth
  BY HeardIsTrue
<1> QED
  BY <1>1, AlwaysToolInv, PTL

LEMMA CancelledIsHeeded ==
  ASSUME ApiTypeOK, HistoryInv, ToolInv PROVE CancelHeeded
<1> SUFFICES ASSUME NEW n \in 1..Len(sent), sent[n].request.action = "confirm_action",
                    sent[n].told = Told("failed", "UNKNOWN_ERROR")
             PROVE  /\ sent[n].request.payload.decision = "cancel"
                    /\ \A i \in 1..Len(calls) :
                         calls[i].reply.run # None =>
                           calls[i].reply.run.under # TokenOf(sent[n].request)
  BY DEF CancelHeeded
<1>1. Told("failed", "UNKNOWN_ERROR") \in Outcome
  BY DEF Told, Outcome
<1>2. sent[n].told \notin {None, Abandoned, Unavailable}
  <2>1. /\ Told("failed", "UNKNOWN_ERROR") # Abandoned
        /\ Told("failed", "UNKNOWN_ERROR") # Unavailable
    BY DEF Told, Abandoned, Unavailable
  <2> QED
    BY <1>1, <2>1, NoOutcomeAssumption
<1>3. sent[n].served # None /\ sent[n].told = Normalized(calls[sent[n].served].reply)
  BY <1>2 DEF ToolInv, SentInv, Heard
<1> DEFINE reply == calls[sent[n].served].reply
<1>4. /\ reply \in Reply /\ Fits(sent[n].request, reply)
      /\ sent[n].served \in 1..Len(calls) /\ calls[sent[n].served].request = sent[n].request
  BY <1>3, HeardFits
<1>5. reply.status \in {"failed", "error"} /\ reply.error = None
  BY <1>3, <1>4, NormalizedSays
<1>6. Cancelled(sent[n].request, reply)
  <2> HIDE DEF reply
  <2>1. reply.status = "failed"
    BY <1>4, <1>5 DEF Fits
  <2>2. reply.run # None =>
          reply.run.action = "validate_config" /\ reply.run.action \in DESTRUCTIVE_ACTIONS
    BY <1>4, <1>5, <2>1 DEF Fits
  <2>3. reply.run = None
    BY <2>2 DEF DESTRUCTIVE_ACTIONS
  <2> QED
    BY <1>5, <2>1, <2>3 DEF Cancelled
<1>7. sent[n].request.payload.decision = "cancel"
  BY <1>4, <1>6 DEF Fits
<1>8. Cancelled(calls[sent[n].served].request, calls[sent[n].served].reply)
  BY <1>4, <1>6
<1> QED
  BY <1>4, <1>7, <1>8 DEF HistoryInv

\* src/docs/development-plan.xml:110.  A client that heard that its token is cancelled never sees
\* the action run, whatever it had confirmed before and given up (CancelHeeded).
THEOREM CancellationHeeded == ToolSpec => []CancelHeeded
<1>1. ApiTypeOK /\ HistoryInv /\ ToolInv => CancelHeeded
  BY CancelledIsHeeded
<1> QED
  BY <1>1, AlwaysToolInv, PTL

\* The two tables of fields: a planned form lacks nothing that the backend requires, but where it
\* gives 0 or false; and it names no other operator.
LEMMA PlannedIsComplete ==
  ASSUME NEW r \in Request, Planned(r)
  PROVE  /\ ~Complete(r) => \E field \in required_fields[r.action] : r.payload[field] = Zero
         /\ r.payload.confirmation_actor_id = None
<1>1. /\ r.action \in ALLOWED_ACTIONS /\ r.payload \in Payload
      /\ Present(r.payload) \subseteq ACTION_FIELDS[r.action]
      /\ \A field \in REQUIRED_ACTION_FIELDS[r.action] :
           r.payload[field] \notin {None, Null, Blank}
      /\ {r.payload.force, r.payload.routes} \subseteq {None, Proper}
  BY RequestAssumption DEF Planned, RequestType
<1>2. DOMAIN required_fields =
        {"create_user", "update_user_ip", "create_group", "disconnect_session", "disable_user",
         "disable_group_users", "delete_user", "delete_group", "assign_group",
         "rollback_last_change", "confirm_action"}
  BY DEF required_fields
<1>3. \A a \in DOMAIN required_fields \cap ALLOWED_ACTIONS :
        required_fields[a] \subseteq REQUIRED_ACTION_FIELDS[a]
  <2> SUFFICES ASSUME NEW a \in DOMAIN required_fields, a \in ALLOWED_ACTIONS
               PROVE  required_fields[a] \subseteq REQUIRED_ACTION_FIELDS[a]
    OBVIOUS
  <2>1. CASE a = "create_user"
    BY <2>1 DEF required_fields, REQUIRED_ACTION_FIELDS, ACTION_FIELDS
  <2>2. CASE a = "delete_user"
    BY <2>2 DEF required_fields, REQUIRED_ACTION_FIELDS, ACTION_FIELDS
  <2>3. CASE a = "create_group"
    BY <2>3 DEF required_fields, REQUIRED_ACTION_FIELDS, ACTION_FIELDS
  <2>4. CASE a = "confirm_action"
    BY <2>4 DEF required_fields, REQUIRED_ACTION_FIELDS, ACTION_FIELDS
  <2>5. CASE a \in {"update_user_ip", "disconnect_session", "disable_user",
                    "disable_group_users", "delete_group", "assign_group",
                    "rollback_last_change"}
    BY <2>5 DEF required_fields, REQUIRED_ACTION_FIELDS, ACTION_FIELDS
  <2> QED
    BY <1>2, <2>1, <2>2, <2>3, <2>4, <2>5
<1>4. {"confirmed", "confirmation_actor_id"} \cap ACTION_FIELDS[r.action] = {}
  BY <1>1 DEF ACTION_FIELDS, ALLOWED_ACTIONS, READ_ACTIONS, DESTRUCTIVE_ACTIONS
<1>5. r.payload.confirmed = None /\ r.payload.confirmation_actor_id = None
  BY <1>1, <1>4 DEF Present, Payload
<1>6. ASSUME r.action \in DOMAIN required_fields,
             NEW field \in required_fields[r.action], r.payload[field] \in Falsy
      PROVE  r.payload[field] = Zero
  BY <1>1, <1>3, <1>6 DEF Falsy
<1>7. r.action = "delete_user" => r.payload.force \in {None, Proper}
  BY <1>1
<1> QED
  BY <1>1, <1>5, <1>6, <1>7 DEF Complete

\* What the backend serves was planned by an MCP server.
LEMMA ServedWasPlanned ==
  ASSUME ApiTypeOK, HistoryInv, ToolInv, NEW i \in 1..Len(calls)
  PROVE  /\ calls[i].request \in Request /\ Planned(calls[i].request)
         /\ Fits(calls[i].request, calls[i].reply)
<1>1. PICK n \in 1..Len(sent) : sent[n].served = i
  BY DEF ToolInv, ServedInOrder
<1>2. sent[n].served # None
  BY <1>1, NoneAssumption
<1>3. Planned(sent[n].request)
  BY DEF ToolInv, SentInv
<1>4. calls[i].request = sent[n].request /\ Fits(sent[n].request, calls[i].reply)
  BY <1>1, <1>2, HeardFits
<1>5. calls[i] \in Call
  BY DEF ApiTypeOK
<1>6. calls[i].request \in Request
  BY <1>5 DEF Call
<1> QED
  BY <1>3, <1>4, <1>6

LEMMA FormsFit ==
  ASSUME ApiTypeOK, HistoryInv, ToolInv PROVE FormsAgree
<1> SUFFICES ASSUME NEW i \in 1..Len(calls)
             PROVE  /\ calls[i].reply.error # "ACTION_NOT_ALLOWED"
                    /\ calls[i].reply.error = "INVALID_REQUEST" =>
                         \E field \in required_fields[calls[i].request.action] :
                           calls[i].request.payload[field] = Zero
                    /\ calls[i].request.action = "confirm_action" /\ calls[i].reply.run # None
                         => calls[i].request.payload.decision = "confirm"
  BY DEF FormsAgree
<1>3. /\ calls[i].request \in Request /\ Planned(calls[i].request)
      /\ Fits(calls[i].request, calls[i].reply)
  BY ServedWasPlanned
<1>4. /\ calls[i].request.action \in ALLOWED_ACTIONS
      /\ ~Complete(calls[i].request) =>
           \E field \in required_fields[calls[i].request.action] :
             calls[i].request.payload[field] = Zero
  BY <1>3, PlannedIsComplete DEF Planned
<1>5. calls[i].request.action = "confirm_action" => calls[i].request.payload.decision \in {"confirm", "cancel"}
  BY <1>3 DEF Planned, DECISION_VALUES
<1> QED
  BY <1>3, <1>4, <1>5 DEF Fits

\* backend_client.py:568-592, ocserv_admin_api.py:105-131.  The backend knows the action of every
\* call that was planned, refuses the form of one only where a field it requires is 0 or false, and
\* runs a destructive action only on "confirm" (FormsAgree).
THEOREM PlannedFormsAgree == ToolSpec => []FormsAgree
<1>1. ApiTypeOK /\ HistoryInv /\ ToolInv => FormsAgree
  BY FormsFit
<1> QED
  BY <1>1, AlwaysToolInv, PTL

LEMMA SpeaksForItself ==
  ASSUME ApiTypeOK, HistoryInv, ToolInv, NEW i \in 1..Len(calls)
  PROVE  Identity(calls[i].actor, calls[i].request.payload) = calls[i].actor
<1>1. calls[i].request.payload.confirmation_actor_id = None
  BY ServedWasPlanned, PlannedIsComplete
<1> QED
  BY <1>1 DEF Identity, Falsy

LEMMA ConfirmedByProposer ==
  ASSUME ApiTypeOK, RanAsConfirmed, HistoryInv, ToolInv PROVE OwnConfirmed
<1> SUFFICES ASSUME NEW i \in 1..Len(calls),
                    calls[i].request.action = "confirm_action", calls[i].reply.run # None
             PROVE  calls[calls[i].reply.run.under].actor = calls[i].actor
  BY DEF OwnConfirmed
<1> DEFINE run == calls[i].reply.run
<1>1. run.action \in DESTRUCTIVE_ACTIONS
  BY ServedWasPlanned DEF Fits
<1>2. run.under \in 1..Len(calls)
  <2>1. run.under < i
    BY <1>1 DEF RanAsConfirmed
  <2>2. calls[i] \in Call
    BY DEF ApiTypeOK
  <2>3. run \in Run
    BY <2>2 DEF Call, Reply
  <2>4. run.under \in 1..MaxCalls
    BY <2>3 DEF Run, Number
  <2> QED
    BY <2>1, <2>4, NumberAssumption DEF ApiTypeOK
<1>3. Identity(calls[run.under].actor, calls[run.under].request.payload)
        = Identity(calls[i].actor, calls[i].request.payload)
  BY <1>1 DEF RanAsConfirmed
<1> HIDE DEF run
<1>4. calls[run.under].actor = calls[i].actor
  BY <1>2, <1>3, SpeaksForItself
<1> QED
  BY <1>4 DEF run

\* backend_client.py:568-592, ocserv_admin_api.py:285, :352.  The backend lets any allowed operator
\* speak for another; the MCP servers offer no way to, so through them a destructive action runs
\* only for the operator that proposed it (OwnConfirmed).
THEOREM ConfirmedByItsProposer == ToolSpec => []OwnConfirmed
<1>1. ApiTypeOK /\ RanAsConfirmed /\ HistoryInv /\ ToolInv => OwnConfirmed
  BY ConfirmedByProposer
<1> QED
  BY <1>1, AlwaysToolInv, PTL

LEMMA ToolTypes ==
  ASSUME ApiTypeOK, ToolInv PROVE ToolTypeOK
<1>1. /\ sent \in Seq(SentRecord) /\ Len(sent) <= MaxCalls
      /\ queue \in Seq(Nat) /\ Len(queue) <= Backlog
      /\ stack \in Idle \cup Serving \cup Answering /\ (stack \in Idle <=> job = None)
  BY DEF ToolInv, ThreadInv
<1>2. stopping \in BOOLEAN
  BY DEF ToolInv, ThreadInv
<1>3. Len(calls) <= Len(sent)
  <2>1. Len(calls) \in Nat /\ Len(sent) \in Nat
    BY <1>1 DEF ApiTypeOK
  <2>2. CASE Len(calls) = 0
    BY <2>1, <2>2
  <2>3. CASE Len(calls) # 0
    <3>1. PICK n \in 1..Len(sent) : sent[n].served = Len(calls)
      BY <2>1, <2>3 DEF ToolInv, ServedInOrder
    <3>2. sent[n].served <= n
      BY <2>1, <3>1, NoneAssumption DEF ToolInv, SentInv
    <3> QED
      BY <2>1, <3>1, <3>2
  <2> QED
    BY <2>2, <2>3
<1>4. queue \in Seq(1..Len(sent))
  <2>1. \A k \in 1..Len(queue) : queue[k] \in 1..Len(sent)
    BY DEF ToolInv, ThreadInv, Pending
  <2> QED
    BY <1>1, <2>1
<1>5. /\ stack \in Seq(Frame)
      /\ (\E k \in 1..Len(stack) : stack[k] \in {"app", "answer"}) <=> stack \notin Idle
  BY <1>1, StackShapes
<1>6. job # None <=> \E k \in 1..Len(stack) : stack[k] \in {"app", "answer"}
  BY <1>1, <1>5
<1>7. sent \in Seq([client : Client, request : Request, served : Number \cup {None},
                    told : Outcome \cup {None}])
  BY <1>1 DEF SentRecord
<1> QED
  BY <1>1, <1>2, <1>3, <1>4, <1>5, <1>6, <1>7 DEF ToolTypeOK

\* Every variable holds what the code can put in it, and a call is being served exactly while a
\* frame of its handler is on the stack (ToolTypeOK).
THEOREM ToolTypeCorrect == ToolSpec => []ToolTypeOK
<1>1. ApiTypeOK /\ ToolInv => ToolTypeOK
  BY ToolTypes
<1> QED
  BY <1>1, AlwaysToolInv, PTL
=============================================================================
