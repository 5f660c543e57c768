---------------------------- MODULE AdminApiProofs ----------------------------
(***************************************************************************)
(* The limiter is exact and nothing destructive runs without its           *)
(* confirmation, for every set of actors, targets and requests, and every  *)
(* limit, window and lifetime.                                             *)
(***************************************************************************)
EXTENDS AdminApi, FiniteSetTheorems, TLAPS

\* A call appended to the history leaves the earlier ones in their places.
LEMMA AppendCall ==
  ASSUME NEW T, NEW s \in Seq(T), NEW x \in T
  PROVE  /\ Append(s, x) \in Seq(T)
         /\ Len(Append(s, x)) = Len(s) + 1
         /\ Append(s, x)[Len(s) + 1] = x
         /\ \A i \in 1..Len(s) : Append(s, x)[i] = s[i] /\ s[i] \in T
  OBVIOUS

\* What a handler ends with is a status and an ending of the right type.
RunRecord(action, payload, id, under, ending) ==
  [action |-> action, payload |-> payload, id |-> id, under |-> under, ending |-> ending]
AnswersRun(reply, run) ==
  /\ reply \in Reply /\ reply.run = run /\ reply.run # None
  /\ reply.error # "RATE_LIMITED" /\ reply.status # "pending"
LEMMA ExecutedIsReply ==
  ASSUME NEW action \in Action, NEW payload \in Payload, NEW id \in Number, NEW under \in Number,
         NEW ending \in Ending
  PROVE  AnswersRun(Executed(action, payload, id, under, ending),
                    RunRecord(action, payload, id, under, ending))
<1> DEFINE reply == Executed(action, payload, id, under, ending)
<1>1. reply.status \in {"ok", "failed", "error", "crashed"}
  BY DEF Executed, StatusOf
<1>2. reply.error \in Ending \cup {None}
  BY DEF Executed
<1>3. /\ reply.run = RunRecord(action, payload, id, under, ending)
      /\ reply.run \in Run
  BY DEF Executed, Run, RunRecord
<1>4. reply = [status |-> reply.status, error |-> reply.error, run |-> reply.run]
  BY DEF Executed
<1>5. reply \in Reply
  BY <1>1, <1>2, <1>3, <1>4 DEF Reply, ErrorCode
<1>6. reply.error # "RATE_LIMITED" /\ reply.run # None
  BY <1>2, <1>3, NoneAssumption DEF Ending, ErrorCode
<1> QED
  BY <1>1, <1>3, <1>5, <1>6 DEF AnswersRun

\* A refusal is a reply, and ran nothing.
LEMMA RefusalIsReply ==
  ASSUME NEW status \in {"pending", "rejected", "failed", "error"}, NEW code \in ErrorCode \cup {None}
  PROVE  /\ Refusal(status, code) \in Reply
         /\ Refusal(status, code).run = None
         /\ Refusal(status, code).status = status /\ Refusal(status, code).error = code
  BY DEF Refusal, Reply

-----------------------------------------------------------------------------
(***************************************************************************)
(* A request served, seen by the history, the limiter and the tokens.      *)
(***************************************************************************)
Entry(actor, r, reply) == [actor |-> actor, request |-> r, at |-> now, reply |-> reply]

LimiterStep(actor, r, reply) ==
  \/ ~r.authentic /\ events' = events
  \/ /\ r.authentic /\ ~UnderLimit(actor, r.action) /\ reply.error = "RATE_LIMITED"
     /\ events' = [events EXCEPT ![actor] = Recent(actor)]
  \/ Admit(actor, r) /\ reply.error # "RATE_LIMITED"

Offer(actor, r) ==
  [status |-> "pending", owner |-> Identity(actor, r.payload), action |-> r.action,
   payload |-> r.payload, request_id |-> RequestId(r.payload, Id), expires |-> now + Lifetime]
Proposed(actor, r, reply) ==
  /\ actor \in AllowedActor /\ Complete(r)
  /\ store' = [store EXCEPT ![Id] = Offer(actor, r)]
  /\ reply.run = None /\ reply.status = "pending"
Settled(n, status) == n \in Number /\ IsPending(n) /\ Settle(n, status)
RanAtOnce(r, ending, reply) ==
  /\ r.action \notin DESTRUCTIVE_ACTIONS
  /\ store' = store
  /\ reply = Executed(r.action, r.payload, RequestId(r.payload, Id), Id, ending)
Confirmed(actor, r, ending, reply) ==
  /\ TokenOf(r) \in Number /\ IsLive(TokenOf(r)) /\ IsOwner(actor, r) /\ actor \in AllowedActor
  /\ r.payload.decision # "cancel" /\ ~Mismatch(r)
  /\ Settled(TokenOf(r), "confirmed")
  /\ reply = Resumed(TokenOf(r), ending)

TokenStep(actor, r, reply) ==
  \/ store' = store /\ reply.run = None /\ reply.status # "pending"
  \/ Proposed(actor, r, reply)
  \/ /\ \E n \in Number, status \in {"expired", "cancelled"} : Settled(n, status)
     /\ reply.run = None /\ reply.status # "pending"
  \/ \E ending \in Ending : RanAtOnce(r, ending, reply) \/ Confirmed(actor, r, ending, reply)

Served(actor, r, reply) ==
  /\ reply \in Reply
  /\ calls' = Append(calls, Entry(actor, r, reply)) /\ Id \in Number
  /\ LimiterStep(actor, r, reply) /\ TokenStep(actor, r, reply)
  /\ now' = now /\ since' = since

\* A confirmation names a token, and a resolved one is in the store.
LEMMA ResolvingNamesToken ==
  ASSUME NEW actor \in Actor, NEW r \in Request, Complete(r), r.action = "confirm_action"
  PROVE  TokenOf(r) \in Number
<1>1. r.payload \in Payload /\ r.payload["token"] \notin Falsy
  BY RequestAssumption DEF Complete, required_fields, RequestType
<1> QED
  BY <1>1 DEF TokenOf, Payload

\* A request that is complete speaks for an operator, and has an id.
LEMMA RequestNames ==
  ASSUME NEW actor \in Actor, NEW r \in Request
  PROVE  /\ r.action \in Action /\ r.payload \in Payload
         /\ Complete(r) => Identity(actor, r.payload) \in Actor
         /\ \A n \in Number : RequestId(r.payload, n) \in Number
<1>1. r.action \in Action /\ r.payload \in Payload
  BY RequestAssumption DEF RequestType
<1>2. r.payload.request_id \in Number \cup Falsy
  BY <1>1 DEF Payload
<1> QED
  BY <1>1, <1>2 DEF Complete, Identity, RequestId, Falsy

\* The guard lets nobody pass who is not on the list.
LEMMA PassedAllowed ==
  ASSUME NEW actor, NEW r, Pass(actor, r) PROVE actor \in AllowedActor /\ Complete(r)
<1>1. None # "UNAUTHORIZED_OPERATOR"
  BY NoneAssumption DEF ErrorCode
<1> QED
  BY <1>1 DEF Pass, GuardError

\* What runs at once, and what runs under a token.
LEMMA AtOnceIsReply ==
  ASSUME NEW actor \in Actor, NEW r \in Request, NEW ending \in Ending, Id \in Number
  PROVE  AnswersRun(Executed(r.action, r.payload, RequestId(r.payload, Id), Id, ending),
                    RunRecord(r.action, r.payload, RequestId(r.payload, Id), Id, ending))
<1>1. r.action \in Action /\ r.payload \in Payload
  BY RequestNames
<1>2. RequestId(r.payload, Id) \in Number
  BY RequestNames
<1> QED
  BY <1>1, <1>2, ExecutedIsReply

LEMMA ResumedIsReply ==
  ASSUME NEW n \in Number, store[n] \in Record, NEW ending \in Ending
  PROVE  AnswersRun(Resumed(n, ending),
                    RunRecord(store[n].action, store[n].payload, store[n].request_id, n, ending))
<1>1. /\ store[n].action \in Action /\ store[n].payload \in Payload
      /\ store[n].request_id \in Number
  BY DEF Record
<1> QED
  BY <1>1, ExecutedIsReply DEF Resumed

\* Every way to serve a request is of this form.
LEMMA ServeIsServed ==
  ASSUME ApiTypeOK, NEW actor \in Actor, NEW r \in Request, Serve(actor, r)
  PROVE  \E reply \in Reply : Served(actor, r, reply)
<1>1. now' = now /\ since' = since /\ Id \in Number
  BY NumberAssumption DEF Serve, ApiTypeOK, Id, Number
<1>2. CASE RefuseClient(actor, r)
  <2> DEFINE reply == Refusal("error", "UNAUTHORIZED_CLIENT")
  <2>1. reply \in Reply /\ reply.run = None /\ reply.status # "pending"
    BY RefusalIsReply DEF ErrorCode
  <2> QED
    BY <1>1, <1>2, <2>1 DEF RefuseClient, Answer, Served, Entry, LimiterStep, TokenStep
<1>3. CASE RefuseRate(actor, r)
  <2> DEFINE reply == Refusal("error", "RATE_LIMITED")
  <2>1. reply \in Reply /\ reply.run = None /\ reply.status # "pending" /\ reply.error = "RATE_LIMITED"
    BY RefusalIsReply DEF ErrorCode
  <2> QED
    BY <1>1, <1>3, <2>1 DEF RefuseRate, Answer, Served, Entry, LimiterStep, TokenStep
<1> DEFINE Refuses(status, code) ==
             /\ Admit(actor, r) /\ Answer(actor, r, Refusal(status, code)) /\ UNCHANGED store
<1>4. ASSUME NEW status \in {"rejected", "failed", "error"},
             NEW code \in (ErrorCode \cup {None}) \ {"RATE_LIMITED"}, Refuses(status, code)
      PROVE  Served(actor, r, Refusal(status, code)) /\ Refusal(status, code) \in Reply
  <2> DEFINE reply == Refusal(status, code)
  <2>1. reply \in Reply /\ reply.run = None /\ reply.status # "pending" /\ reply.error # "RATE_LIMITED"
    BY RefusalIsReply
  <2> QED
    BY <1>1, <1>4, <2>1 DEF Answer, Served, Entry, LimiterStep, TokenStep
<1>5. CASE RefuseRequest(actor, r)
  BY <1>4, <1>5 DEF RefuseRequest, ErrorCode
<1>6. CASE RejectByGuard(actor, r)
  <2> DEFINE code == GuardError(actor, r.action, r.payload)
  <2>1. code \in {"UNAUTHORIZED_OPERATOR", "ACTION_NOT_ALLOWED", "INVALID_NAME"}
    BY <1>6 DEF RejectByGuard, GuardError
  <2> QED
    BY <1>4, <1>6, <2>1 DEF RejectByGuard, ErrorCode
<1>7. CASE Propose(actor, r)
  <2> DEFINE reply == Refusal("pending", "CONFIRMATION_REQUIRED")
  <2>1. /\ reply \in Reply /\ reply.run = None /\ reply.status = "pending"
        /\ reply.error # "RATE_LIMITED"
    BY RefusalIsReply DEF ErrorCode
  <2> QED
    BY <1>1, <1>7, <2>1, PassedAllowed
       DEF Propose, Pass, Answer, Served, Entry, LimiterStep, TokenStep, Proposed, Offer
<1>8. CASE RefuseContext(actor, r)
  BY <1>4, <1>8 DEF RefuseContext, Pass, ErrorCode
<1>9. CASE RefuseToken(actor, r)
  <2>1. PICK code \in {"CONFIRMATION_NOT_FOUND", "CONFIRMATION_REPLAYED", "UNAUTHORIZED_OPERATOR"} :
          Refuses("failed", code)
    BY <1>9 DEF RefuseToken, Resolving, Pass
  <2> QED
    BY <1>4, <2>1 DEF ErrorCode
<1> DEFINE Settles(status, code) ==
             /\ Resolving(actor, r) /\ IsPending(TokenOf(r)) /\ Settle(TokenOf(r), status)
             /\ Answer(actor, r, Refusal("failed", code))
<1>10. ASSUME NEW status \in {"expired", "cancelled"}, NEW code \in {"CONFIRMATION_EXPIRED", None},
              Settles(status, code)
       PROVE  \E reply \in Reply : Served(actor, r, reply)
  <2> DEFINE reply == Refusal("failed", code)
  <2>1. code \in ErrorCode \cup {None} /\ code # "RATE_LIMITED"
    BY NoneAssumption DEF ErrorCode
  <2>2. reply \in Reply /\ reply.run = None /\ reply.status # "pending" /\ reply.error # "RATE_LIMITED"
    BY <2>1, RefusalIsReply
  <2>3. TokenOf(r) \in Number
    BY <1>10, ResolvingNamesToken DEF Resolving, Pass
  <2> QED
    BY <1>1, <1>10, <2>2, <2>3
       DEF Resolving, Pass, Answer, Served, Entry, LimiterStep, TokenStep, Settled
<1>11. CASE Expire(actor, r)
  BY <1>10, <1>11 DEF Expire
<1>12. CASE Cancel(actor, r)
  BY <1>10, <1>12 DEF Cancel, IsLive
<1>13. ASSUME NEW ending \in Ending, Execute(actor, r, ending)
       PROVE  \E reply \in Reply : Served(actor, r, reply)
  <2> DEFINE reply == Executed(r.action, r.payload, RequestId(r.payload, Id), Id, ending)
  <2>1. reply \in Reply /\ reply.error # "RATE_LIMITED"
    BY <1>1, AtOnceIsReply DEF AnswersRun
  <2> QED
    BY <1>1, <1>13, <2>1
       DEF Execute, Pass, Answer, Served, Entry, LimiterStep, TokenStep, RanAtOnce
<1>14. ASSUME NEW ending \in Ending, Confirm(actor, r, ending)
       PROVE  \E reply \in Reply : Served(actor, r, reply)
  <2>1. TokenOf(r) \in Number
    BY <1>14, ResolvingNamesToken DEF Confirm, Resolving, Pass
  <2>2. store[TokenOf(r)] \in Record
    BY <1>14, <2>1 DEF Confirm, IsLive, IsPending, ApiTypeOK
  <2> DEFINE reply == Resumed(TokenOf(r), ending)
  <2>3. reply \in Reply /\ reply.error # "RATE_LIMITED"
    BY <2>1, <2>2, ResumedIsReply DEF AnswersRun
  <2> QED
    BY <1>1, <1>14, <2>1, <2>3, PassedAllowed
       DEF Confirm, Resolving, Pass, IsLive, Answer, Served, Entry, LimiterStep, TokenStep,
           Confirmed, Settled
<1> QED
  BY <1>2, <1>3, <1>5, <1>6, <1>7, <1>8, <1>9, <1>11, <1>12, <1>13, <1>14 DEF Serve

-----------------------------------------------------------------------------
(***************************************************************************)
(* Types.                                                                  *)
(***************************************************************************)
LEMMA InitType == Init => ApiTypeOK
  BY NumberAssumption DEF Init, ApiTypeOK, Number

\* What a served request appends to the history.
LEMMA ServedAppends ==
  ASSUME ApiTypeOK, NEW actor \in Actor, NEW r \in Request, NEW reply, Served(actor, r, reply)
  PROVE  /\ Id = Len(calls) + 1 /\ Id \in Number /\ since' = since /\ now' = now
         /\ calls' \in Seq(Call) /\ Len(calls') = Id
         /\ calls'[Id] = Entry(actor, r, reply) /\ Entry(actor, r, reply) \in Call
         /\ \A i \in 1..Len(calls) : calls'[i] = calls[i] /\ calls[i] \in Call
<1>1. Entry(actor, r, reply) \in Call
  BY DEF Served, Entry, Call, ApiTypeOK
<1> QED
  BY <1>1, AppendCall DEF Served, ApiTypeOK, Id

LEMMA ServedSteps ==
  ASSUME ApiTypeOK, NEW actor \in Actor, NEW r \in Request, NEW reply, Served(actor, r, reply)
  PROVE  /\ Id = Len(calls) + 1 /\ Id \in Number /\ Len(calls') = Id /\ Len(calls) \in Nat
         /\ calls'[Id].actor = actor /\ calls'[Id].request = r /\ calls'[Id].at = now
         /\ calls'[Id].reply = reply
         /\ \A i \in 1..Len(calls) : calls'[i] = calls[i] /\ calls[i] \in Call
<1>1. /\ Entry(actor, r, reply).actor = actor /\ Entry(actor, r, reply).request = r
      /\ Entry(actor, r, reply).at = now /\ Entry(actor, r, reply).reply = reply
  BY DEF Entry
<1>2. Len(calls) \in Nat
  BY DEF ApiTypeOK
<1>3. /\ Id = Len(calls) + 1 /\ Id \in Number /\ Len(calls') = Id
      /\ calls'[Id] = Entry(actor, r, reply)
      /\ \A i \in 1..Len(calls) : calls'[i] = calls[i] /\ calls[i] \in Call
  BY ServedAppends
<1> QED
  BY <1>1, <1>2, <1>3

\* The limiter keeps only what it counted.
LEMMA ServedEventsType ==
  ASSUME ApiTypeOK, NEW actor \in Actor, NEW r \in Request, NEW reply, Served(actor, r, reply)
  PROVE  events' \in [Actor -> SUBSET [id : Number, at : 0..MaxTime]]
<1>1. Recent(actor) \subseteq events[actor]
  BY DEF Recent
<1>2. [id |-> Id, at |-> now] \in [id : Number, at : 0..MaxTime]
  BY DEF Served, ApiTypeOK
<1> QED
  BY <1>1, <1>2 DEF Served, LimiterStep, Admit, ApiTypeOK

LEMMA SettledType ==
  ASSUME ApiTypeOK, NEW n, NEW status \in Status, Settled(n, status)
  PROVE  store' \in [Number -> Record \cup {None}]
<1>1. store[n] \in Record
  BY DEF Settled, IsPending, ApiTypeOK
<1>2. [store[n] EXCEPT !.status = status] \in Record
  BY <1>1 DEF Record
<1> QED
  BY <1>2 DEF Settled, Settle, ApiTypeOK

LEMMA OfferIsRecord ==
  ASSUME ApiTypeOK, NEW actor \in Actor, NEW r \in Request, Complete(r), Id \in Number
  PROVE  Offer(actor, r) \in Record
  BY RequestNames, NumberAssumption DEF ApiTypeOK, Record, Status, Offer

LEMMA ServedStoreType ==
  ASSUME ApiTypeOK, NEW actor \in Actor, NEW r \in Request, NEW reply, Served(actor, r, reply)
  PROVE  store' \in [Number -> Record \cup {None}]
<1>1. CASE Proposed(actor, r, reply)
  <2>1. Offer(actor, r) \in Record
    BY <1>1, OfferIsRecord DEF Proposed, Served
  <2> QED
    BY <1>1, <2>1 DEF Proposed, Served, ApiTypeOK
<1>2. ASSUME NEW n \in Number, NEW status \in {"expired", "cancelled", "confirmed"},
             Settled(n, status)
      PROVE  store' \in [Number -> Record \cup {None}]
  BY <1>2, SettledType DEF Status
<1> QED
  BY <1>1, <1>2 DEF Served, TokenStep, RanAtOnce, Confirmed, ApiTypeOK

LEMMA NextType == ApiTypeOK /\ [Next]_vars => ApiTypeOK'
<1> SUFFICES ASSUME ApiTypeOK, [Next]_vars PROVE ApiTypeOK'
  OBVIOUS
<1>1. ASSUME NEW actor \in Actor, NEW r \in Request, Serve(actor, r) PROVE ApiTypeOK'
  <2>1. PICK reply \in Reply : Served(actor, r, reply)
    BY <1>1, ServeIsServed
  <2>2. since' \in 0..Len(calls') /\ Len(calls') <= MaxCalls
    BY <2>1, ServedAppends, NumberAssumption DEF ApiTypeOK, Number
  <2> QED
    BY <2>1, <2>2, ServedAppends, ServedEventsType, ServedStoreType DEF ApiTypeOK
<1>2. CASE Tick
  BY <1>2, NumberAssumption DEF Tick, ApiTypeOK
<1>3. CASE Restart
  BY <1>3 DEF Restart, ApiTypeOK
<1>4. CASE UNCHANGED vars
  BY <1>4 DEF vars, ApiTypeOK
<1> QED
  BY <1>1, <1>2, <1>3, <1>4 DEF Next

\* The state of the request handling stays within its types (ApiTypeOK).
THEOREM ApiTypeCorrect == Spec => []ApiTypeOK
  BY InitType, NextType, PTL DEF Spec

-----------------------------------------------------------------------------
(***************************************************************************)
(* Tokens.                                                                 *)
(***************************************************************************)
LEMMA InitTokens == Init => TokenInv /\ RanAsConfirmed
<1> SUFFICES ASSUME Init PROVE TokenInv /\ RanAsConfirmed
  OBVIOUS
<1>1. Len(calls) = 0 /\ \A n \in Number : store[n] = None
  BY DEF Init
<1> QED
  BY <1>1 DEF TokenInv, RanAsConfirmed

\* What a request runs: nothing, or one action under its own number or under a live token.
LEMMA ServedRuns ==
  ASSUME ApiTypeOK, NEW actor \in Actor, NEW r \in Request, NEW reply, Served(actor, r, reply),
         reply.run # None
  PROVE  \/ /\ reply.run.under = Id /\ reply.run.action \notin DESTRUCTIVE_ACTIONS
            /\ reply.status # "pending" /\ store' = store
         \/ /\ reply.status # "pending"
            /\ \E ending \in Ending : Confirmed(actor, r, ending, reply)
            /\ store[TokenOf(r)] \in Record
            /\ reply.run.under = TokenOf(r)
            /\ reply.run.action = store[TokenOf(r)].action
            /\ reply.run.payload = store[TokenOf(r)].payload
            /\ reply.run.id = store[TokenOf(r)].request_id
<1>1. PICK ending \in Ending : RanAtOnce(r, ending, reply) \/ Confirmed(actor, r, ending, reply)
  BY DEF Served, TokenStep, Proposed
<1>2. CASE RanAtOnce(r, ending, reply)
  <2>1. AnswersRun(reply, RunRecord(r.action, r.payload, RequestId(r.payload, Id), Id, ending))
    BY <1>2, AtOnceIsReply DEF RanAtOnce, Served
  <2>2. reply.run.under = Id /\ reply.run.action = r.action /\ reply.status # "pending"
    BY <2>1 DEF AnswersRun, RunRecord
  <2> QED
    BY <1>2, <2>2 DEF RanAtOnce
<1>3. CASE Confirmed(actor, r, ending, reply)
  <2>1. store[TokenOf(r)] \in Record
    BY <1>3 DEF Confirmed, IsLive, IsPending, ApiTypeOK
  <2> DEFINE record == store[TokenOf(r)]
  <2>2. AnswersRun(reply, RunRecord(record.action, record.payload, record.request_id, TokenOf(r),
                                ending))
    BY <1>3, <2>1, ResumedIsReply DEF Confirmed
  <2>3. /\ reply.run.under = TokenOf(r) /\ reply.run.action = record.action
        /\ reply.run.payload = record.payload /\ reply.run.id = record.request_id
        /\ reply.status # "pending"
    BY <2>2 DEF AnswersRun, RunRecord
  <2> QED
    BY <1>3, <2>1, <2>3
<1> QED
  BY <1>1, <1>2, <1>3

\* Under a token of the store there is a call; it was answered "pending".
LEMMA ServedKeepsTokens ==
  ASSUME ApiTypeOK, TokenInv, NEW actor \in Actor, NEW r \in Request, NEW reply,
         Served(actor, r, reply)
  PROVE  TokenInv'
<1>0. /\ Id = Len(calls) + 1 /\ Id \in Number /\ Len(calls') = Id /\ Len(calls) \in Nat
      /\ calls'[Id].actor = actor /\ calls'[Id].request = r /\ calls'[Id].at = now
      /\ calls'[Id].reply = reply
      /\ \A i \in 1..Len(calls) : calls'[i] = calls[i] /\ calls[i] \in Call
  BY ServedSteps
<1> USE <1>0
<1>1. ASSUME NEW i \in 1..Len(calls'), calls'[i].reply.run # None
      PROVE  calls'[i].reply.run.under <= i /\ calls'[i].reply.status # "pending"
  <2>1. CASE i \in 1..Len(calls)
    BY <1>1, <2>1 DEF TokenInv
  <2>2. CASE i = Id
    <3>1. calls'[i].reply = reply
      BY <2>2
    <3>2. IsPending(TokenOf(r)) /\ TokenOf(r) \in Number => TokenOf(r) <= Id
      BY DEF TokenInv, IsPending, ApiTypeOK, Number
    <3> QED
      BY <1>1, <2>2, <3>1, <3>2, ServedRuns DEF Confirmed, IsLive, Number
  <2> QED
    BY <1>1, <2>1, <2>2
<1> DEFINE Sound(table, history, n) ==
             /\ n <= Len(history) /\ history[n].reply.status = "pending"
             /\ history[n].actor \in AllowedActor
             /\ Identity(history[n].actor, history[n].request.payload) = table[n].owner
             /\ history[n].request.action = table[n].action
             /\ history[n].request.payload = table[n].payload
             /\ table[n].request_id = RequestId(table[n].payload, n)
             /\ table[n].expires = history[n].at + Lifetime
           Unused(history, n) ==
             \A j \in 1..Len(history) :
               history[j].reply.run # None => history[j].reply.run.under # n
<1>2. ASSUME NEW n \in Number, store'[n] # None
      PROVE  Sound(store', calls', n) /\ (IsPending(n)' => Unused(calls', n))
  <2>1. ASSUME store'[n] = store[n] PROVE Sound(store', calls', n)
    <3>1. n \in 1..Len(calls)
      BY <1>2, <2>1 DEF TokenInv, Number, ApiTypeOK
    <3> QED
      BY <1>2, <2>1, <3>1 DEF TokenInv
  <2>2. ASSUME store'[n] = store[n], IsPending(n)',
               reply.run # None => reply.run.under # n
        PROVE  Unused(calls', n)
    <3>1. IsPending(n)
      BY <2>2 DEF IsPending
    <3>2. Unused(calls, n)
      BY <3>1 DEF TokenInv, IsPending
    <3> QED
      BY <2>2, <3>2
  <2>3. CASE Proposed(actor, r, reply) /\ n = Id
    <3>1. /\ store'[n].owner = Identity(actor, r.payload) /\ store'[n].action = r.action
          /\ store'[n].payload = r.payload /\ store'[n].request_id = RequestId(r.payload, n)
          /\ store'[n].expires = now + Lifetime /\ actor \in AllowedActor
      BY <2>3 DEF Proposed, Offer, ApiTypeOK
    <3>2. Sound(store', calls', n)
      BY <2>3, <3>1 DEF Proposed
    <3>3. Unused(calls, n)
      BY <2>3 DEF TokenInv, Call, Reply, Run, Number
    <3>4. Unused(calls', n)
      BY <2>3, <3>3 DEF Proposed
    <3> QED
      BY <3>2, <3>4
  <2>4. CASE Proposed(actor, r, reply) /\ n # Id
    BY <2>1, <2>2, <2>4 DEF Proposed, ApiTypeOK
  <2>5. ASSUME NEW m \in Number, NEW status \in {"expired", "cancelled", "confirmed"},
               Settled(m, status), reply.run # None => reply.run.under = m
        PROVE  Sound(store', calls', n) /\ (IsPending(n)' => Unused(calls', n))
    <3>1. CASE n # m
      <4>1. store'[n] = store[n]
        BY <2>5, <3>1 DEF Settled, Settle, ApiTypeOK
      <4> QED
        BY <2>1, <2>2, <2>5, <3>1, <4>1
    <3>2. CASE n = m
      <4>1. store[m] \in Record /\ store[m] # None
        BY <2>5 DEF Settled, IsPending, ApiTypeOK
      <4>2. store'[m] = [store[m] EXCEPT !.status = status]
        BY <2>5, <4>1 DEF Settled, Settle, ApiTypeOK
      <4>3. ~IsPending(m)'
        BY <4>1, <4>2 DEF IsPending, Record
      <4>4. m \in 1..Len(calls)
        BY <4>1 DEF TokenInv, Number, ApiTypeOK
      <4> QED
        BY <3>2, <4>1, <4>2, <4>3, <4>4 DEF TokenInv, Record
    <3> QED
      BY <3>1, <3>2
  <2>6. CASE store' = store /\ (reply.run # None => reply.run.under = Id)
    <3>1. n < Id
      BY <1>2, <2>6 DEF TokenInv, Number, ApiTypeOK
    <3> QED
      BY <2>1, <2>2, <2>6, <3>1
  <2>7. CASE reply.run = None
    BY <2>3, <2>4, <2>5, <2>6, <2>7 DEF Served, TokenStep, RanAtOnce, Confirmed, Executed, Run
  <2>8. CASE reply.run # None
    <3>1. CASE store' = store /\ reply.run.under = Id
      BY <2>6, <3>1
    <3>2. ASSUME NEW ending \in Ending, Confirmed(actor, r, ending, reply),
                 reply.run.under = TokenOf(r)
          PROVE  Sound(store', calls', n) /\ (IsPending(n)' => Unused(calls', n))
      BY <2>5, <3>2 DEF Confirmed
    <3> QED
      BY <2>8, <3>1, <3>2, ServedRuns
  <2> QED
    BY <2>7, <2>8
<1> QED
  BY <1>1, <1>2 DEF TokenInv

\* What ran before stays as confirmed, and what this request runs is.
LEMMA ServedConfirmed ==
  ASSUME ApiTypeOK, TokenInv, RanAsConfirmed,
         NEW actor \in Actor, NEW r \in Request, NEW reply, Served(actor, r, reply)
  PROVE  RanAsConfirmed'
<1>0. /\ Id = Len(calls) + 1 /\ Id \in Number /\ Len(calls') = Id /\ Len(calls) \in Nat
      /\ calls'[Id].actor = actor /\ calls'[Id].request = r /\ calls'[Id].at = now
      /\ calls'[Id].reply = reply
      /\ \A i \in 1..Len(calls) : calls'[i] = calls[i] /\ calls[i] \in Call
  BY ServedSteps
<1> USE <1>0
<1> DEFINE Expects(payload, action, pending) ==
             /\ Expected(payload.expected_action) \in {None, action}
             /\ Expected(payload.expected_username) \in {None, TargetUser(action, pending)}
             /\ TargetGroup(pending) # None
                  => Expected(payload.expected_group) \in {None, TargetGroup(pending)}
           Ok(history, i) ==
             LET run == history[i].reply.run IN
             /\ run.under < i /\ history[run.under].reply.status = "pending"
             /\ LET asked == history[run.under] IN
                /\ asked.actor \in AllowedActor /\ history[i].actor \in AllowedActor
                /\ Identity(asked.actor, asked.request.payload)
                     = Identity(history[i].actor, history[i].request.payload)
                /\ asked.request.action = run.action /\ asked.request.payload = run.payload
                /\ run.id = RequestId(run.payload, run.under)
                /\ history[i].at <= asked.at + Lifetime
             /\ history[i].request.payload.token = run.under
             /\ history[i].request.payload.decision # "cancel"
             /\ Expects(history[i].request.payload, run.action, run.payload)
           Alone(history, i) ==
             \A j \in 1..Len(history) :
               j # i /\ history[j].reply.run # None
                 => history[j].reply.run.under # history[i].reply.run.under
           Destroys(history, i) ==
             history[i].reply.run # None /\ history[i].reply.run.action \in DESTRUCTIVE_ACTIONS
<1>1. \A i \in 1..Len(calls) : Destroys(calls, i) => Ok(calls, i) /\ Alone(calls, i)
  BY DEF RanAsConfirmed
<1>2. ASSUME NEW i \in 1..Len(calls), Destroys(calls', i)
      PROVE  Ok(calls', i) /\ Alone(calls', i)
  <2> DEFINE run == calls[i].reply.run
  <2>1. Destroys(calls, i) /\ Ok(calls, i) /\ Alone(calls, i)
    BY <1>1, <1>2
  <2>2. run \in Run /\ run.under \in 1..Len(calls)
    BY <2>1 DEF Call, Reply, Run, Number
  <2>3. Ok(calls', i)
    BY <2>1, <2>2
  <2>4. ASSUME reply.run # None PROVE reply.run.under # run.under
    <3>1. CASE reply.run.under = Id
      BY <2>2, <3>1
    <3>2. ASSUME NEW ending \in Ending, Confirmed(actor, r, ending, reply),
                 reply.run.under = TokenOf(r)
          PROVE  reply.run.under # run.under
      BY <2>1, <3>2 DEF Confirmed, IsLive, IsPending, TokenInv
    <3> QED
      BY <2>4, <3>1, <3>2, ServedRuns
  <2>5. Alone(calls', i)
    BY <2>1, <2>4
  <2> QED
    BY <2>3, <2>5
<1>3. ASSUME Destroys(calls', Id) PROVE Ok(calls', Id) /\ Alone(calls', Id)
  <2>1. /\ \E ending \in Ending : Confirmed(actor, r, ending, reply)
        /\ store[TokenOf(r)] \in Record
        /\ reply.run.under = TokenOf(r)
        /\ reply.run.action = store[TokenOf(r)].action
        /\ reply.run.payload = store[TokenOf(r)].payload
        /\ reply.run.id = store[TokenOf(r)].request_id
    BY <1>3, ServedRuns
  <2>2. /\ TokenOf(r) \in Number /\ IsLive(TokenOf(r)) /\ actor \in AllowedActor
        /\ store[TokenOf(r)].owner = Identity(actor, r.payload)
        /\ r.payload.decision # "cancel" /\ ~Mismatch(r) /\ store[TokenOf(r)] # None
    BY <2>1 DEF Confirmed, IsOwner, IsLive, IsPending
  <2>3. /\ TokenOf(r) \in 1..Len(calls) /\ calls[TokenOf(r)].reply.status = "pending"
        /\ calls[TokenOf(r)].actor \in AllowedActor
        /\ Identity(calls[TokenOf(r)].actor, calls[TokenOf(r)].request.payload)
             = store[TokenOf(r)].owner
        /\ calls[TokenOf(r)].request.action = store[TokenOf(r)].action
        /\ calls[TokenOf(r)].request.payload = store[TokenOf(r)].payload
        /\ store[TokenOf(r)].request_id = RequestId(store[TokenOf(r)].payload, TokenOf(r))
        /\ store[TokenOf(r)].expires = calls[TokenOf(r)].at + Lifetime
        /\ \A j \in 1..Len(calls) :
             calls[j].reply.run # None => calls[j].reply.run.under # TokenOf(r)
    BY <2>2 DEF TokenInv, IsLive, Number
  <2>4. /\ Expects(r.payload, store[TokenOf(r)].action, store[TokenOf(r)].payload)
        /\ now <= store[TokenOf(r)].expires
    BY <2>2 DEF Mismatch, IsLive
  <2> HIDE DEF Expects
  <2>5. Ok(calls', Id)
    BY <2>1, <2>2, <2>3, <2>4 DEF TokenOf
  <2>6. Alone(calls', Id)
    BY <2>1, <2>3
  <2> QED
    BY <2>5, <2>6
<1>4. \A i \in 1..Len(calls') : Destroys(calls', i) => Ok(calls', i) /\ Alone(calls', i)
  BY <1>2, <1>3
<1> QED
  BY <1>4 DEF RanAsConfirmed

LEMMA NextTokens ==
  ApiTypeOK /\ TokenInv /\ RanAsConfirmed /\ [Next]_vars => (TokenInv /\ RanAsConfirmed)'
<1> SUFFICES ASSUME ApiTypeOK, TokenInv, RanAsConfirmed, [Next]_vars
             PROVE  TokenInv' /\ RanAsConfirmed'
  OBVIOUS
<1>1. ASSUME NEW actor \in Actor, NEW r \in Request, Serve(actor, r)
      PROVE  TokenInv' /\ RanAsConfirmed'
  BY <1>1, ServeIsServed, ServedKeepsTokens, ServedConfirmed
<1>2. CASE Tick
  BY <1>2 DEF Tick, TokenInv, RanAsConfirmed, IsPending
<1>3. CASE Restart
  BY <1>3 DEF Restart, TokenInv, RanAsConfirmed
<1>4. CASE UNCHANGED vars
  BY <1>4 DEF vars, TokenInv, RanAsConfirmed, IsPending
<1> QED
  BY <1>1, <1>2, <1>3, <1>4 DEF Next

\* src/docs/verification-plan.xml:186.  Nothing destructive ever runs but what an operator on the
\* list proposed, word for word, and one on the list confirmed in the name of the same operator,
\* under its token, in time and once (RanAsConfirmed).
THEOREM ConfirmedBeforeRun == Spec => []RanAsConfirmed
<1>1. Init => ApiTypeOK /\ TokenInv /\ RanAsConfirmed
  BY InitType, InitTokens
<1>2. /\ ApiTypeOK /\ TokenInv /\ RanAsConfirmed /\ [Next]_vars
      => (ApiTypeOK /\ TokenInv /\ RanAsConfirmed)'
  BY NextType, NextTokens
<1> QED
  BY <1>1, <1>2, PTL DEF Spec

-----------------------------------------------------------------------------
(***************************************************************************)
(* The rate limiter.                                                       *)
(***************************************************************************)
Counts(r, reply) == r.authentic /\ reply.error # "RATE_LIMITED"

\* A served request leaves what was let through before it, and adds itself if it was let through.
LEMMA ServedLetThrough ==
  ASSUME ApiTypeOK, NEW actor \in Actor, NEW r \in Request, NEW reply, Served(actor, r, reply),
         NEW a \in Actor
  PROVE  /\ \A upTo \in 0..Len(calls) : LetThroughOf(a, upTo)' = LetThroughOf(a, upTo)
         /\ LetThroughOf(a, Len(calls))' =
              LetThroughOf(a, Len(calls))
                \cup IF a = actor /\ Counts(r, reply) THEN {[id |-> Id, at |-> now]} ELSE {}
<1>0. /\ Id = Len(calls) + 1 /\ Len(calls') = Id /\ Len(calls) \in Nat
      /\ calls'[Id].actor = actor /\ calls'[Id].request = r /\ calls'[Id].at = now
      /\ calls'[Id].reply = reply
      /\ \A i \in 1..Len(calls) : calls'[i] = calls[i]
      /\ since' = since /\ since \in 0..Len(calls)
  BY ServedSteps DEF Served, ApiTypeOK
<1> DEFINE Passed(history, k) ==
             /\ history[k].actor = a /\ history[k].request.authentic
             /\ history[k].reply.error # "RATE_LIMITED"
           Earlier(history, upTo) == {k \in since+1..upTo : Passed(history, k)}
           Marks(history, upTo) ==
             {[id |-> j, at |-> history[j].at] : j \in Earlier(history, upTo)}
<1>1. ASSUME NEW upTo \in 0..Len(calls)
      PROVE  LetThroughOf(a, upTo)' = LetThroughOf(a, upTo)
  <2>1. LetThroughOf(a, upTo) = Marks(calls, upTo) /\ LetThroughOf(a, upTo)' = Marks(calls', upTo)
    BY <1>0 DEF LetThroughOf, LetThrough, Authentic
  <2>2. \A k \in since+1..upTo : calls'[k] = calls[k]
    BY <1>0
  <2>3. Earlier(calls', upTo) = Earlier(calls, upTo)
    BY <2>2
  <2> QED
    BY <2>1, <2>2, <2>3
<1>2. LetThroughOf(a, Len(calls))' = Marks(calls', Id)
  BY <1>0 DEF LetThroughOf, LetThrough, Authentic
<1>3. LetThroughOf(a, Len(calls)) = Marks(calls', Len(calls))
  <2>1. LetThroughOf(a, Len(calls)) = Marks(calls, Len(calls))
    BY DEF LetThroughOf, LetThrough, Authentic
  <2>2. \A k \in since+1..Len(calls) : calls'[k] = calls[k]
    BY <1>0
  <2>3. Earlier(calls', Len(calls)) = Earlier(calls, Len(calls))
    BY <2>2
  <2> QED
    BY <2>1, <2>2, <2>3
<1>4. Passed(calls', Id) <=> a = actor /\ Counts(r, reply)
  BY <1>0 DEF Counts
<1>5. Earlier(calls', Id) =
        Earlier(calls', Len(calls)) \cup IF a = actor /\ Counts(r, reply) THEN {Id} ELSE {}
  BY <1>0, <1>4
<1>6. Marks(calls', Id) =
        Marks(calls', Len(calls))
          \cup IF a = actor /\ Counts(r, reply) THEN {[id |-> Id, at |-> now]} ELSE {}
  <2> HIDE DEF Passed, Earlier
  <2> QED
    BY <1>0, <1>5
<1> QED
  BY <1>1, <1>2, <1>3, <1>6

\* What was let through carries the time it was let through.
LEMMA LetThroughTimes ==
  ASSUME ApiTypeOK, NEW a \in Actor, NEW e \in LetThroughOf(a, Len(calls))
  PROVE  e.at \in Nat
<1>1. PICK j \in since+1..Len(calls) : e = [id |-> j, at |-> calls[j].at]
  BY DEF LetThroughOf
<1>2. calls[j] \in Call
  BY DEF ApiTypeOK
<1> QED
  BY <1>1, <1>2 DEF Call

\* The limiter counts exactly what was let through within the window.
LEMMA RecentIsLetThrough ==
  ASSUME ApiTypeOK, LimiterInv, Limiting, NEW a \in Actor
  PROVE  Recent(a) = {e \in LetThroughOf(a, Len(calls)) : e.at + Window > now}
  BY DEF LimiterInv, Recent

LEMMA InitLimiter == Init => LimiterInv /\ WindowExact
<1> SUFFICES ASSUME Init PROVE LimiterInv /\ WindowExact
  OBVIOUS
<1>1. Len(calls) = 0 /\ since = 0 /\ events = [a \in Actor |-> {}]
  BY DEF Init
<1>2. \A a \in Actor : LetThroughOf(a, Len(calls)) = {}
  BY <1>1 DEF LetThroughOf
<1> QED
  BY <1>1, <1>2 DEF LimiterInv, WindowExact

LEMMA ServedKeepsLimiter ==
  ASSUME ApiTypeOK, LimiterInv, NEW actor \in Actor, NEW r \in Request, NEW reply,
         Served(actor, r, reply)
  PROVE  LimiterInv'
<1>0. /\ Id = Len(calls) + 1 /\ Len(calls') = Id /\ Len(calls) \in Nat
      /\ calls'[Id].at = now /\ now' = now /\ now \in Nat
      /\ \A i \in 1..Len(calls) : calls'[i] = calls[i]
  BY ServedSteps, NumberAssumption DEF Served, ApiTypeOK
<1>1. \A i \in 1..Len(calls') : calls'[i].at <= now'
  BY <1>0 DEF LimiterInv
<1>2. ASSUME Limiting, NEW a \in Actor
      PROVE  /\ events'[a] \subseteq LetThroughOf(a, Len(calls))'
             /\ {e \in LetThroughOf(a, Len(calls))' : e.at + Window > now'} \subseteq events'[a]
  <2> DEFINE passed == LetThroughOf(a, Len(calls))
             mark   == [id |-> Id, at |-> now]
             recent == {e \in passed : e.at + Window > now}
  <2>1. events[a] \subseteq passed /\ recent \subseteq events[a] /\ Recent(a) = recent
    BY <1>2, RecentIsLetThrough DEF LimiterInv
  <2>2. LetThroughOf(a, Len(calls))' =
          passed \cup IF a = actor /\ Counts(r, reply) THEN {mark} ELSE {}
    BY ServedLetThrough
  <2> HIDE DEF passed, mark
  <2>3. CASE ~r.authentic /\ events' = events
    BY <1>0, <2>1, <2>2, <2>3 DEF Counts
  <2>4. CASE /\ r.authentic /\ reply.error = "RATE_LIMITED"
             /\ events' = [events EXCEPT ![actor] = Recent(actor)]
    <3>1. events'[a] = IF a = actor THEN recent ELSE events[a]
      BY <2>1, <2>4 DEF ApiTypeOK
    <3> QED
      BY <1>0, <2>1, <2>2, <2>4, <3>1 DEF Counts
  <2>5. CASE Admit(actor, r) /\ reply.error # "RATE_LIMITED"
    <3>1. events'[a] = IF a = actor THEN recent \cup {mark} ELSE events[a]
      BY <1>2, <2>1, <2>5 DEF Admit, ApiTypeOK, mark
    <3>2. Counts(r, reply)
      BY <2>5 DEF Admit, Counts
    <3> QED
      BY <1>0, <2>1, <2>2, <3>1, <3>2
  <2> QED
    BY <2>3, <2>4, <2>5 DEF Served, LimiterStep
<1> QED
  BY <1>1, <1>2 DEF LimiterInv, Limiting

\* Earlier verdicts stand; the new one is the limiter's, on what the limiter remembers.
LEMMA ServedWindowExact ==
  ASSUME ApiTypeOK, LimiterInv, WindowExact, NEW actor \in Actor, NEW r \in Request, NEW reply,
         Served(actor, r, reply)
  PROVE  WindowExact'
<1>0. /\ Id = Len(calls) + 1 /\ Len(calls') = Id /\ Len(calls) \in Nat
      /\ calls'[Id].actor = actor /\ calls'[Id].request = r /\ calls'[Id].at = now
      /\ calls'[Id].reply = reply
      /\ \A i \in 1..Len(calls) : calls'[i] = calls[i] /\ calls[i] \in Call
      /\ since' = since /\ since \in 0..Len(calls)
  BY ServedSteps DEF Served, ApiTypeOK
<1> DEFINE Exact(i) ==
             Authentic(i) => (LetThrough(i) <=> Cardinality(CountedBefore(i)) < Limit(calls[i].request.action))
<1>1. ASSUME Limiting, NEW i \in since+1..Len(calls) PROVE Exact(i)'
  <2>1. i \in 1..Len(calls) /\ i - 1 \in 0..Len(calls) /\ calls[i].actor \in Actor
    BY <1>0 DEF Call
  <2>2. LetThroughOf(calls[i].actor, i - 1)' = LetThroughOf(calls[i].actor, i - 1)
    <3>1. PICK a \in Actor : a = calls[i].actor
      BY <2>1
    <3>2. LetThroughOf(a, i - 1)' = LetThroughOf(a, i - 1)
      BY <2>1, ServedLetThrough
    <3> QED
      BY <1>0, <2>1, <3>1, <3>2 DEF LetThroughOf, LetThrough, Authentic
  <2>3. CountedBefore(i)' = CountedBefore(i)
    BY <1>0, <2>1, <2>2 DEF CountedBefore
  <2>4. Exact(i)
    BY <1>1 DEF WindowExact
  <2> QED
    BY <1>0, <2>1, <2>3, <2>4 DEF Authentic, LetThrough, Limit
<1>2. ASSUME Limiting, NEW n \in Nat, n = Id PROVE Exact(n)'
  <2>0. calls'[n].actor = actor /\ calls'[n].request = r /\ calls'[n].at = now
        /\ calls'[n].reply = reply /\ n - 1 = Len(calls) /\ n - 1 \in 0..Len(calls)
    BY <1>0, <1>2
  <2>1. CountedBefore(n)' = Recent(actor)
    <3>1. LetThroughOf(actor, n - 1)' = LetThroughOf(actor, n - 1)
      BY <2>0, ServedLetThrough
    <3>2. LetThroughOf(calls[n].actor, n - 1)' = LetThroughOf(actor, n - 1)'
      BY <2>0 DEF LetThroughOf, LetThrough, Authentic
    <3>3. CountedBefore(n)' = {e \in LetThroughOf(actor, n - 1) : e.at + Window > now}
      BY <2>0, <3>1, <3>2 DEF CountedBefore
    <3> QED
      BY <1>2, <2>0, <3>3, RecentIsLetThrough
  <2>2. r.authentic => (reply.error # "RATE_LIMITED" <=> UnderLimit(actor, r.action))
    BY DEF Served, LimiterStep, Admit
  <2>3. Limit(calls[n].request.action)' = Limit(r.action)
    BY <2>0 DEF Limit
  <2>4. Cardinality(CountedBefore(n))' = Cardinality(Recent(actor))
    BY <2>1
  <2> QED
    BY <1>2, <2>0, <2>2, <2>3, <2>4 DEF UnderLimit, Authentic, LetThrough
<1>3. ASSUME Limiting, NEW i \in (since+1..Len(calls))' PROVE Exact(i)'
  BY <1>0, <1>1, <1>2, <1>3
<1> QED
  BY <1>0, <1>3 DEF WindowExact, Limiting

LEMMA NextLimiter ==
  ApiTypeOK /\ LimiterInv /\ WindowExact /\ [Next]_vars => (LimiterInv /\ WindowExact)'
<1> SUFFICES ASSUME ApiTypeOK, LimiterInv, WindowExact, [Next]_vars
             PROVE  LimiterInv' /\ WindowExact'
  OBVIOUS
<1>1. ASSUME NEW actor \in Actor, NEW r \in Request, Serve(actor, r)
      PROVE  LimiterInv' /\ WindowExact'
  BY <1>1, ServeIsServed, ServedKeepsLimiter, ServedWindowExact
<1>2. CASE Tick
  <2>1. /\ calls' = calls /\ events' = events /\ since' = since /\ now' = now + 1 /\ now \in Nat
        /\ Window \in Nat
    BY <1>2, NumberAssumption DEF Tick, ApiTypeOK
  <2>2. \A i \in 1..Len(calls') : calls'[i].at <= now'
    <3>1. \A i \in 1..Len(calls) : calls[i] \in Call
      BY DEF ApiTypeOK
    <3> QED
      BY <2>1, <3>1 DEF LimiterInv, Call
  <2>3. \A a \in Actor : LetThroughOf(a, Len(calls))' = LetThroughOf(a, Len(calls))
    BY <2>1 DEF LetThroughOf, LetThrough, Authentic
  <2>4. LimiterInv'
    BY <2>1, <2>2, <2>3, LetThroughTimes DEF LimiterInv, Limiting
  <2>5. WindowExact'
    BY <2>1 DEF WindowExact, CountedBefore, LetThroughOf, LetThrough, Authentic, Limiting, Limit
  <2> QED
    BY <2>4, <2>5
<1>3. CASE Restart
  <2>1. calls' = calls /\ now' = now /\ since' = Len(calls) /\ Len(calls) \in Nat
    BY <1>3 DEF Restart, ApiTypeOK
  <2>2. \A a \in Actor : LetThroughOf(a, Len(calls))' = {} /\ events'[a] = {}
    BY <1>3, <2>1 DEF Restart, LetThroughOf
  <2> QED
    BY <2>1, <2>2 DEF LimiterInv, WindowExact, Limiting
<1>4. CASE UNCHANGED vars
  BY <1>4 DEF vars, LimiterInv, WindowExact, CountedBefore, LetThroughOf, LetThrough, Authentic,
              Limiting, Limit
<1> QED
  BY <1>1, <1>2, <1>3, <1>4 DEF Next

\* src/src/safety_controls.py:82.  At every limit, window and interleaving of actors and restarts
\* the limiter turns away exactly the requests over the limit of their window (WindowExact).
THEOREM LimiterExact == Spec => []WindowExact
<1>1. Init => ApiTypeOK /\ LimiterInv /\ WindowExact
  BY InitType, InitLimiter
<1>2. /\ ApiTypeOK /\ LimiterInv /\ WindowExact /\ [Next]_vars
      => (ApiTypeOK /\ LimiterInv /\ WindowExact)'
  BY NextType, NextLimiter
<1> QED
  BY <1>1, <1>2, PTL DEF Spec

-----------------------------------------------------------------------------
(***************************************************************************)
(* The tokens of the API are one-shot offers.                              *)
(***************************************************************************)
Uses(n) == {i \in 1..Len(calls) :
              i > n /\ calls[i].reply.run # None /\ calls[i].reply.run.under = n}
UsedBy(reply, n) == reply.run # None /\ reply.run.under = n /\ n < Id

LEMMA TokensLapse ==
  ASSUME Offered' = Offered, Performed' = Performed, OpenTokens' \subseteq OpenTokens
  PROVE  Tokens!Next
<1> DEFINE gone == OpenTokens \ OpenTokens'
<1>1. gone \in SUBSET Number /\ OpenTokens' = OpenTokens \ gone
  BY DEF OpenTokens
<1> HIDE DEF gone
<1>2. Tokens!Lapse(gone)
  BY <1>1 DEF Tokens!Lapse
<1> QED
  BY <1>1, <1>2 DEF Tokens!Next

LEMMA InitPromises == Init => Tokens!Init
<1> SUFFICES ASSUME Init PROVE Tokens!Init
  OBVIOUS
<1>1. Len(calls) = 0 /\ \A n \in Number : store[n] = None
  BY DEF Init
<1>2. \A n \in Number : Uses(n) = {}
  BY <1>1 DEF Uses
<1>3. Performed = [n \in Number |-> 0]
  BY <1>2, FS_EmptySet DEF Performed, Uses
<1>4. Offered = {} /\ OpenTokens = {}
  BY <1>1 DEF Offered, OpenTokens, IsLive, IsPending
<1> QED
  BY <1>3, <1>4 DEF Tokens!Init

LEMMA ServedOffers ==
  ASSUME ApiTypeOK, NEW actor \in Actor, NEW r \in Request, NEW reply, Served(actor, r, reply)
  PROVE  Offered' = Offered \cup IF reply.status = "pending" THEN {Id} ELSE {}
  BY ServedSteps DEF Offered

\* A request that runs an action under an earlier token counts once more for that token.
LEMMA ServedPerforms ==
  ASSUME ApiTypeOK, NEW actor \in Actor, NEW r \in Request, NEW reply, Served(actor, r, reply)
  PROVE  /\ \A n \in Number : Performed[n] \in Nat
         /\ Performed' =
              [n \in Number |-> IF UsedBy(reply, n) THEN Performed[n] + 1 ELSE Performed[n]]
<1>0. /\ Id = Len(calls) + 1 /\ Len(calls') = Id /\ Len(calls) \in Nat
      /\ calls'[Id].reply = reply
      /\ \A i \in 1..Len(calls) : calls'[i] = calls[i]
  BY ServedSteps
<1>1. ASSUME NEW n \in Number
      PROVE  /\ IsFiniteSet(Uses(n)) /\ Id \notin Uses(n)
             /\ Uses(n)' = Uses(n) \cup IF UsedBy(reply, n) THEN {Id} ELSE {}
  <2>1. IsFiniteSet(1..Len(calls))
    BY <1>0, FS_Interval
  <2>2. Uses(n) \subseteq 1..Len(calls)
    BY DEF Uses
  <2>3. Uses(n)' = Uses(n) \cup IF UsedBy(reply, n) THEN {Id} ELSE {}
    BY <1>0 DEF Uses, UsedBy, Number
  <2> QED
    BY <1>0, <2>1, <2>2, <2>3, FS_Subset
<1>2. ASSUME NEW n \in Number
      PROVE  /\ Cardinality(Uses(n)) \in Nat
             /\ Cardinality(Uses(n))' =
                  IF UsedBy(reply, n) THEN Cardinality(Uses(n)) + 1 ELSE Cardinality(Uses(n))
  <2>1. Cardinality(Uses(n)) \in Nat
    BY <1>1, FS_CardinalityType
  <2>2. Cardinality(Uses(n) \cup {Id}) = Cardinality(Uses(n)) + 1
    BY <1>1, FS_AddElement
  <2>3. Uses(n) \cup {} = Uses(n)
    OBVIOUS
  <2> QED
    BY <1>1, <2>1, <2>2, <2>3
<1>3. /\ Performed = [n \in Number |-> Cardinality(Uses(n))]
      /\ Performed' = [n \in Number |-> Cardinality(Uses(n))']
  BY DEF Performed, Uses
<1> QED
  BY <1>2, <1>3

LEMMA ServedRefines ==
  ASSUME ApiTypeOK, TokenInv, NEW actor \in Actor, NEW r \in Request, NEW reply,
         Served(actor, r, reply)
  PROVE  [Tokens!Next]_(Tokens!vars)
<1>0. Id = Len(calls) + 1 /\ Id \in Number /\ Len(calls) \in Nat /\ now' = now
  BY ServedSteps DEF Served
<1> DEFINE Quiet == reply.status # "pending" /\ \A n \in Number : ~UsedBy(reply, n)
<1>1. ASSUME Quiet PROVE Offered' = Offered /\ Performed' = Performed
  <2>1. Performed = [n \in Number |-> Performed[n]]
    BY DEF Performed
  <2> QED
    BY <1>1, <2>1, ServedOffers, ServedPerforms
<1>2. reply.run = None => \A n \in Number : ~UsedBy(reply, n)
  BY DEF UsedBy
<1>3. CASE store' = store /\ Quiet
  <2>1. OpenTokens' = OpenTokens
    BY <1>0, <1>3 DEF OpenTokens, IsLive, IsPending
  <2> QED
    BY <1>1, <1>3, <2>1, TokensLapse
<1>4. CASE Proposed(actor, r, reply)
  <2>1. Id \notin Offered
    BY <1>0 DEF Offered
  <2>2. Offered' = Offered \cup {Id}
    BY <1>4, ServedOffers DEF Proposed
  <2>3. Performed' = Performed
    <3>1. Performed = [n \in Number |-> Performed[n]]
      BY DEF Performed
    <3> QED
      BY <1>2, <1>4, <3>1, ServedPerforms DEF Proposed
  <2>4. OpenTokens' = OpenTokens \cup {Id}
    <3> DEFINE record == Offer(actor, r)
    <3>1. store'[Id] = record /\ \A n \in Number \ {Id} : store'[n] = store[n]
      BY <1>0, <1>4 DEF Proposed, ApiTypeOK
    <3>2. record \in Record
      BY <1>0, <1>4, OfferIsRecord DEF Proposed
    <3>3. store'[Id] # None /\ store'[Id].status = "pending" /\ store'[Id].expires = now + Lifetime
      BY <3>1, <3>2, NoneAssumption DEF Offer
    <3>4. now <= now + Lifetime
      BY NumberAssumption DEF ApiTypeOK
    <3> HIDE DEF record
    <3>5. \A n \in Number : IsLive(n)' <=> IsLive(n) \/ n = Id
      BY <1>0, <3>1, <3>3, <3>4 DEF IsLive, IsPending
    <3> QED
      BY <1>0, <3>5 DEF OpenTokens
  <2>5. Tokens!Offer(Id)
    BY <2>1, <2>2, <2>3, <2>4 DEF Tokens!Offer
  <2> QED
    BY <1>0, <2>5 DEF Tokens!Next
<1>5. ASSUME NEW n \in Number, NEW status \in {"expired", "cancelled", "confirmed"},
             Settled(n, status)
      PROVE  OpenTokens' = OpenTokens \ {n}
  <2>1. store[n] \in Record
    BY <1>5 DEF Settled, IsPending, ApiTypeOK
  <2>2. /\ store'[n] = [store[n] EXCEPT !.status = status]
        /\ \A m \in Number \ {n} : store'[m] = store[m]
    BY <1>5 DEF Settled, Settle, ApiTypeOK
  <2>3. store'[n].status # "pending"
    BY <2>1, <2>2 DEF Record
  <2>4. \A m \in Number : IsLive(m)' <=> IsLive(m) /\ m # n
    BY <1>0, <2>2, <2>3 DEF IsLive, IsPending
  <2> QED
    BY <2>4 DEF OpenTokens
<1>6. ASSUME NEW n \in Number, NEW status \in {"expired", "cancelled"}, Settled(n, status), Quiet
      PROVE  [Tokens!Next]_(Tokens!vars)
  BY <1>1, <1>5, <1>6, TokensLapse
<1>7. ASSUME reply.run # None PROVE [Tokens!Next]_(Tokens!vars)
  <2>1. CASE reply.run.under = Id /\ reply.status # "pending" /\ store' = store
    <3>1. Quiet
      BY <1>0, <2>1 DEF UsedBy, Number
    <3> QED
      BY <1>3, <2>1, <3>1
  <2>2. ASSUME NEW ending \in Ending, Confirmed(actor, r, ending, reply),
               reply.run.under = TokenOf(r), reply.status # "pending"
        PROVE  [Tokens!Next]_(Tokens!vars)
    <3>1. TokenOf(r) \in Number /\ IsLive(TokenOf(r)) /\ Settled(TokenOf(r), "confirmed")
      BY <2>2 DEF Confirmed
    <3>2. TokenOf(r) \in OpenTokens /\ OpenTokens' = OpenTokens \ {TokenOf(r)}
      BY <1>5, <3>1 DEF OpenTokens
    <3>3. TokenOf(r) < Id
      BY <1>0, <3>1 DEF TokenInv, IsLive, IsPending, Number
    <3>4. \A n \in Number : UsedBy(reply, n) <=> n = TokenOf(r)
      BY <1>7, <2>2, <3>3 DEF UsedBy
    <3>5. Performed' = [Performed EXCEPT ![TokenOf(r)] = @ + 1]
      <4>1. Performed = [n \in Number |-> Performed[n]]
        BY DEF Performed
      <4>2. Performed' = [n \in Number |-> IF n = TokenOf(r) THEN Performed[n] + 1 ELSE Performed[n]]
        BY <3>4, ServedPerforms
      <4> QED
        BY <3>1, <4>1, <4>2
    <3>6. Offered' = Offered
      BY <2>2, ServedOffers
    <3>7. Tokens!Perform(TokenOf(r))
      BY <3>2, <3>5, <3>6 DEF Tokens!Perform
    <3> QED
      BY <3>1, <3>7 DEF Tokens!Next
  <2> QED
    BY <1>7, <2>1, <2>2, ServedRuns
<1>8. ASSUME reply.run = None PROVE [Tokens!Next]_(Tokens!vars)
  <2>1. ~\E ending \in Ending : RanAtOnce(r, ending, reply) \/ Confirmed(actor, r, ending, reply)
    <3>1. ASSUME NEW ending \in Ending, RanAtOnce(r, ending, reply) PROVE reply.run # None
      BY <1>0, <3>1, AtOnceIsReply DEF RanAtOnce, AnswersRun
    <3>2. ASSUME NEW ending \in Ending, Confirmed(actor, r, ending, reply) PROVE reply.run # None
      <4>1. store[TokenOf(r)] \in Record /\ TokenOf(r) \in Number
        BY <3>2 DEF Confirmed, IsLive, IsPending, ApiTypeOK
      <4> QED
        BY <3>2, <4>1, ResumedIsReply DEF Confirmed, AnswersRun
    <3> QED
      BY <1>8, <3>1, <3>2
  <2> QED
    BY <1>2, <1>3, <1>4, <1>6, <1>8, <2>1 DEF Served, TokenStep
<1> QED
  BY <1>7, <1>8

LEMMA NextRefines ==
  ASSUME ApiTypeOK, TokenInv, [Next]_vars PROVE [Tokens!Next]_(Tokens!vars)
<1>1. ASSUME NEW actor \in Actor, NEW r \in Request, Serve(actor, r)
      PROVE  [Tokens!Next]_(Tokens!vars)
  BY <1>1, ServeIsServed, ServedRefines
<1>2. CASE Tick
  <2>1. Offered' = Offered /\ Performed' = Performed
    BY <1>2 DEF Tick, Offered, Performed
  <2>2. \A n \in Number : store[n] # None => store[n].expires \in Nat
    BY DEF ApiTypeOK, Record
  <2>3. OpenTokens' \subseteq OpenTokens
    BY <1>2, <2>2, NumberAssumption DEF Tick, OpenTokens, IsLive, IsPending, ApiTypeOK
  <2> QED
    BY <2>1, <2>3, TokensLapse
<1>3. CASE Restart
  <2>1. Offered' = Offered /\ Performed' = Performed
    BY <1>3 DEF Restart, Offered, Performed
  <2>2. OpenTokens' = {}
    BY <1>3 DEF Restart, OpenTokens, IsLive, IsPending
  <2> QED
    BY <2>1, <2>2, TokensLapse
<1>4. CASE UNCHANGED vars
  BY <1>4 DEF vars, Offered, Performed, OpenTokens, IsLive, IsPending, Tokens!vars
<1> QED
  BY <1>1, <1>2, <1>3, <1>4 DEF Next

\* src/docs/development-plan.xml:110.  With the limiter, the guard, other actors and restarts
\* around them, the tokens of the API are offers taken up at most once and never after they lapsed
\* (ApiImplementsOneShot).
THEOREM ApiRefinement == Spec => ApiImplementsOneShot
<1>1. Spec => [](ApiTypeOK /\ TokenInv)
  <2>1. Init => ApiTypeOK /\ TokenInv /\ RanAsConfirmed
    BY InitType, InitTokens
  <2>2. /\ ApiTypeOK /\ TokenInv /\ RanAsConfirmed /\ [Next]_vars
        => (ApiTypeOK /\ TokenInv /\ RanAsConfirmed)'
    BY NextType, NextTokens
  <2> QED
    BY <2>1, <2>2, PTL DEF Spec
<1>2. ApiTypeOK /\ TokenInv /\ [Next]_vars => [Tokens!Next]_(Tokens!vars)
  BY NextRefines
<1> QED
  BY <1>1, <1>2, InitPromises, PTL DEF Spec, ApiImplementsOneShot, Tokens!Spec
=============================================================================
