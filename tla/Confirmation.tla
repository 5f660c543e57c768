----------------------------- MODULE Confirmation -----------------------------
(***************************************************************************)
(* The confirmation tokens of src/src/confirmation_state.py and the        *)
(* handler confirm_action of src/src/ocserv_admin_api.py.                  *)
(*                                                                         *)
(* A destructive request is stored under a fresh token and its payload is  *)
(* executed when the token is confirmed; the token stands for the payload. *)
(* The WSGI server handles one request at a time.  A request that changes  *)
(* no record (unknown or used token, wrong actor, context that does not    *)
(* match, rejected payload) is a stuttering step.                          *)
(***************************************************************************)
EXTENDS Naturals

CONSTANTS
  Token,      \* uuid4 values
  Actor,      \* actor ids a request may name
  Lifetime,   \* expires_in_seconds, in ticks of the clock
  MaxTime,    \* bound: last tick of the clock
  NoRecord,   \* the store holds no record under a token
  NoToken,    \* no request is being served
  Torn        \* confirmations.json was cut off by a crash in the middle of a write

Status   == {"pending", "confirmed", "cancelled", "expired"}
Decision == {"confirm", "cancel", "anything else"}
Record   == [status : Status, owner : Actor, expires : Nat]
Table    == [Token -> Record \cup {NoRecord}]
NoTable  == [t \in Token |-> NoRecord]

ASSUME NumberAssumption == Lifetime \in Nat /\ MaxTime \in Nat
ASSUME AtomAssumption   == NoRecord \notin Record /\ NoToken \notin Token /\ Torn \notin Table

VARIABLES
  persistent,  \* OCSERV_ADMIN_CONFIRMATION_STORE = file
  records,     \* the store's dictionary
  file,        \* confirmations.json, or Torn; a missing file holds no record
  now,         \* the clock
  pc,          \* idle, flush (the store writes its file), execute (the handler is about to
               \* run the confirmed action)
  current      \* the token being served

\* History.
VARIABLES
  issued,      \* tokens ever created
  cancelled,   \* tokens whose operator was told that they are cancelled
  executed     \* how often the action behind each token ran

vars == <<persistent, records, file, now, pc, current, issued, cancelled, executed>>

Init ==
  /\ persistent \in BOOLEAN
  /\ records = NoTable /\ file = NoTable
  /\ now = 0
  /\ pc = "idle" /\ current = NoToken
  /\ issued = {} /\ cancelled = {}
  /\ executed = [t \in Token |-> 0]

\* The records a file keeps, both when it is written and when it is read at some time.
Fresh(table, time) ==
  [t \in Token |-> IF table[t] # NoRecord /\ table[t].expires < time THEN NoRecord ELSE table[t]]
Loaded_Unchecked(f, time) == IF f = Torn THEN f ELSE Fresh(f, time)
Loaded(f, time) == IF f = Torn THEN NoTable ELSE Fresh(f, time)

-----------------------------------------------------------------------------
\* What follows when the record of t is stored: the handler goes on to execute a
\* confirmed action, every other outcome is answered at once.
After(t, status) ==
  IF status = "confirmed"
  THEN pc' = "execute" /\ current' = t /\ UNCHANGED cancelled
  ELSE /\ pc' = "idle" /\ current' = NoToken
       /\ cancelled' = IF status = "cancelled" THEN cancelled \cup {t} ELSE cancelled

\* put and update: the dictionary first, then the file of a persistent store.
Store(t, record) ==
  /\ records' = [records EXCEPT ![t] = record]
  /\ IF persistent THEN pc' = "flush" /\ current' = t /\ UNCHANGED cancelled
     ELSE After(t, record.status)

\* createPendingConfirmation, for a destructive request without a token.
Propose_NotFlushed(t, owner) ==
  /\ pc = "idle" /\ t \notin issued
  /\ records' = [records EXCEPT ![t] =
                   [status |-> "pending", owner |-> owner, expires |-> now + Lifetime]]
  /\ After(t, "pending")
  /\ issued' = issued \cup {t}
  /\ UNCHANGED <<persistent, file, now, executed>>
Propose(t, owner) ==
  /\ pc = "idle" /\ t \notin issued
  /\ Store(t, [status |-> "pending", owner |-> owner, expires |-> now + Lifetime])
  /\ issued' = issued \cup {t}
  /\ UNCHANGED <<persistent, file, now, executed>>

\* resolvePendingConfirmation, for a record that is pending.
Pending(table, t) == table[t] # NoRecord /\ table[t].status = "pending"
Resolve(t, status) ==
  /\ pc = "idle" /\ Pending(records, t)
  /\ Store(t, [records[t] EXCEPT !.status = status])
  /\ UNCHANGED <<persistent, file, now, issued, executed>>

\* Expiry is looked at before the actor and the decision.
Expire(t) == Pending(records, t) /\ now > records[t].expires /\ Resolve(t, "expired")

Cancel_NotFlushed(t, by) ==
  /\ pc = "idle" /\ Pending(records, t)
  /\ now <= records[t].expires /\ records[t].owner = by
  /\ records' = [records EXCEPT ![t].status = "cancelled"]
  /\ After(t, "cancelled")
  /\ UNCHANGED <<persistent, file, now, issued, executed>>
Cancel(t, by) ==
  /\ Pending(records, t)
  /\ now <= records[t].expires /\ records[t].owner = by
  /\ Resolve(t, "cancelled")

\* Whatever is not "cancel" confirms.
Confirm_ExecutesFirst(t, by, decision) ==
  /\ pc = "idle" /\ Pending(records, t)
  /\ now <= records[t].expires /\ records[t].owner = by /\ decision # "cancel"
  /\ records' = [records EXCEPT ![t].status = "confirmed"]
  /\ After(t, "confirmed")
  /\ UNCHANGED <<persistent, file, now, issued, executed>>
Confirm_NoExpiry(t, by, decision) ==
  /\ Pending(records, t)
  /\ records[t].owner = by /\ decision # "cancel"
  /\ Resolve(t, "confirmed")
Confirm(t, by, decision) ==
  /\ Pending(records, t)
  /\ now <= records[t].expires /\ records[t].owner = by /\ decision # "cancel"
  /\ Resolve(t, "confirmed")

\* _flush: write_text replaces the whole file.
Flush ==
  /\ pc = "flush"
  /\ file' = Fresh(records, now)
  /\ After(current, records[current].status)
  /\ UNCHANGED <<persistent, records, now, issued, executed>>

\* The handler runs the action of the token, whether or not that succeeds.
Execute ==
  /\ pc = "execute"
  /\ executed' = [executed EXCEPT ![current] = @ + 1]
  /\ pc' = "idle" /\ current' = NoToken
  /\ UNCHANGED <<persistent, records, file, now, issued, cancelled>>

Tick ==
  /\ now < MaxTime
  /\ now' = now + 1
  /\ UNCHANGED <<persistent, records, file, pc, current, issued, cancelled, executed>>

\* The process dies, at any step, and starts again.
Crash ==
  /\ file' \in {file} \cup (IF pc = "flush" THEN {Fresh(records, now), Torn} ELSE {})
  /\ records' = IF persistent THEN Loaded(file', now) ELSE NoTable
  /\ pc' = "idle" /\ current' = NoToken
  /\ UNCHANGED <<persistent, now, issued, cancelled, executed>>

Next ==
  \/ \E t \in Token, by \in Actor :
       \/ Propose(t, by)
       \/ Cancel(t, by)
       \/ \E decision \in Decision : Confirm(t, by, decision)
  \/ \E t \in Token : Expire(t)
  \/ Flush \/ Execute \/ Tick \/ Crash

Spec == Init /\ [][Next]_vars

-----------------------------------------------------------------------------
\* Every variable holds what the code can put in it; the store never holds what a torn
\* file would parse to.
TypeOK ==
  /\ persistent \in BOOLEAN
  /\ records \in Table /\ file \in Table \cup {Torn}
  /\ now \in 0..MaxTime
  /\ pc \in {"idle", "flush", "execute"}
  /\ current \in Token \cup {NoToken} /\ (pc = "idle" <=> current = NoToken)
  /\ issued \subseteq Token /\ cancelled \subseteq Token
  /\ executed \in [Token -> Nat]

\* src/docs/verification-plan.xml:209: a resolved token is not accepted a second time.  The
\* action behind a token runs at most once, wherever the process dies between the
\* confirmation and the execution.
ExecutedAtMostOnce == \A t \in Token : executed[t] <= 1

\* An operator who was told that a request is cancelled never sees it executed, not even
\* when the process restarts and reads the file again.
CancelIsFinal == \A t \in cancelled : executed[t] = 0

\* Between requests a restart of a persistent store keeps exactly the tokens that can
\* still be confirmed, no more and no fewer.
RestartKeepsOpen ==
  persistent /\ pc = "idle" =>
    \A t \in Token : Pending(Loaded(file, now), t) <=> Pending(Fresh(records, now), t)

\* What makes these hold, step by step: a token that was used or cancelled is alive
\* nowhere, and only the token being written may be staler in the file than in memory.
InFlight(t) == t = current /\ records[t] # NoRecord /\ records[t].status = "confirmed"
Alive(t)    == Pending(records, t) \/ Pending(Loaded(file, now), t) \/ InFlight(t)

TokenInv(t) ==
  /\ t \notin issued => /\ records[t] = NoRecord /\ Loaded(file, now)[t] = NoRecord
                        /\ executed[t] = 0 /\ t \notin cancelled
  /\ executed[t] <= 1
  /\ executed[t] # 0 \/ t \in cancelled => ~Alive(t)
  /\ t \in cancelled => executed[t] = 0
  /\ Pending(Loaded(file, now), t) => Pending(records, t) \/ (pc = "flush" /\ t = current)

ServingInv ==
  /\ ~persistent => file = NoTable /\ pc # "flush"
  /\ pc = "flush" => records[current] # NoRecord /\ executed[current] = 0
                       /\ current \notin cancelled
  /\ pc = "execute" => InFlight(current)

StoreInv == TypeOK /\ ServingInv /\ \A t \in Token : TokenInv(t)

\* The tokens that may still lead to an execution: pending in the store or in the file a
\* restart would read, or confirmed and being served.
Open ==
  {t \in Token : \/ Pending(Fresh(records, now), t)
                 \/ Pending(Loaded(file, now), t)
                 \/ InFlight(t)}

\* Expired, cancelled, replayed or lost confirmations never reach execution: with these
\* tokens open, the store implements OneShot.
Promise == INSTANCE OneShot WITH offered <- issued, open <- Open, performed <- executed
ImplementsOneShot == Promise!Spec
=============================================================================
