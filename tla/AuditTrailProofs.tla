---------------------------- MODULE AuditTrailProofs ----------------------------
(***************************************************************************)
(* The audit log says what was done, no more and no less, and leaves a     *)
(* trace of what went wrong, for every set of actors, targets and requests.*)
(***************************************************************************)
EXTENDS AuditTrail, AdminApiProofs

Command  == Action \cup {"restart_service", "health_check", "show_sessions", None}
LineType == [request : Number \cup {NoId}, actor : Actor \cup {None}, command : Command,
             result : Result, coded : BOOLEAN]
Trail    == Seq(LineType)

\* A line that says a change was made, and a log without one.
SaysChange(line) == line.result = "ok" /\ line.command \in Changes
Quiet(lines)     == \A k \in 1..Len(lines) : ~SaysChange(lines[k])
HasError(lines)  == \E k \in 1..Len(lines) : _should_write_error_log(lines[k])

-----------------------------------------------------------------------------
(***************************************************************************)
(* Putting lines together.                                                 *)
(***************************************************************************)
LEMMA Joined ==
  ASSUME NEW S, NEW a \in Seq(S), NEW b \in Seq(S)
  PROVE  /\ a \o b \in Seq(S) /\ Len(a \o b) = Len(a) + Len(b)
         /\ Len(a) \in Nat /\ Len(b) \in Nat
         /\ \A k \in 1..Len(a) : k \in 1..Len(a \o b) /\ (a \o b)[k] = a[k]
         /\ \A k \in 1..Len(b) : /\ Len(a) + k \in 1..Len(a \o b)
                                 /\ (a \o b)[Len(a) + k] = b[k]
         /\ \A k \in 1..Len(a \o b) :
              \/ k \in 1..Len(a) /\ (a \o b)[k] = a[k]
              \/ \E j \in 1..Len(b) : (a \o b)[k] = b[j]
<1>1. Len(a) \in Nat /\ Len(b) \in Nat /\ a \o b \in Seq(S) /\ Len(a \o b) = Len(a) + Len(b)
  OBVIOUS
<1>2. \A k \in 1..Len(a) : (a \o b)[k] = a[k]
  OBVIOUS
<1>3. \A k \in 1..Len(b) : Len(a) + k \in 1..Len(a \o b) /\ (a \o b)[Len(a) + k] = b[k]
  BY <1>1
<1>4. ASSUME NEW k \in 1..Len(a \o b), k \notin 1..Len(a)
      PROVE  \E j \in 1..Len(b) : (a \o b)[k] = b[j]
  <2>1. k - Len(a) \in 1..Len(b) /\ k = Len(a) + (k - Len(a))
    BY <1>1, <1>4
  <2> QED
    BY <1>3, <2>1
<1> QED
  BY <1>1, <1>2, <1>3, <1>4

LEMMA JoinedQuiet ==
  ASSUME NEW a \in Trail, NEW b \in Trail, Quiet(a), Quiet(b)
  PROVE  a \o b \in Trail /\ Quiet(a \o b)
  BY Joined DEF Quiet, Trail

LEMMA JoinedError ==
  ASSUME NEW a \in Trail, NEW b \in Trail, HasError(a) \/ HasError(b)
  PROVE  a \o b \in Trail /\ HasError(a \o b)
<1>1. CASE HasError(a)
  BY <1>1, Joined DEF HasError, Trail
<1>2. CASE HasError(b)
  <2>1. PICK k \in 1..Len(b) : _should_write_error_log(b[k])
    BY <1>2 DEF HasError
  <2>2. Len(a) + k \in 1..Len(a \o b) /\ (a \o b)[Len(a) + k] = b[k] /\ a \o b \in Trail
    BY Joined DEF Trail
  <2> QED
    BY <2>1, <2>2 DEF HasError
<1> QED
  BY <1>1, <1>2

LEMMA NoLines == <<>> \in Trail /\ Quiet(<<>>) /\ Len(<<>>) = 0
  BY DEF Trail, Quiet

\* One line, whether it carries an error code or not.
Writes(lines, id, actor, command, result) ==
  \E line \in LineType : /\ lines = <<line>>
                         /\ line.request = id /\ line.actor = actor /\ line.command = command
                         /\ line.result = result

LEMMA LineWrites ==
  ASSUME NEW id \in Number \cup {NoId}, NEW actor \in Actor \cup {None},
         NEW command \in Command, NEW result \in Result
  PROVE  /\ Writes(Line(id, actor, command, result, TRUE), id, actor, command, result)
         /\ Writes(Line(id, actor, command, result, FALSE), id, actor, command, result)
<1> DEFINE Coded(coded) == [request |-> id, actor |-> actor, command |-> command, result |-> result,
                            coded |-> coded]
<1>1. Coded(TRUE) \in LineType /\ Coded(FALSE) \in LineType
  BY DEF LineType
<1>2. /\ Line(id, actor, command, result, TRUE) = <<Coded(TRUE)>>
      /\ Line(id, actor, command, result, FALSE) = <<Coded(FALSE)>>
  BY DEF Line
<1> QED
  BY <1>1, <1>2 DEF Writes

LEMMA OneLine ==
  ASSUME NEW lines, NEW id, NEW actor, NEW command, NEW result,
         Writes(lines, id, actor, command, result)
  PROVE  /\ lines \in Trail /\ Len(lines) = 1
         /\ lines[1].request = id /\ lines[1].actor = actor /\ lines[1].command = command
         /\ lines[1].result = result
         /\ result # "ok" \/ command \notin Changes => Quiet(lines)
<1>1. PICK line \in LineType : /\ lines = <<line>>
                              /\ line.request = id /\ line.actor = actor /\ line.command = command
                              /\ line.result = result
  BY DEF Writes
<1>2. lines \in Trail /\ Len(lines) = 1 /\ lines[1] = line
  BY <1>1 DEF Trail
<1>3. result # "ok" \/ command \notin Changes => Quiet(lines)
  BY <1>1, <1>2 DEF Quiet, SaysChange
<1> QED
  BY <1>1, <1>2, <1>3

LEMMA TroubleLine ==
  ASSUME NEW id, NEW actor, NEW command, NEW result
  PROVE  /\ HasError(Line(id, actor, command, result, TRUE))
         /\ result \in ERROR_RESULTS => HasError(Line(id, actor, command, result, FALSE))
  BY DEF HasError, Line, _should_write_error_log

\* What Ran writes of a command that ended well, or badly.
LEMMA RanWell ==
  ASSUME NEW id \in Number, NEW actor \in Actor, NEW command \in Command, NEW lines,
         lines = Line(id, actor, command, "ok", FALSE)
  PROVE  Writes(lines, id, actor, command, "ok")
BY LineWrites DEF Result

LEMMA RanQuietly ==
  ASSUME NEW id \in Number, NEW actor \in Actor, NEW command \in Command \ Changes, NEW lines,
         lines = Line(id, actor, command, "ok", FALSE)
  PROVE  lines \in Trail /\ Quiet(lines)
<1>1. Writes(lines, id, actor, command, "ok") /\ command \notin Changes
  BY RanWell
<1>2. lines \in Trail /\ (("ok" # "ok" \/ command \notin Changes) => Quiet(lines))
  BY <1>1, OneLine, Zenon
<1> QED
  BY <1>1, <1>2

LEMMA RanBadly ==
  ASSUME NEW id \in Number, NEW actor \in Actor, NEW command \in Command, NEW lines,
         lines = Line(id, actor, command, "failed", TRUE)
  PROVE  lines \in Trail /\ Quiet(lines) /\ HasError(lines)
<1>1. Writes(lines, id, actor, command, "failed")
  BY LineWrites DEF Result
<1>2. HasError(lines)
  BY TroubleLine
<1>3. lines \in Trail /\ (("failed" # "ok" \/ command \notin Changes) => Quiet(lines))
  BY <1>1, OneLine, Zenon
<1> QED
  BY <1>2, <1>3

-----------------------------------------------------------------------------
(***************************************************************************)
(* What a handler writes.                                                  *)
(***************************************************************************)
LEMMA ActivationLines ==
  ASSUME NEW id \in Number, NEW actor \in Actor, NEW command \in Command \ Changes,
         NEW ending \in Ending
  PROVE  /\ Activation(id, actor, command, ending) \in Trail
         /\ Quiet(Activation(id, actor, command, ending))
         /\ ending \in {"invalid", "unreloaded", "unhealthy"}
              => HasError(Activation(id, actor, command, ending))
         /\ Validation(id, actor, ending) \in Trail
         /\ Quiet(Validation(id, actor, ending))
         /\ ending = "invalid" => HasError(Validation(id, actor, ending))
<1> DEFINE check  == Validation(id, actor, ending)
           act    == If(ending # "invalid", Ran(id, actor, command, ending # "unreloaded"))
           health == If(ending \notin {"invalid", "unreloaded"},
                        Ran(id, actor, "health_check", ending # "unhealthy"))
<1>0. /\ {"validate_config", "health_check"} \subseteq Command \ Changes
      /\ Activation(id, actor, command, ending) = check \o act \o health
  BY DEF Command, Changes, Action, ALLOWED_ACTIONS, READ_ACTIONS, DESTRUCTIVE_ACTIONS, Activation
<1>1. check \in Trail /\ Quiet(check) /\ (ending = "invalid" => HasError(check))
  <2>1. CASE ending = "invalid"
    <3>1. check = Line(id, actor, "validate_config", "failed", TRUE)
      BY <2>1 DEF Validation, Ran
    <3> QED
      BY <1>0, <3>1, RanBadly
  <2>2. CASE ending # "invalid"
    <3>1. check = Line(id, actor, "validate_config", "ok", FALSE)
      BY <2>2 DEF Validation, Ran
    <3> QED
      BY <1>0, <2>2, <3>1, RanQuietly
  <2> QED
    BY <2>1, <2>2
<1>2. act \in Trail /\ Quiet(act) /\ (ending = "unreloaded" => HasError(act))
  <2>1. CASE ending = "invalid"
    BY <2>1, NoLines DEF If
  <2>2. CASE ending = "unreloaded"
    <3>1. act = Line(id, actor, command, "failed", TRUE)
      BY <2>2 DEF If, Ran
    <3> QED
      BY <3>1, RanBadly
  <2>3. CASE ending \notin {"invalid", "unreloaded"}
    <3>1. act = Line(id, actor, command, "ok", FALSE)
      BY <2>3 DEF If, Ran
    <3> QED
      BY <2>3, <3>1, RanQuietly
  <2> QED
    BY <2>1, <2>2, <2>3
<1>3. health \in Trail /\ Quiet(health) /\ (ending = "unhealthy" => HasError(health))
  <2>1. CASE ending \in {"invalid", "unreloaded"}
    BY <2>1, NoLines DEF If
  <2>2. CASE ending = "unhealthy"
    <3>1. health = Line(id, actor, "health_check", "failed", TRUE)
      BY <2>2 DEF If, Ran
    <3> QED
      BY <1>0, <3>1, RanBadly
  <2>3. CASE ending \notin {"invalid", "unreloaded", "unhealthy"}
    <3>1. health = Line(id, actor, "health_check", "ok", FALSE)
      BY <2>3 DEF If, Ran
    <3> QED
      BY <1>0, <2>3, <3>1, RanQuietly
  <2> QED
    BY <2>1, <2>2, <2>3
<1> HIDE DEF check, act, health
<1>4. check \o act \in Trail /\ Quiet(check \o act)
  BY <1>1, <1>2, JoinedQuiet
<1>5. check \o act \o health \in Trail /\ Quiet(check \o act \o health)
  BY <1>3, <1>4, JoinedQuiet
<1>6. ending \in {"invalid", "unreloaded"} => HasError(check \o act)
  BY <1>1, <1>2, JoinedError
<1>7. ending \in {"invalid", "unreloaded", "unhealthy"} => HasError(check \o act \o health)
  BY <1>3, <1>4, <1>6, JoinedError
<1> QED
  BY <1>0, <1>1, <1>5, <1>7 DEF check

\* The lines of a handler that say a change was made say it of its own action, and it is so;
\* the lines that say this action was done.
OnlyOwn(lines, actor, action, id, ending) ==
  \A k \in 1..Len(lines) :
    SaysChange(lines[k]) => /\ ending = "ok"
                            /\ lines[k].request = id /\ lines[k].actor = actor
                            /\ lines[k].command = action
SaysDone(lines, action, id) ==
  \E k \in 1..Len(lines) :
    lines[k].request = id /\ lines[k].command = action /\ lines[k].result = "ok"

LEMMA QuietIsOwn ==
  ASSUME NEW lines, Quiet(lines), NEW actor, NEW action, NEW id, NEW ending
  PROVE  OnlyOwn(lines, actor, action, id, ending)
  BY DEF Quiet, OnlyOwn

LEMMA JoinedOwn ==
  ASSUME NEW a \in Trail, NEW b \in Trail, NEW actor, NEW action, NEW id, NEW ending,
         OnlyOwn(a, actor, action, id, ending), OnlyOwn(b, actor, action, id, ending)
  PROVE  /\ a \o b \in Trail
         /\ OnlyOwn(a \o b, actor, action, id, ending)
         /\ SaysDone(b, action, id) => SaysDone(a \o b, action, id)
         /\ SaysDone(a, action, id) => SaysDone(a \o b, action, id)
<1>1. a \o b \in Trail /\ OnlyOwn(a \o b, actor, action, id, ending)
  BY Joined DEF OnlyOwn, Trail
<1>2. SaysDone(b, action, id) => SaysDone(a \o b, action, id)
  <2> SUFFICES ASSUME NEW k \in 1..Len(b),
                      b[k].request = id /\ b[k].command = action /\ b[k].result = "ok"
               PROVE  SaysDone(a \o b, action, id)
    BY DEF SaysDone
  <2>1. Len(a) + k \in 1..Len(a \o b) /\ (a \o b)[Len(a) + k] = b[k]
    BY Joined DEF Trail
  <2> QED
    BY <2>1 DEF SaysDone
<1>3. SaysDone(a, action, id) => SaysDone(a \o b, action, id)
  BY Joined DEF SaysDone, Trail
<1> QED
  BY <1>1, <1>2, <1>3

LEMMA OwnLine ==
  ASSUME NEW id \in Number, NEW actor \in Actor, NEW action \in Action, NEW ending,
         NEW lines, Writes(lines, id, actor, action, "ok"), ending = "ok"
  PROVE  lines \in Trail /\ OnlyOwn(lines, actor, action, id, ending) /\ SaysDone(lines, action, id)
<1>2. /\ lines \in Trail /\ Len(lines) = 1
      /\ lines[1].request = id /\ lines[1].actor = actor /\ lines[1].command = action
      /\ lines[1].result = "ok"
  BY OneLine, Zenon
<1>3. OnlyOwn(lines, actor, action, id, ending)
  BY <1>2 DEF OnlyOwn
<1>4. SaysDone(lines, action, id)
  BY <1>2 DEF SaysDone
<1> QED
  BY <1>2, <1>3, <1>4

\* What the managers add to every handler.
LEMMA DoneLog ==
  ASSUME NEW id \in Number, NEW actor \in Actor, NEW action \in Action, NEW ending
  PROVE  LET lines == Done(id, actor, action, ending) IN
         /\ lines \in Trail /\ OnlyOwn(lines, actor, action, id, ending)
         /\ ending = "ok" => SaysDone(lines, action, id)
<1> DEFINE lines == Done(id, actor, action, ending)
<1>1. CASE ending = "ok"
  <2>1. lines = Line(id, actor, action, "ok", FALSE)
    BY <1>1 DEF Done, If, Ran
  <2>2. Writes(lines, id, actor, action, "ok")
    BY <2>1, RanWell DEF Command
  <2> QED
    BY <1>1, <2>2, OwnLine
<1>2. CASE ending # "ok"
  BY <1>2, NoLines, QuietIsOwn DEF Done, If
<1> QED
  BY <1>1, <1>2

LEMMA SessionsReadLog ==
  ASSUME NEW id \in Number, NEW actor \in Actor, NEW ending
  PROVE  SessionsRead(id, actor, ending) \in Trail /\ Quiet(SessionsRead(id, actor, ending))
<1> DEFINE lines == SessionsRead(id, actor, ending)
<1>1. CASE ending = "ok"
  <2>1. lines = Line(id, actor, "show_sessions", "ok", FALSE)
    BY <1>1 DEF SessionsRead, If, Ran
  <2>2. "show_sessions" \in Command \ Changes
    BY DEF Command, Changes, ALLOWED_ACTIONS, READ_ACTIONS, DESTRUCTIVE_ACTIONS
  <2> QED
    BY <2>1, <2>2, RanQuietly
<1>2. CASE ending # "ok"
  BY <1>2, NoLines DEF SessionsRead, If
<1> QED
  BY <1>1, <1>2

\* Done after something that says nothing of a change.
LEMMA QuietThenDone ==
  ASSUME NEW id \in Number, NEW actor \in Actor, NEW action \in Action, NEW ending,
         NEW front \in Trail, Quiet(front)
  PROVE  LET lines == front \o Done(id, actor, action, ending) IN
         /\ lines \in Trail /\ OnlyOwn(lines, actor, action, id, ending)
         /\ ending = "ok" => SaysDone(lines, action, id)
<1> DEFINE done == Done(id, actor, action, ending)
<1>1. /\ done \in Trail /\ OnlyOwn(done, actor, action, id, ending)
      /\ ending = "ok" => SaysDone(done, action, id)
  BY DoneLog
<1>2. OnlyOwn(front, actor, action, id, ending)
  BY QuietIsOwn
<1> HIDE DEF done
<1>3. /\ front \o done \in Trail /\ OnlyOwn(front \o done, actor, action, id, ending)
      /\ ending = "ok" => SaysDone(front \o done, action, id)
  BY <1>1, <1>2, JoinedOwn
<1> QED
  BY <1>3 DEF done

\* The last part is of the two handlers that answer without an error when they fail.
HandlerLogged(lines, actor, action, id, ending) ==
  /\ lines \in Trail /\ OnlyOwn(lines, actor, action, id, ending)
  /\ action \in Changes /\ ending = "ok" => SaysDone(lines, action, id)
  /\ action = "reload_service" /\ ending \in {"invalid", "unreloaded", "unhealthy"}
       => HasError(lines)
  /\ action = "validate_config" /\ ending = "invalid" => HasError(lines)

LEMMA HandlerLog ==
  ASSUME NEW id \in Number, NEW actor \in Actor,
         NEW action \in ALLOWED_ACTIONS \ {"confirm_action"}, NEW ending \in Ending
  PROVE  HandlerLogged(HandlerLines(actor, action, id, ending), actor, action, id, ending)
<1> DEFINE lines == HandlerLines(actor, action, id, ending)
<1>0. action \in Action
  BY DEF Action
<1> DEFINE Goal(l) == /\ l \in Trail /\ OnlyOwn(l, actor, action, id, ending)
                      /\ action \in Changes /\ ending = "ok" => SaysDone(l, action, id)
<1>1. CASE action = "list_groups"
  <2>1. lines = <<>> /\ action \notin Changes
    BY <1>1 DEF HandlerLines, Pipelines, Changes, READ_ACTIONS
  <2>2. <<>> \in Trail /\ OnlyOwn(<<>>, actor, action, id, ending)
    BY NoLines, QuietIsOwn
  <2> QED
    BY <1>1, <2>1, <2>2 DEF HandlerLogged
<1>2. CASE action = "list_users" \/ action \in {"create_group", "delete_group", "disable_group_users"}
  <2>1. lines = Done(id, actor, action, ending)
    BY <1>2 DEF HandlerLines, GroupLines, Pipelines
  <2> QED
    BY <1>0, <1>2, <2>1, DoneLog DEF HandlerLogged
<1>3. CASE action = "show_user_ips"
  <2>1. lines = SessionsRead(id, actor, ending) /\ action \notin Changes
    BY <1>3 DEF HandlerLines, Pipelines, Changes, READ_ACTIONS
  <2> QED
    BY <1>3, <2>1, SessionsReadLog, QuietIsOwn DEF HandlerLogged
<1>4. CASE action = "validate_config"
  <2>1. lines = Validation(id, actor, ending) /\ action \notin Changes
    BY <1>4 DEF HandlerLines, Pipelines, Changes, READ_ACTIONS
  <2>2. "reload_service" \in Command \ Changes
    BY DEF Command, Action, ALLOWED_ACTIONS, Changes
  <2> QED
    BY <1>4, <2>1, <2>2, ActivationLines, QuietIsOwn DEF HandlerLogged
<1>5. CASE action = "reload_service"
  <2>1. lines = Activation(id, actor, action, ending) /\ action \in Command \ Changes
    BY <1>0, <1>5 DEF HandlerLines, Pipelines, Changes, Command
  <2> QED
    BY <1>5, <2>1, ActivationLines, QuietIsOwn DEF HandlerLogged
<1>6. CASE action = "list_sessions"
  <2>1. lines = SessionsRead(id, actor, ending) \o Done(id, actor, action, ending)
    BY <1>6 DEF HandlerLines, SessionLines, Pipelines
  <2> QED
    BY <1>0, <1>6, <2>1, SessionsReadLog, QuietThenDone DEF HandlerLogged
<1>7. CASE action = "disconnect_session"
  <2> DEFINE front == Ran(id, actor, action, ending = "ok")
             done  == Done(id, actor, action, ending)
  <2>1. lines = front \o done
    BY <1>7 DEF HandlerLines, SessionLines, Pipelines
  <2>2. front \in Trail /\ OnlyOwn(front, actor, action, id, ending)
    <3>1. CASE ending = "ok"
      <4>1. front = Line(id, actor, action, "ok", FALSE)
        BY <3>1 DEF Ran
      <4>2. Writes(front, id, actor, action, "ok")
        BY <1>0, <4>1, RanWell DEF Command
      <4> QED
        BY <1>0, <3>1, <4>2, OwnLine
    <3>2. CASE ending # "ok"
      <4>1. front = Line(id, actor, action, "failed", TRUE)
        BY <3>2 DEF Ran
      <4>2. action \in Command
        BY <1>0 DEF Command
      <4> QED
        BY <4>1, <4>2, RanBadly, QuietIsOwn
    <3> QED
      BY <3>1, <3>2
  <2>3. /\ done \in Trail /\ OnlyOwn(done, actor, action, id, ending)
        /\ ending = "ok" => SaysDone(done, action, id)
    BY <1>0, DoneLog
  <2> HIDE DEF front, done, lines
  <2>4. Goal(lines)
    BY <2>1, <2>2, <2>3, JoinedOwn
  <2> QED
    BY <1>7, <2>4 DEF lines, HandlerLogged
<1>8. CASE action \in {"rollback_last_change"} \cup Pipelines
  <2> DEFINE front == If(ending \notin {"refused", "raised"},
                         Activation(id, actor, "restart_service", ending))
  <2>1. lines = front \o Done(id, actor, action, ending)
    BY <1>8 DEF HandlerLines, MutationLines, Pipelines
  <2>2. front \in Trail /\ Quiet(front)
    <3>1. "restart_service" \in Command \ Changes
      BY DEF Command, ALLOWED_ACTIONS, READ_ACTIONS, DESTRUCTIVE_ACTIONS, Changes
    <3>2. /\ Activation(id, actor, "restart_service", ending) \in Trail
          /\ Quiet(Activation(id, actor, "restart_service", ending))
      BY <3>1, ActivationLines
    <3> QED
      BY <3>2, NoLines DEF If
  <2> HIDE DEF front
  <2>3. Goal(lines)
    BY <1>0, <2>1, <2>2, QuietThenDone
  <2> QED
    BY <1>8, <2>3 DEF Pipelines, HandlerLogged
<1>9. \/ action \in {"list_groups", "show_user_ips", "validate_config", "reload_service"}
      \/ action \in {"list_sessions", "disconnect_session", "list_users", "create_group"}
      \/ action \in {"delete_group", "disable_group_users", "rollback_last_change"} \cup Pipelines
  BY DEF ALLOWED_ACTIONS, READ_ACTIONS, DESTRUCTIVE_ACTIONS, Pipelines
<1>10. \/ action = "list_groups" \/ action = "show_user_ips" \/ action = "validate_config"
       \/ action = "reload_service" \/ action = "list_sessions" \/ action = "disconnect_session"
       \/ action = "list_users"
       \/ action \in {"create_group", "delete_group", "disable_group_users"}
       \/ action \in {"rollback_last_change"} \cup Pipelines
  BY <1>9
<1> QED
  BY <1>1, <1>2, <1>3, <1>4, <1>5, <1>6, <1>7, <1>8, <1>10

-----------------------------------------------------------------------------
(***************************************************************************)
(* What one request writes.                                                *)
(***************************************************************************)
SaysProposed(lines, owner, action, id) ==
  \E k \in 1..Len(lines) :
    /\ lines[k].request = id /\ lines[k].actor = owner
    /\ lines[k].command = action /\ lines[k].result = "pending"
ConfirmedFirst(lines, owner, action, id) ==
  /\ 1 \in 1..Len(lines)
  /\ lines[1].request = id /\ lines[1].actor = owner
  /\ lines[1].command = action /\ lines[1].result = "confirmed"

\* The n-th request against its lines: a trace of its trouble; nothing of a change it did not
\* make; of one that it made, the change and the confirmation it needed.
TroubleTold(call, lines) == ~EndedWell(call.reply) /\ ~Silent(call.reply) => HasError(lines)
NothingRan(call, lines, n) ==
  /\ call.reply.run = None /\ Quiet(lines)
  /\ call.reply.status = "pending" =>
       /\ call.request.action \in DESTRUCTIVE_ACTIONS
       /\ SaysProposed(lines, Identity(call.actor, call.request.payload), call.request.action,
                       RequestId(call.request.payload, n))
RunTold(run, call, lines) ==
  /\ call.reply.status # "pending"
  /\ OnlyOwn(lines, call.actor, run.action, run.id, run.ending)
  /\ run.action \in Changes /\ run.ending = "ok" => SaysDone(lines, run.action, run.id)
  /\ run.action \in DESTRUCTIVE_ACTIONS =>
       ConfirmedFirst(lines, Identity(call.actor, call.request.payload), run.action, run.id)
CallLogged(call, lines, n) ==
  /\ lines \in Trail
  /\ TroubleTold(call, lines)
  /\ IF call.reply.run = None THEN NothingRan(call, lines, n)
     ELSE RunTold(call.reply.run, call, lines)

\* A request that ran nothing and waits for nothing.
LEMMA RefusedLog ==
  ASSUME NEW call, NEW lines \in Trail, NEW n, Quiet(lines), call.reply.run = None,
         call.reply.status # "pending", HasError(lines) \/ Silent(call.reply)
  PROVE  CallLogged(call, lines, n)
  BY DEF CallLogged, TroubleTold, NothingRan

LEMMA ApiErrorLog ==
  ASSUME NEW actor \in Actor, NEW action \in Action
  PROVE  LET lines == ApiError(actor, action) IN
         lines \in Trail /\ Quiet(lines) /\ HasError(lines)
<1> DEFINE lines == ApiError(actor, action)
<1>1. lines = Line(NoId, actor, action, "failed", TRUE)
  BY DEF ApiError
<1>2. Writes(lines, NoId, actor, action, "failed")
  BY <1>1, LineWrites DEF Result, Command
<1>3. lines \in Trail /\ (("failed" # "ok" \/ action \notin Changes) => Quiet(lines))
  BY <1>2, OneLine, Zenon
<1> QED
  BY <1>1, <1>3, TroubleLine

LEMMA RejectionLog ==
  ASSUME NEW actor \in Actor, NEW action \in Action, NEW id \in Number
  PROVE  LET lines == Line(id, actor, action, "rejected", TRUE) IN
         lines \in Trail /\ Quiet(lines) /\ HasError(lines)
<1> DEFINE lines == Line(id, actor, action, "rejected", TRUE)
<1>1. Writes(lines, id, actor, action, "rejected")
  BY LineWrites DEF Result, Command
<1>2. lines \in Trail /\ (("rejected" # "ok" \/ action \notin Changes) => Quiet(lines))
  BY <1>1, OneLine, Zenon
<1> QED
  BY <1>2, TroubleLine

LEMMA ProposalLog ==
  ASSUME NEW actor \in Actor, NEW owner \in Actor, NEW action \in Action, NEW id \in Number
  PROVE  LET lines == ProposalLines(actor, owner, action, id) IN
         lines \in Trail /\ Quiet(lines) /\ SaysProposed(lines, owner, action, id)
<1> DEFINE first  == Line(id, actor, action, "rejected", TRUE)
           second == Line(id, owner, action, "pending", FALSE)
<1>1. first \in Trail /\ Quiet(first)
  BY RejectionLog
<1>2. Writes(second, id, owner, action, "pending")
  BY LineWrites DEF Result, Command
<1>3. /\ second \in Trail /\ Len(second) = 1
      /\ second[1].request = id /\ second[1].actor = owner
      /\ second[1].command = action /\ second[1].result = "pending"
      /\ ("pending" # "ok" \/ action \notin Changes) => Quiet(second)
  BY <1>2, OneLine, Zenon
<1>4. ProposalLines(actor, owner, action, id) = first \o second
  BY DEF ProposalLines
<1> HIDE DEF first, second
<1>5. first \o second \in Trail /\ Quiet(first \o second)
  BY <1>1, <1>3, JoinedQuiet
<1>6. /\ Len(first) + 1 \in 1..Len(first \o second)
      /\ (first \o second)[Len(first) + 1] = second[1]
  <2>1. 1 \in 1..Len(second) /\ first \in Seq(LineType) /\ second \in Seq(LineType)
    BY <1>1, <1>3 DEF Trail
  <2> QED
    BY <2>1, Joined
<1> QED
  BY <1>3, <1>4, <1>5, <1>6 DEF SaysProposed

\* A resolution is of the owner's token, or of none.
LEMMA ResolutionLog ==
  ASSUME ApiTypeOK, NEW n \in Number,
         NEW result \in {"replayed", "expired", "rejected", "cancelled", "confirmed"}
  PROVE  LET lines == ResolutionLines(n, result) IN
         /\ lines \in Trail /\ Quiet(lines)
         /\ store[n] = None \/ result \notin {"cancelled", "confirmed"} => HasError(lines)
         /\ store[n] # None /\ result = "confirmed"
              => ConfirmedFirst(lines, store[n].owner, store[n].action, store[n].request_id)
<1> DEFINE lines == ResolutionLines(n, result)
<1>1. CASE store[n] = None
  <2>1. lines = Line(NoId, None, None, "missing", TRUE)
    BY <1>1 DEF ResolutionLines
  <2>2. Writes(lines, NoId, None, None, "missing")
    BY <2>1, LineWrites DEF Result, Command
  <2>3. lines \in Trail /\ (("missing" # "ok" \/ None \notin Changes) => Quiet(lines))
    BY <2>2, OneLine, Zenon
  <2>4. HasError(lines)
    BY <2>1, TroubleLine
  <2> QED
    BY <1>1, <2>3, <2>4
<1>2. CASE store[n] # None
  <2> DEFINE record == store[n]
  <2>1. record.owner \in Actor /\ record.action \in Action /\ record.request_id \in Number
    BY <1>2 DEF ApiTypeOK, Record
  <2>2. \/ result \in {"cancelled", "confirmed"}
             /\ lines = Line(record.request_id, record.owner, record.action, result, FALSE)
        \/ result \notin {"cancelled", "confirmed"}
             /\ lines = Line(record.request_id, record.owner, record.action, result, TRUE)
    BY <1>2 DEF ResolutionLines
  <2>3. record.request_id \in Number \cup {NoId} /\ record.owner \in Actor \cup {None}
        /\ record.action \in Command /\ result \in Result /\ result # "ok"
    BY <2>1 DEF Command, Result
  <2>4. Writes(lines, record.request_id, record.owner, record.action, result)
    BY <2>2, <2>3, LineWrites
  <2>5. /\ lines \in Trail /\ Len(lines) = 1
        /\ lines[1].request = record.request_id /\ lines[1].actor = record.owner
        /\ lines[1].command = record.action /\ lines[1].result = result
        /\ result # "ok" \/ record.action \notin Changes => Quiet(lines)
    BY <2>4, OneLine, Zenon
  <2>6. result \notin {"cancelled", "confirmed"} => HasError(lines)
    BY <2>2, TroubleLine
  <2> HIDE DEF lines, record
  <2>7. result = "confirmed"
          => ConfirmedFirst(lines, record.owner, record.action, record.request_id)
    BY <2>5 DEF ConfirmedFirst
  <2>8. Quiet(lines)
    BY <2>3, <2>5
  <2> QED
    BY <1>2, <2>5, <2>6, <2>7, <2>8 DEF lines, record
<1> QED
  BY <1>1, <1>2

\* A handler that did not end well answers with an error, or logged what it did not answer, or is
\* never answered.
LEMMA RunTrouble ==
  ASSUME NEW action \in Action, NEW payload \in Payload, NEW id \in Number, NEW under \in Number,
         NEW ending \in Endings(action) \cap Ending,
         ~EndedWell(Executed(action, payload, id, under, ending)),
         ~Silent(Executed(action, payload, id, under, ending))
  PROVE  \/ Executed(action, payload, id, under, ending).status = "error"
         \/ action = "reload_service" /\ ending \in {"invalid", "unreloaded", "unhealthy"}
         \/ action = "validate_config" /\ ending = "invalid"
<1> DEFINE reply == Executed(action, payload, id, under, ending)
<1>1. reply.run = RunRecord(action, payload, id, under, ending) /\ reply.run # None
  BY ExecutedIsReply DEF AnswersRun
<1>2. reply.run.ending = ending
  BY <1>1 DEF RunRecord
<1>3. reply.status = StatusOf(action, ending)
  BY DEF Executed
<1> HIDE DEF reply
<1>4. ending # "raised"
  BY <1>1, <1>2 DEF reply, Silent
<1>5. ending # "ok" \/ reply.status \notin {"ok", "pending"}
  BY <1>1, <1>2 DEF reply, EndedWell
<1>6. ending # "ok"
  BY <1>3, <1>5 DEF StatusOf
<1>7. action = "reload_service" => ending \in {"invalid", "unreloaded", "unhealthy"}
  BY <1>6 DEF Endings, Pipelines
<1>8. action # "reload_service" /\ ~(action = "validate_config" /\ ending = "invalid")
        => reply.status = "error"
  BY <1>3, <1>4, <1>6 DEF StatusOf
<1>9. \/ reply.status = "error"
      \/ action = "reload_service" /\ ending \in {"invalid", "unreloaded", "unhealthy"}
      \/ action = "validate_config" /\ ending = "invalid"
  BY <1>7, <1>8
<1> QED
  BY <1>9 DEF reply

\* The lines of a request that ran an action: what came before it, the lines of the handler, and
\* the exception it may have ended with.
LEMMA RunLogged ==
  ASSUME NEW call, NEW front \in Trail, Quiet(front), NEW asked \in Action,
         call.actor \in Actor, NEW action \in ALLOWED_ACTIONS \ {"confirm_action"},
         NEW payload \in Payload, NEW id \in Number, NEW under \in Number,
         NEW ending \in Endings(action) \cap Ending,
         call.reply = Executed(action, payload, id, under, ending), NEW owner
  PROVE  LET handler == HandlerLines(call.actor, action, id, ending)
             tail    == If(call.reply.status = "error", ApiError(call.actor, asked))
             lines   == front \o handler \o tail
         IN  /\ lines \in Trail /\ TroubleTold(call, lines)
             /\ OnlyOwn(lines, call.actor, action, id, ending)
             /\ action \in Changes /\ ending = "ok" => SaysDone(lines, action, id)
             /\ ConfirmedFirst(front, owner, action, id) => ConfirmedFirst(lines, owner, action, id)
<1> DEFINE handler == HandlerLines(call.actor, action, id, ending)
           tail    == If(call.reply.status = "error", ApiError(call.actor, asked))
           lines   == front \o handler \o tail
<1>1. HandlerLogged(handler, call.actor, action, id, ending)
  BY HandlerLog
<1>2. tail \in Trail /\ Quiet(tail)
  BY ApiErrorLog, NoLines DEF If
<1>3. call.reply.status = "error" => HasError(tail)
  BY ApiErrorLog DEF If
<1>4. action \in Action
  BY DEF Action
<1>5. ~EndedWell(call.reply) /\ ~Silent(call.reply) => HasError(handler) \/ HasError(tail)
  BY <1>1, <1>3, <1>4, RunTrouble DEF HandlerLogged
<1>6. OnlyOwn(front, call.actor, action, id, ending) /\ OnlyOwn(tail, call.actor, action, id, ending)
  BY <1>2, QuietIsOwn
<1>7. lines = (front \o handler) \o tail
  OBVIOUS
<1> HIDE DEF handler, tail, lines
<1>8. /\ front \o handler \in Trail /\ OnlyOwn(front \o handler, call.actor, action, id, ending)
      /\ action \in Changes /\ ending = "ok" => SaysDone(front \o handler, action, id)
  BY <1>1, <1>6, JoinedOwn DEF HandlerLogged
<1>9. /\ lines \in Trail /\ OnlyOwn(lines, call.actor, action, id, ending)
      /\ action \in Changes /\ ending = "ok" => SaysDone(lines, action, id)
  BY <1>2, <1>6, <1>7, <1>8, JoinedOwn
<1>10. TroubleTold(call, lines)
  <2>1. HasError(handler) => HasError(front \o handler)
    BY <1>1, JoinedError DEF HandlerLogged
  <2>2. HasError(front \o handler) \/ HasError(tail) => HasError(lines)
    BY <1>2, <1>7, <1>8, JoinedError
  <2> QED
    BY <1>5, <2>1, <2>2 DEF TroubleTold
<1>11. ConfirmedFirst(front, owner, action, id) => ConfirmedFirst(lines, owner, action, id)
  <2> SUFFICES ASSUME 1 \in 1..Len(front) PROVE 1 \in 1..Len(lines) /\ lines[1] = front[1]
    BY DEF ConfirmedFirst
  <2>1. 1 \in 1..Len(front \o handler) /\ (front \o handler)[1] = front[1]
    BY <1>1, Joined DEF HandlerLogged, Trail
  <2> QED
    BY <1>2, <1>7, <1>8, <2>1, Joined DEF Trail
<1> QED
  BY <1>9, <1>10, <1>11 DEF handler, tail, lines

-----------------------------------------------------------------------------
(***************************************************************************)
(* The log as a whole.                                                     *)
(***************************************************************************)
TrailInv ==
  /\ trail \in Seq(Trail) /\ Len(trail) = Len(calls)
  /\ \A i \in 1..Len(calls) : CallLogged(calls[i], trail[i], i)

LEMMA AnswerAppends ==
  ASSUME ApiTypeOK, NEW actor, NEW r, NEW reply, Answer(actor, r, reply)
  PROVE  /\ Len(calls') = Id /\ Len(calls) \in Nat /\ Id = Len(calls) + 1
         /\ calls'[Id].actor = actor /\ calls'[Id].request = r /\ calls'[Id].reply = reply
         /\ \A i \in 1..Len(calls) : calls'[i] = calls[i]
  BY DEF ApiTypeOK, Answer, Id

\* A live token is of a destructive action: it was proposed.
LEMMA TokenIsDestructive ==
  ASSUME ApiTypeOK, TokenInv, TrailInv, NEW n \in Number, store[n] # None
  PROVE  store[n].action \in DESTRUCTIVE_ACTIONS
<1>1. /\ n \in 1..Len(calls) /\ calls[n].reply.status = "pending"
      /\ calls[n].request.action = store[n].action
  BY DEF TokenInv, Number, ApiTypeOK
<1>2. CallLogged(calls[n], trail[n], n)
  BY <1>1 DEF TrailInv
<1>3. calls[n].reply.run = None
  BY <1>1, <1>2 DEF CallLogged, RunTold
<1> QED
  BY <1>1, <1>2, <1>3 DEF CallLogged, NothingRan

LEMMA PassedListed ==
  ASSUME NEW actor \in Actor, NEW r \in Request, Pass(actor, r)
  PROVE  r.action \in ALLOWED_ACTIONS
<1>1. GuardError(actor, r.action, r.payload) = None
  BY DEF Pass
<1>2. {"UNAUTHORIZED_OPERATOR", "ACTION_NOT_ALLOWED", "INVALID_NAME"} \subseteq ErrorCode
  BY DEF ErrorCode
<1> QED
  BY <1>1, <1>2, NoneAssumption DEF GuardError

\* Requests that are refused, or wait.
LEMMA RefusalLogged ==
  ASSUME ApiTypeOK, NEW actor \in Actor, NEW r \in Request, Id \in Number,
         \/ RefuseClient(actor, r) \/ RefuseRate(actor, r) \/ RefuseRequest(actor, r)
         \/ RejectByGuard(actor, r) \/ Propose(actor, r) \/ RefuseContext(actor, r)
  PROVE  CallLogged(calls'[Id], Lines(calls'[Id], Id), Id)
<1> DEFINE call == calls'[Id]  lines == Lines(call, Id)
<1>0. r.action \in Action /\ RequestId(r.payload, Id) \in Number
      /\ (Complete(r) => Identity(actor, r.payload) \in Actor)
  BY RequestNames
<1>1. ASSUME NEW status, NEW code, Answer(actor, r, Refusal(status, code))
      PROVE  /\ call.actor = actor /\ call.request = r
             /\ call.reply.run = None /\ call.reply.status = status /\ call.reply.error = code
  BY <1>1, AnswerAppends DEF Refusal
<1>2. CASE RefuseClient(actor, r) \/ RefuseRate(actor, r) \/ RefuseRequest(actor, r)
  <2>1. PICK code \in {"UNAUTHORIZED_CLIENT", "RATE_LIMITED", "INVALID_REQUEST"} :
          Answer(actor, r, Refusal("error", code))
    BY <1>2 DEF RefuseClient, RefuseRate, RefuseRequest
  <2>2. /\ call.actor = actor /\ call.request = r
        /\ call.reply.run = None /\ call.reply.status = "error"
        /\ call.reply.error # "INVALID_CONFIRMATION_CONTEXT"
    BY <1>1, <2>1
  <2> HIDE DEF call
  <2>3. lines = ApiError(actor, r.action)
    BY <2>2 DEF Lines
  <2>4. lines \in Trail /\ Quiet(lines) /\ HasError(lines)
    BY <1>0, <2>3, ApiErrorLog
  <2> HIDE DEF lines
  <2>5. CallLogged(call, lines, Id)
    BY <2>2, <2>4, RefusedLog
  <2> QED
    BY <2>5 DEF call, lines
<1>3. CASE RejectByGuard(actor, r)
  <2>1. PICK code \in {"UNAUTHORIZED_OPERATOR", "ACTION_NOT_ALLOWED", "INVALID_NAME"} :
          Answer(actor, r, Refusal("rejected", code))
    BY <1>3 DEF RejectByGuard, GuardError
  <2>2. /\ call.actor = actor /\ call.request = r
        /\ call.reply.run = None /\ call.reply.status = "rejected"
        /\ call.reply.error # "INVALID_CONFIRMATION_CONTEXT"
    BY <1>1, <2>1
  <2> HIDE DEF call
  <2>3. lines = Line(RequestId(r.payload, Id), actor, r.action, "rejected", TRUE)
    BY <2>2 DEF Lines
  <2>4. lines \in Trail /\ Quiet(lines) /\ HasError(lines)
    BY <1>0, <2>3, RejectionLog
  <2> HIDE DEF lines
  <2>5. CallLogged(call, lines, Id)
    BY <2>2, <2>4, RefusedLog
  <2> QED
    BY <2>5 DEF call, lines
<1>4. CASE Propose(actor, r)
  <2> DEFINE owner == Identity(actor, r.payload)  id == RequestId(r.payload, Id)
  <2>1. /\ Answer(actor, r, Refusal("pending", "CONFIRMATION_REQUIRED"))
        /\ r.action \in DESTRUCTIVE_ACTIONS /\ owner \in Actor /\ id \in Number
    BY <1>0, <1>4 DEF Propose, Pass
  <2>2. /\ call.actor = actor /\ call.request = r
        /\ call.reply.run = None /\ call.reply.status = "pending"
        /\ call.reply.error # "INVALID_CONFIRMATION_CONTEXT"
    BY <1>1, <2>1
  <2> HIDE DEF call
  <2>3. lines = ProposalLines(actor, owner, r.action, id)
    BY <2>2 DEF Lines
  <2>4. lines \in Trail /\ Quiet(lines) /\ SaysProposed(lines, owner, r.action, id)
    BY <1>0, <2>1, <2>3, ProposalLog
  <2>5. EndedWell(call.reply)
    BY <2>2 DEF EndedWell
  <2> HIDE DEF lines
  <2>6. CallLogged(call, lines, Id)
    BY <2>1, <2>2, <2>4, <2>5 DEF CallLogged, TroubleTold, NothingRan
  <2> QED
    BY <2>6 DEF call, lines
<1>5. CASE RefuseContext(actor, r)
  <2>1. Answer(actor, r, Refusal("failed", "INVALID_CONFIRMATION_CONTEXT"))
    BY <1>5 DEF RefuseContext
  <2>2. /\ call.request = r /\ call.reply.run = None /\ call.reply.status = "failed"
        /\ call.reply.error = "INVALID_CONFIRMATION_CONTEXT"
    BY <1>1, <2>1
  <2> HIDE DEF call
  <2>3. lines = <<>>
    BY <2>2 DEF Lines
  <2>4. lines \in Trail /\ Quiet(lines) /\ Silent(call.reply)
    BY <2>2, <2>3, NoLines DEF Silent
  <2> HIDE DEF lines
  <2>5. CallLogged(call, lines, Id)
    BY <2>2, <2>4, RefusedLog
  <2> QED
    BY <2>5 DEF call, lines
<1> QED
  BY <1>2, <1>3, <1>4, <1>5

\* Tokens that are refused, expired or cancelled: only the last leaves no trace of trouble.
LEMMA ResolutionLogged ==
  ASSUME ApiTypeOK, NEW actor \in Actor, NEW r \in Request, Id \in Number,
         \/ RefuseToken(actor, r) \/ Expire(actor, r) \/ Cancel(actor, r)
  PROVE  CallLogged(calls'[Id], Lines(calls'[Id], Id), Id)
<1> DEFINE call == calls'[Id]  lines == Lines(call, Id)
<1>1. TokenOf(r) \in Number
  BY ResolvingNamesToken DEF RefuseToken, Expire, Cancel, Resolving, Pass
<1>2. None \notin {"INVALID_CONFIRMATION_CONTEXT", "CONFIRMATION_NOT_FOUND", "CONFIRMATION_REPLAYED",
                  "UNAUTHORIZED_OPERATOR", "CONFIRMATION_EXPIRED"}
  BY NoneAssumption DEF ErrorCode
<1>3. PICK code \in {"CONFIRMATION_NOT_FOUND", "CONFIRMATION_REPLAYED", "UNAUTHORIZED_OPERATOR",
                    "CONFIRMATION_EXPIRED", None} :
        /\ Answer(actor, r, Refusal("failed", code))
        /\ code = "CONFIRMATION_NOT_FOUND" => store[TokenOf(r)] = None
  BY <1>2 DEF RefuseToken, Expire, Cancel
<1>4. /\ call.request = r /\ call.reply.run = None /\ call.reply.status = "failed"
      /\ call.reply.error = code
  BY <1>3, AnswerAppends DEF Refusal
<1> HIDE DEF call
<1>5. lines = ResolutionLines(TokenOf(r), Resolved(code))
  BY <1>2, <1>4 DEF Lines
<1>6. /\ Resolved(code) \in {"replayed", "expired", "rejected", "cancelled"}
      /\ code \notin {None, "CONFIRMATION_NOT_FOUND"} => Resolved(code) # "cancelled"
  BY <1>2 DEF Resolved
<1>7. /\ lines \in Trail /\ Quiet(lines)
      /\ store[TokenOf(r)] = None \/ Resolved(code) \notin {"cancelled", "confirmed"} => HasError(lines)
  BY <1>1, <1>5, <1>6, ResolutionLog
<1> HIDE DEF lines
<1>8. CASE code = None
  <2>1. Silent(call.reply)
    BY <1>4, <1>8 DEF Silent
  <2>2. CallLogged(call, lines, Id)
    BY <1>4, <1>7, <2>1, RefusedLog
  <2> QED
    BY <2>2 DEF call, lines
<1>9. CASE code # None
  <2>1. HasError(lines)
    BY <1>3, <1>6, <1>7, <1>9
  <2>2. CallLogged(call, lines, Id)
    BY <1>4, <1>7, <2>1, RefusedLog
  <2> QED
    BY <2>2 DEF call, lines
<1> QED
  BY <1>8, <1>9

\* The lines of a call that ran an action.
LEMMA RunLines ==
  ASSUME NEW call, call.reply.run # None, NEW n
  PROVE  Lines(call, n) =
           If(call.request.action = "confirm_action", ResolutionLines(TokenOf(call.request), "confirmed"))
             \o HandlerLines(call.actor, call.reply.run.action, call.reply.run.id,
                             call.reply.run.ending)
             \o If(call.reply.status = "error", ApiError(call.actor, call.request.action))
  BY DEF Lines

LEMMA ExecuteLogged ==
  ASSUME ApiTypeOK, NEW actor \in Actor, NEW r \in Request, Id \in Number,
         NEW ending \in Ending, Execute(actor, r, ending)
  PROVE  CallLogged(calls'[Id], Lines(calls'[Id], Id), Id)
<1> DEFINE call == calls'[Id]  id == RequestId(r.payload, Id)
           reply == Executed(r.action, r.payload, id, Id, ending)
           lines == Lines(call, Id)
<1>1. /\ r.action \in ALLOWED_ACTIONS \ {"confirm_action"} /\ r.action \notin DESTRUCTIVE_ACTIONS
      /\ r.action \in Action /\ r.payload \in Payload /\ id \in Number
      /\ ending \in Endings(r.action) \cap Ending
  BY PassedListed, RequestNames DEF Execute
<1>2. /\ reply.run = RunRecord(r.action, r.payload, id, Id, ending)
      /\ reply.status # "pending" /\ reply.run # None
  BY AtOnceIsReply DEF AnswersRun
<1>3. reply.run.action = r.action /\ reply.run.id = id /\ reply.run.ending = ending
  BY <1>2 DEF RunRecord
<1>4. call.actor = actor /\ call.request = r /\ call.reply = reply
  BY AnswerAppends DEF Execute
<1>5. <<>> \in Trail /\ Quiet(<<>>)
  BY NoLines
<1>6. lines = <<>> \o HandlerLines(call.actor, r.action, id, ending)
                  \o If(call.reply.status = "error", ApiError(call.actor, r.action))
  <2> HIDE DEF call, reply, id
  <2>1. Lines(call, Id) =
          If(call.request.action = "confirm_action", ResolutionLines(TokenOf(call.request), "confirmed"))
            \o HandlerLines(call.actor, call.reply.run.action, call.reply.run.id,
                            call.reply.run.ending)
            \o If(call.reply.status = "error", ApiError(call.actor, call.request.action))
    BY <1>2, <1>4, RunLines, Zenon
  <2>2. /\ call.reply.run.action = r.action /\ call.reply.run.id = id
        /\ call.reply.run.ending = ending /\ call.request = r
    BY <1>3, <1>4
  <2> QED
    BY <1>1, <2>1, <2>2 DEF If
<1> HIDE DEF call, lines, id
<1>7. /\ lines \in Trail /\ TroubleTold(call, lines)
      /\ OnlyOwn(lines, call.actor, r.action, id, ending)
      /\ r.action \in Changes /\ ending = "ok" => SaysDone(lines, r.action, id)
  BY <1>1, <1>4, <1>5, <1>6, RunLogged
<1> HIDE DEF reply
<1>8. CallLogged(call, lines, Id)
  BY <1>1, <1>2, <1>3, <1>4, <1>7 DEF CallLogged, RunTold
<1> QED
  BY <1>8 DEF call, lines, id

LEMMA ConfirmLogged ==
  ASSUME ApiTypeOK, TokenInv, TrailInv, NEW actor \in Actor, NEW r \in Request, Id \in Number,
         NEW ending \in Ending, Confirm(actor, r, ending)
  PROVE  CallLogged(calls'[Id], Lines(calls'[Id], Id), Id)
<1> DEFINE record == store[TokenOf(r)]
           call == calls'[Id]  reply == Resumed(TokenOf(r), ending)
           lines == Lines(call, Id)  front == ResolutionLines(TokenOf(r), "confirmed")
<1>1. /\ TokenOf(r) \in Number /\ record # None /\ record \in Record
      /\ r.action = "confirm_action" /\ r.action \in Action
      /\ record.owner = Identity(actor, r.payload)
  BY ResolvingNamesToken, RequestNames
     DEF Confirm, Resolving, Pass, IsLive, IsPending, IsOwner, ApiTypeOK
<1>2. /\ record.action \in DESTRUCTIVE_ACTIONS
      /\ record.action \in ALLOWED_ACTIONS \ {"confirm_action"} /\ record.action \in Action
      /\ record.payload \in Payload /\ record.request_id \in Number
      /\ ending \in Endings(record.action) \cap Ending
  <2>1. record.action \in DESTRUCTIVE_ACTIONS
    BY <1>1, TokenIsDestructive
  <2> QED
    BY <1>1, <2>1 DEF Confirm, Record, ALLOWED_ACTIONS, DESTRUCTIVE_ACTIONS, Action
<1>3. /\ reply.run = RunRecord(record.action, record.payload, record.request_id, TokenOf(r), ending)
      /\ reply.status # "pending" /\ reply.run # None
      /\ reply = Executed(record.action, record.payload, record.request_id, TokenOf(r), ending)
  BY <1>1, ResumedIsReply DEF AnswersRun, Resumed
<1>4. /\ reply.run.action = record.action /\ reply.run.id = record.request_id
      /\ reply.run.ending = ending
  BY <1>3 DEF RunRecord
<1>5. call.actor = actor /\ call.request = r /\ call.reply = reply
  BY AnswerAppends DEF Confirm
<1>6. front \in Trail /\ Quiet(front) /\ ConfirmedFirst(front, record.owner, record.action, record.request_id)
  BY <1>1, ResolutionLog
<1> HIDE DEF record
<1>7. lines = front \o HandlerLines(call.actor, record.action, record.request_id, ending)
                   \o If(call.reply.status = "error", ApiError(call.actor, r.action))
  <2> HIDE DEF call, reply, front
  <2>1. Lines(call, Id) =
          If(call.request.action = "confirm_action", ResolutionLines(TokenOf(call.request), "confirmed"))
            \o HandlerLines(call.actor, call.reply.run.action, call.reply.run.id,
                            call.reply.run.ending)
            \o If(call.reply.status = "error", ApiError(call.actor, call.request.action))
    BY <1>3, <1>5, RunLines, Zenon
  <2>2. /\ call.reply.run.action = record.action /\ call.reply.run.id = record.request_id
        /\ call.reply.run.ending = ending /\ call.request = r
    BY <1>4, <1>5
  <2> QED
    BY <1>1, <2>1, <2>2 DEF If, front
<1> HIDE DEF call, lines, front
<1>8. /\ lines \in Trail /\ TroubleTold(call, lines)
      /\ OnlyOwn(lines, call.actor, record.action, record.request_id, ending)
      /\ record.action \in Changes /\ ending = "ok" => SaysDone(lines, record.action, record.request_id)
      /\ ConfirmedFirst(lines, record.owner, record.action, record.request_id)
  BY <1>1, <1>2, <1>3, <1>5, <1>6, <1>7, RunLogged
<1> HIDE DEF reply
<1>9. CallLogged(call, lines, Id)
  BY <1>1, <1>2, <1>3, <1>4, <1>5, <1>8 DEF CallLogged, RunTold
<1> QED
  BY <1>9 DEF call, lines

AuditInv == ApiTypeOK /\ TokenInv /\ RanAsConfirmed /\ TrailInv

LEMMA InitLogged == AuditInit => AuditInv
<1> SUFFICES ASSUME AuditInit PROVE AuditInv
  OBVIOUS
<1>1. Init /\ trail = <<>> /\ calls = <<>>
  BY DEF AuditInit, Init
<1> QED
  BY <1>1, InitType, InitTokens DEF AuditInv, TrailInv

LEMMA ServeLogged ==
  ASSUME AuditInv, NEW actor \in Actor, NEW r \in Request, Serve(actor, r),
         trail' = Append(trail, Lines(calls'[Id], Id))
  PROVE  TrailInv'
<1> DEFINE line == Lines(calls'[Id], Id)
<1>1. Id \in Number /\ Len(calls) \in Nat /\ Id = Len(calls) + 1
  BY NumberAssumption DEF Serve, AuditInv, ApiTypeOK, Id, Number
<1>2. CallLogged(calls'[Id], line, Id)
  BY <1>1, RefusalLogged, ResolutionLogged, ExecuteLogged, ConfirmLogged DEF Serve, AuditInv
<1>3. Len(calls') = Id /\ \A i \in 1..Len(calls) : calls'[i] = calls[i]
  <2>1. PICK reply \in Reply : Served(actor, r, reply)
    BY ServeIsServed DEF AuditInv
  <2> QED
    BY <2>1, ServedSteps DEF AuditInv
<1>4. line \in Trail
  BY <1>2 DEF CallLogged
<1> HIDE DEF line
<1>5. /\ trail' \in Seq(Trail) /\ Len(trail') = Id /\ trail'[Id] = line
      /\ \A i \in 1..Len(calls) : trail'[i] = trail[i]
  BY <1>1, <1>4 DEF line, AuditInv, TrailInv
<1>6. ASSUME NEW i \in 1..Len(calls') PROVE CallLogged(calls'[i], trail'[i], i)
  <2>1. CASE i = Id
    BY <1>2, <1>5, <2>1 DEF line
  <2>2. CASE i # Id
    <3>1. i \in 1..Len(calls)
      BY <1>1, <1>3, <2>2
    <3> QED
      BY <1>3, <1>5, <3>1 DEF AuditInv, TrailInv
  <2> QED
    BY <2>1, <2>2
<1> QED
  BY <1>3, <1>5, <1>6 DEF TrailInv

LEMMA NextLogged == AuditInv /\ [AuditNext]_<<vars, trail>> => AuditInv'
<1> SUFFICES ASSUME AuditInv, [AuditNext]_<<vars, trail>> PROVE AuditInv'
  OBVIOUS
<1>1. [Next]_vars
  BY DEF AuditNext, Next, vars
<1>2. (ApiTypeOK /\ TokenInv /\ RanAsConfirmed)'
  BY <1>1, NextType, NextTokens DEF AuditInv
<1>3. ASSUME NEW actor \in Actor, NEW r \in Request, Serve(actor, r),
             trail' = Append(trail, Lines(calls'[Id], Id))
      PROVE  TrailInv'
  BY <1>3, ServeLogged
<1>4. ASSUME UNCHANGED <<calls, trail>> PROVE TrailInv'
  BY <1>4 DEF AuditInv, TrailInv
<1>5. TrailInv'
  BY <1>3, <1>4 DEF AuditNext, vars, Tick, Restart
<1> QED
  BY <1>2, <1>5 DEF AuditInv

LEMMA AlwaysLogged == AuditSpec => []AuditInv
  BY InitLogged, NextLogged, PTL DEF AuditSpec

\* audit_log.py, src/deploy/README.md:59: a request that was refused or did not end well has a line
\* in error.log, but for the three kinds Silent names (TroubleIsLogged).
THEOREM TroubleRecorded == AuditSpec => []TroubleIsLogged
<1>1. AuditInv => TroubleIsLogged
  BY DEF AuditInv, TrailInv, CallLogged, TroubleTold, HasError, TroubleIsLogged
<1> QED
  BY <1>1, AlwaysLogged, PTL

LEMMA SaidIsMade ==
  ASSUME AuditInv, NEW action \in Changes, NEW i \in 1..Len(calls), NEW k \in 1..Len(trail[i]),
         trail[i][k].command = action, trail[i][k].result = "ok"
  PROVE  LET run == calls[i].reply.run IN
         /\ run # None /\ run.action = action /\ run.ending = "ok"
         /\ SaysFor(i, k, run.id, calls[i].actor, action, "ok")
<1>1. CallLogged(calls[i], trail[i], i)
  BY DEF AuditInv, TrailInv
<1>2. SaysChange(trail[i][k])
  BY DEF SaysChange
<1>3. calls[i].reply.run # None
  BY <1>1, <1>2 DEF CallLogged, NothingRan, Quiet
<1>4. OnlyOwn(trail[i], calls[i].actor, calls[i].reply.run.action, calls[i].reply.run.id,
              calls[i].reply.run.ending)
  BY <1>1, <1>3 DEF CallLogged, RunTold
<1> QED
  BY <1>2, <1>3, <1>4 DEF OnlyOwn, SaysFor, Says

\* Behind a destructive run are the lines of its proposal and of its confirmation.
LEMMA DestructiveIsLogged ==
  ASSUME AuditInv, NEW i \in 1..Len(calls), NEW run, run = calls[i].reply.run, run # None,
         run.action \in DESTRUCTIVE_ACTIONS,
         NEW owner, owner = Identity(calls[i].actor, calls[i].request.payload)
  PROVE  /\ \E p \in 1..Len(trail[run.under]) :
              SaysFor(run.under, p, run.id, owner, run.action, "pending")
         /\ 1 \in 1..Len(trail[i]) /\ SaysFor(i, 1, run.id, owner, run.action, "confirmed")
<1> DEFINE asked == calls[run.under]
<1>1. /\ run.under < i /\ asked.reply.status = "pending"
      /\ Identity(asked.actor, asked.request.payload) = owner
      /\ asked.request.action = run.action /\ asked.request.payload = run.payload
      /\ run.id = RequestId(run.payload, run.under)
  BY DEF AuditInv, RanAsConfirmed
<1>2. run.under \in 1..Len(calls)
  <2>1. calls \in Seq(Call)
    BY DEF AuditInv, ApiTypeOK
  <2>2. calls[i] \in Call
    BY <2>1
  <2>3. run \in Run
    BY <2>2 DEF Call, Reply
  <2>4. run.under \in 1..MaxCalls
    BY <2>3 DEF Run, Number
  <2> QED
    BY <1>1, <2>4, NumberAssumption
<1>3. \A j \in 1..Len(calls) : CallLogged(calls[j], trail[j], j)
  BY DEF AuditInv, TrailInv
<1>4. SaysProposed(trail[run.under], owner, run.action, run.id)
  <2>1. CallLogged(asked, trail[run.under], run.under)
    BY <1>2, <1>3
  <2> HIDE DEF asked
  <2>2. asked.reply.run = None
    BY <1>1, <2>1 DEF CallLogged, RunTold
  <2> QED
    BY <1>1, <2>1, <2>2 DEF CallLogged, NothingRan
<1>5. ConfirmedFirst(trail[i], owner, run.action, run.id)
  BY <1>3 DEF CallLogged, RunTold
<1> QED
  BY <1>4, <1>5 DEF SaysProposed, ConfirmedFirst, SaysFor, Says

LEMMA LoggedIsExact == AuditInv => TrailIsExact
<1> SUFFICES ASSUME AuditInv, NEW i \in 1..Len(calls), NEW action \in Changes
             PROVE  LET run   == calls[i].reply.run
                        owner == Identity(calls[i].actor, calls[i].request.payload)
                        said  == {k \in 1..Len(trail[i]) :
                                    trail[i][k].command = action /\ trail[i][k].result = "ok"}
                    IN /\ said # {} <=> run # None /\ run.action = action /\ run.ending = "ok"
                       /\ \A k \in said :
                            /\ SaysFor(i, k, run.id, calls[i].actor, action, "ok")
                            /\ action \in DESTRUCTIVE_ACTIONS =>
                                 /\ \E p \in 1..Len(trail[run.under]) :
                                      SaysFor(run.under, p, run.id, owner, action, "pending")
                                 /\ \E c \in 1..k :
                                      SaysFor(i, c, run.id, owner, action, "confirmed")
  BY DEF TrailIsExact
<1> DEFINE run   == calls[i].reply.run
           owner == Identity(calls[i].actor, calls[i].request.payload)
           said  == {k \in 1..Len(trail[i]) :
                       trail[i][k].command = action /\ trail[i][k].result = "ok"}
<1>1. CallLogged(calls[i], trail[i], i)
  BY DEF AuditInv, TrailInv
<1>2. ASSUME run # None, run.action = action, run.ending = "ok" PROVE said # {}
  <2>1. SaysDone(trail[i], action, run.id)
    BY <1>1, <1>2 DEF CallLogged, RunTold
  <2> QED
    BY <2>1 DEF SaysDone
<1>3. ASSUME NEW k \in said
      PROVE  /\ run # None /\ run.action = action /\ run.ending = "ok"
             /\ SaysFor(i, k, run.id, calls[i].actor, action, "ok")
             /\ k \in 1..Len(trail[i])
  BY <1>3, SaidIsMade
<1>4. ASSUME NEW k \in said, action \in DESTRUCTIVE_ACTIONS
      PROVE  /\ \E p \in 1..Len(trail[run.under]) :
                  SaysFor(run.under, p, run.id, owner, action, "pending")
             /\ \E c \in 1..k : SaysFor(i, c, run.id, owner, action, "confirmed")
  <2>1. run # None /\ run.action = action /\ k \in 1..Len(trail[i])
    BY <1>3
  <2>2. /\ \E p \in 1..Len(trail[run.under]) :
             SaysFor(run.under, p, run.id, owner, run.action, "pending")
        /\ 1 \in 1..Len(trail[i]) /\ SaysFor(i, 1, run.id, owner, run.action, "confirmed")
    BY <1>4, <2>1, DestructiveIsLogged
  <2>3. 1 \in 1..k
    BY <2>1
  <2> QED
    BY <2>1, <2>2, <2>3
<1> HIDE DEF run, owner
<1>5. /\ said # {} <=> run # None /\ run.action = action /\ run.ending = "ok"
      /\ \A k \in said :
           /\ SaysFor(i, k, run.id, calls[i].actor, action, "ok")
           /\ action \in DESTRUCTIVE_ACTIONS =>
                /\ \E p \in 1..Len(trail[run.under]) :
                     SaysFor(run.under, p, run.id, owner, action, "pending")
                /\ \E c \in 1..k : SaysFor(i, c, run.id, owner, action, "confirmed")
  <2> HIDE DEF said
  <2> QED
    BY <1>2, <1>3, <1>4
<1> QED
  BY <1>5 DEF run, owner

\* src/docs/development-plan.xml:386: audit.log says of a request that it made a change exactly when
\* it did, in the name of the operator who sent that request, and where a confirmation is needed
\* after the lines of the proposal and the confirmation, under the same id and in the name of the
\* operator for whom both were sent (TrailIsExact).
THEOREM TrailExact == AuditSpec => []TrailIsExact
  BY LoggedIsExact, AlwaysLogged, PTL
=============================================================================
