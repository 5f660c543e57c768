-------------------------- MODULE ConfirmationProofs --------------------------
(***************************************************************************)
(* Confirmation tokens are one-shot for every set of tokens and actors,    *)
(* every lifetime and either store.                                        *)
(***************************************************************************)
EXTENDS Confirmation, TLAPS

\* A record that a flush or a reload keeps is one that has not expired.
LEMMA FreshKeepsUnexpired ==
  ASSUME NEW time \in Nat, NEW table \in Table
  PROVE  /\ Fresh(table, time) \in Table
         /\ \A t \in Token :
              /\ Fresh(table, time)[t] \in {table[t], NoRecord}
              /\ Pending(Fresh(table, time), t)
                   <=> Pending(table, t) /\ time <= table[t].expires
  BY AtomAssumption DEF Fresh, Pending, Table, Record

\* An empty store is a table without pending records.
LEMMA NoTableIsEmpty == NoTable \in Table /\ \A t \in Token : NoTable[t] = NoRecord
  BY DEF NoTable, Table

\* Whatever the file holds, a restart reads a table.
LEMMA LoadedIsTable ==
  ASSUME NEW time \in Nat, NEW f \in Table \cup {Torn}
  PROVE  Loaded(f, time) \in Table
  BY FreshKeepsUnexpired, NoTableIsEmpty DEF Loaded

\* The store starts empty.
LEMMA InitStoreInv == Init => StoreInv
<1> SUFFICES ASSUME Init PROVE StoreInv
  OBVIOUS
<1>1. Loaded(file, now) \in Table /\ \A t \in Token : Loaded(file, now)[t] = NoRecord
  BY NoTableIsEmpty, FreshKeepsUnexpired DEF Init, Loaded
<1>2. TypeOK
  BY NoTableIsEmpty, NumberAssumption DEF Init, TypeOK
<1> QED
  BY <1>1, <1>2, NoTableIsEmpty, AtomAssumption
     DEF Init, StoreInv, ServingInv, TokenInv, Alive, InFlight, Pending

\* Storing a first record of a token, or a record with another status, keeps the
\* invariant as long as the action behind the token never ran.
LEMMA StoreKeepsInv ==
  ASSUME StoreInv, pc = "idle", NEW t \in Token, NEW record \in Record, Store(t, record),
         executed[t] = 0, t \notin cancelled, issued' = issued \cup {t},
         UNCHANGED <<persistent, file, now, executed>>
  PROVE  StoreInv'
<1>1. TypeOK'
  BY AtomAssumption DEF StoreInv, TypeOK, Store, After, Table
<1>2. ServingInv'
  BY AtomAssumption DEF StoreInv, ServingInv, TypeOK, Store, After, Table, InFlight
<1>3. ASSUME NEW u \in Token PROVE TokenInv(u)'
  <2>1. Loaded(file, now)' = Loaded(file, now) /\ (~persistent => ~Pending(Loaded(file, now), u))
    BY FreshKeepsUnexpired, NoTableIsEmpty
       DEF StoreInv, ServingInv, TypeOK, Loaded, Pending, Fresh
  <2>2. CASE u = t
    BY <2>1, <2>2, AtomAssumption
       DEF StoreInv, ServingInv, TokenInv, TypeOK, Store, After, Table, Record, Alive, InFlight, Pending
  <2>3. CASE u # t
    BY <2>1, <2>3, AtomAssumption
       DEF StoreInv, ServingInv, TokenInv, TypeOK, Store, After, Table, Alive, InFlight, Pending
  <2> QED
    BY <2>2, <2>3
<1> QED
  BY <1>1, <1>2, <1>3 DEF StoreInv

LEMMA ProposeKeepsInv ==
  ASSUME StoreInv, NEW t \in Token, NEW owner \in Actor, Propose(t, owner)
  PROVE  StoreInv'
<1> DEFINE first == [status |-> "pending", owner |-> owner, expires |-> now + Lifetime]
<1>1. first \in Record
  BY NumberAssumption DEF StoreInv, TypeOK, Record, Status
<1>2. executed[t] = 0 /\ t \notin cancelled
  BY DEF StoreInv, TokenInv, Propose
<1> QED
  BY <1>1, <1>2, StoreKeepsInv DEF Propose

LEMMA ResolveKeepsInv ==
  ASSUME StoreInv, NEW t \in Token, NEW status \in Status, Resolve(t, status)
  PROVE  StoreInv'
<1>1. [records[t] EXCEPT !.status = status] \in Record
  BY DEF StoreInv, TypeOK, Resolve, Pending, Table, Record
<1>2. executed[t] = 0 /\ t \notin cancelled /\ issued' = issued \cup {t}
  BY DEF StoreInv, TypeOK, TokenInv, Resolve, Pending, Alive
<1> QED
  BY <1>1, <1>2, StoreKeepsInv DEF Resolve

\* After the flush the file knows of no token more than the store does.
LEMMA FlushKeepsInv == ASSUME StoreInv, Flush PROVE StoreInv'
<1>1. /\ Fresh(records, now) \in Table
      /\ Loaded(file, now)' = Fresh(Fresh(records, now), now)
      /\ \A u \in Token : /\ Fresh(Fresh(records, now), now)[u] \in {records[u], NoRecord}
                          /\ Pending(Loaded(file, now)', u) => Pending(records, u)
  BY FreshKeepsUnexpired, AtomAssumption DEF StoreInv, TypeOK, Flush, Loaded
<1>2. TypeOK'
  BY <1>1, AtomAssumption DEF StoreInv, TypeOK, Flush, After
<1>3. ServingInv'
  BY AtomAssumption DEF StoreInv, ServingInv, TypeOK, Flush, After, InFlight
<1>4. ASSUME NEW u \in Token PROVE TokenInv(u)'
  BY <1>1, AtomAssumption
     DEF StoreInv, ServingInv, TokenInv, TypeOK, Flush, After, Alive, InFlight, Pending
<1> QED
  BY <1>2, <1>3, <1>4 DEF StoreInv

LEMMA ExecuteKeepsInv == ASSUME StoreInv, Execute PROVE StoreInv'
<1>1. /\ current \in Token /\ current \in issued /\ InFlight(current)
      /\ executed[current] = 0 /\ current \notin cancelled
      /\ ~Pending(records, current) /\ ~Pending(Loaded(file, now), current)
  BY AtomAssumption DEF StoreInv, ServingInv, TypeOK, TokenInv, Execute, Alive, InFlight, Pending
<1>2. TypeOK'
  BY <1>1 DEF StoreInv, TypeOK, Execute
<1>3. ServingInv'
  BY DEF StoreInv, ServingInv, Execute
<1>4. ASSUME NEW u \in Token PROVE TokenInv(u)'
  BY <1>1, AtomAssumption DEF StoreInv, TokenInv, TypeOK, Execute, Alive, InFlight, Pending, Loaded, Fresh, NoTable
<1> QED
  BY <1>2, <1>3, <1>4 DEF StoreInv

\* Time only takes pending records away from the file.
LEMMA TickKeepsInv == ASSUME StoreInv, Tick PROVE StoreInv'
<1>1. \A u \in Token :
        /\ Loaded(file, now)'[u] \in {Loaded(file, now)[u], NoRecord}
        /\ Pending(Loaded(file, now)', u) => Pending(Loaded(file, now), u)
  BY NumberAssumption DEF StoreInv, TypeOK, Tick, Loaded, Fresh, Pending, NoTable, Table, Record
<1>2. TypeOK' /\ ServingInv'
  BY NumberAssumption DEF StoreInv, TypeOK, ServingInv, Tick, InFlight
<1>3. ASSUME NEW u \in Token PROVE TokenInv(u)'
  BY <1>1 DEF StoreInv, TokenInv, Tick, Alive, InFlight, Pending
<1> QED
  BY <1>2, <1>3 DEF StoreInv

\* A restart reads pending tokens only from what the store or the file held before.
LEMMA CrashReads ==
  ASSUME StoreInv, Crash, NEW u \in Token
  PROVE  /\ u \notin issued => records'[u] = NoRecord /\ Loaded(file, now)'[u] = NoRecord
         /\ Pending(records', u) \/ Pending(Loaded(file, now)', u)
              => Pending(Loaded(file, now), u) \/ Pending(Fresh(records, now), u)
         /\ Pending(Loaded(file, now)', u) => Pending(records', u)
<1>1. /\ Fresh(records, now) \in Table
      /\ Loaded(Fresh(records, now), now) = Fresh(Fresh(records, now), now)
      /\ Fresh(Fresh(records, now), now)[u] \in {records[u], NoRecord}
      /\ Pending(Fresh(Fresh(records, now), now), u) => Pending(Fresh(records, now), u)
  BY FreshKeepsUnexpired, AtomAssumption DEF StoreInv, TypeOK, Loaded
<1>2. Loaded(file, now) \in Table /\ Loaded(Torn, now) = NoTable
  BY LoadedIsTable DEF StoreInv, TypeOK, Loaded
<1>3. ~persistent => file' = NoTable /\ ~Pending(Loaded(NoTable, now), u)
  BY FreshKeepsUnexpired, NoTableIsEmpty
     DEF StoreInv, ServingInv, Crash, Loaded, Pending, Fresh
<1>4. file' \in {file, Fresh(records, now), Torn} /\ now' = now /\ persistent' = persistent
  BY DEF Crash
<1>5. Loaded(file, now)' = Loaded(file', now)
  BY <1>4
<1>6. u \notin issued => records[u] = NoRecord /\ Loaded(file, now)[u] = NoRecord
  BY DEF StoreInv, TokenInv
<1> QED
  BY <1>1, <1>2, <1>3, <1>4, <1>5, <1>6, NoTableIsEmpty DEF Crash, Pending, StoreInv, TypeOK

LEMMA CrashKeepsInv == ASSUME StoreInv, Crash PROVE StoreInv'
<1>1. TypeOK'
  <2>1. file' \in Table \cup {Torn}
    BY FreshKeepsUnexpired DEF StoreInv, TypeOK, Crash
  <2>2. records' \in Table
    BY <2>1, LoadedIsTable, NoTableIsEmpty DEF StoreInv, TypeOK, Crash
  <2> QED
    BY <2>1, <2>2 DEF StoreInv, TypeOK, Crash
<1>2. ServingInv'
  BY DEF StoreInv, ServingInv, Crash
<1>3. ASSUME NEW u \in Token PROVE TokenInv(u)'
  <2>1. Pending(Fresh(records, now), u) => Pending(records, u)
    BY FreshKeepsUnexpired DEF StoreInv, TypeOK
  <2> QED
    BY <2>1, CrashReads, AtomAssumption DEF StoreInv, TokenInv, TypeOK, Crash, Alive, InFlight
<1> QED
  BY <1>1, <1>2, <1>3 DEF StoreInv

LEMMA NextKeepsInv == StoreInv /\ [Next]_vars => StoreInv'
<1> SUFFICES ASSUME StoreInv, [Next]_vars PROVE StoreInv'
  OBVIOUS
<1>1. ASSUME NEW t \in Token, NEW by \in Actor, Propose(t, by) PROVE StoreInv'
  BY <1>1, ProposeKeepsInv
<1>2. ASSUME NEW t \in Token, NEW by \in Actor, Cancel(t, by) PROVE StoreInv'
  BY <1>2, ResolveKeepsInv DEF Cancel, Status
<1>3. ASSUME NEW t \in Token, NEW by \in Actor, NEW decision \in Decision, Confirm(t, by, decision)
      PROVE StoreInv'
  BY <1>3, ResolveKeepsInv DEF Confirm, Status
<1>4. ASSUME NEW t \in Token, Expire(t) PROVE StoreInv'
  BY <1>4, ResolveKeepsInv DEF Expire, Status
<1>5. CASE UNCHANGED vars
  BY <1>5 DEF vars, StoreInv, TypeOK, ServingInv, TokenInv, Alive, InFlight, Pending, Loaded, Fresh
<1> QED
  BY <1>1, <1>2, <1>3, <1>4, <1>5, FlushKeepsInv, ExecuteKeepsInv, TickKeepsInv, CrashKeepsInv
     DEF Next

\* TokenInv and ServingInv, and with them the type invariant, for every instance: a token
\* that was executed or cancelled is pending neither in memory nor in the file a restart
\* reads, and the file lags behind memory only for the token whose flush is under way.
THEOREM StoreInvariant == Spec => []StoreInv
  BY InitStoreInv, NextKeepsInv, PTL DEF Spec

\* src/docs/verification-plan.xml:209: a token is executed at most once; across crashes, for every
\* instance (ExecutedAtMostOnce).
THEOREM AtMostOnce == Spec => []ExecutedAtMostOnce
<1>1. StoreInv => ExecutedAtMostOnce
  BY DEF StoreInv, TypeOK, TokenInv, ExecutedAtMostOnce
<1> QED
  BY <1>1, StoreInvariant, PTL

\* src/src/confirmation_state.py:234: once an operator was told that a token is cancelled it is not
\* executed, whatever is lost or read again after that (CancelIsFinal).
THEOREM CancelStays == Spec => []CancelIsFinal
<1>1. StoreInv => CancelIsFinal
  BY DEF StoreInv, TypeOK, TokenInv, CancelIsFinal
<1> QED
  BY <1>1, StoreInvariant, PTL

-----------------------------------------------------------------------------
(***************************************************************************)
(* Confirmation implements OneShot: every step offers a token, performs an *)
(* open one, or lets some open tokens lapse.                               *)
(***************************************************************************)
LEMMA InitRefines == Init => Promise!Init
  BY NoTableIsEmpty, FreshKeepsUnexpired, AtomAssumption
     DEF Init, Promise!Init, Open, Pending, Loaded, InFlight

\* A step that opens no token and runs no action lets tokens lapse, or stutters.
LEMMA LapseRefines ==
  ASSUME issued' = issued, executed' = executed, Open' \subseteq Open
  PROVE  [Promise!Next]_(Promise!vars)
<1>1. Open \ Open' \in SUBSET Token /\ Open' = Open \ (Open \ Open')
  BY DEF Open
<1> QED
  BY <1>1 DEF Promise!Next, Promise!Lapse

LEMMA ProposeRefines ==
  ASSUME StoreInv, NEW t \in Token, NEW owner \in Actor, Propose(t, owner)
  PROVE  Promise!Offer(t)
<1>1. records' \in Table /\ records \in Table /\ now \in Nat
  BY ProposeKeepsInv DEF StoreInv, TypeOK
<1>2. Pending(records, t)' /\ now <= records'[t].expires
  <2> DEFINE first == [status |-> "pending", owner |-> owner, expires |-> now + Lifetime]
  <2>1. first \in Record
    BY <1>1, NumberAssumption DEF Record, Status
  <2>2. records'[t] = first
    BY <1>1 DEF Propose, Store, Table
  <2> QED
    BY <1>1, <2>1, <2>2, NumberAssumption, AtomAssumption DEF Pending
<1>3. \A u \in Token \ {t} : records'[u] = records[u]
  BY <1>1 DEF Propose, Store, Table
<1>4. Open' = Open \cup {t}
  <2>1. Loaded(file, now)' = Loaded(file, now) /\ now' = now
    BY DEF Propose, Loaded, Fresh
  <2>2. \A u \in Token \ {t} : Pending(Fresh(records, now)', u) <=> Pending(Fresh(records, now), u)
    BY <1>1, <1>3, <2>1 DEF Fresh, Pending
  <2>3. Pending(Fresh(records, now)', t)
    BY <1>1, <1>2, <2>1 DEF Fresh, Pending, Table, Record
  <2>4. \A u \in Token : ~InFlight(u) /\ ~InFlight(u)'
    BY <1>2, AtomAssumption DEF StoreInv, TypeOK, Propose, Store, After, InFlight, Pending
  <2> QED
    BY <2>1, <2>2, <2>3, <2>4 DEF Open
<1> QED
  BY <1>4 DEF Propose, Promise!Offer

LEMMA ResolveRefines ==
  ASSUME StoreInv, NEW t \in Token, NEW status \in Status \ {"pending"}, Resolve(t, status),
         status = "confirmed" => now <= records[t].expires
  PROVE  [Promise!Next]_(Promise!vars)
<1>1. records' \in Table /\ records \in Table /\ now \in Nat
  BY ResolveKeepsInv DEF StoreInv, TypeOK
<1>2. ASSUME NEW u \in Open' PROVE u \in Open
  <2>1. u \in Token /\ Loaded(file, now)' = Loaded(file, now) /\ now' = now
    BY DEF Resolve, Loaded, Fresh, Open
  <2>2. CASE u = t
    <3>1. ~Pending(Fresh(records, now)', t)
      BY <1>1, <2>1 DEF Resolve, Store, Fresh, Pending, Table
    <3>2. InFlight(t)' => status = "confirmed"
      BY <1>1 DEF Resolve, Store, InFlight, Table
    <3>3. status = "confirmed" => Pending(Fresh(records, now), t)
      BY <1>1, FreshKeepsUnexpired DEF Resolve
    <3> QED
      BY <2>1, <2>2, <3>1, <3>2, <3>3 DEF Open
  <2>3. CASE u # t
    <3>1. records'[u] = records[u]
      BY <1>1, <2>1, <2>3 DEF Resolve, Store, Table
    <3>2. Pending(Fresh(records, now)', u) <=> Pending(Fresh(records, now), u)
      BY <1>1, <2>1, <3>1 DEF Fresh, Pending
    <3>3. ~InFlight(u)'
      BY <2>1, <2>3, AtomAssumption DEF Resolve, Store, After, InFlight
    <3> QED
      BY <2>1, <3>2, <3>3 DEF Open
  <2> QED
    BY <2>2, <2>3
<1> QED
  BY <1>2, LapseRefines DEF Resolve

LEMMA FlushRefines == ASSUME StoreInv, Flush PROVE [Promise!Next]_(Promise!vars)
<1>1. records \in Table /\ now \in Nat /\ now' = now /\ records' = records
  BY DEF StoreInv, TypeOK, Flush
<1>2. \A u \in Token : Pending(Loaded(file, now)', u) => Pending(Fresh(records, now), u)
  BY <1>1, FreshKeepsUnexpired, AtomAssumption DEF Flush, Loaded
<1>3. \A u \in Token : InFlight(u)' => InFlight(u)
  BY <1>1, AtomAssumption DEF Flush, After, InFlight
<1> QED
  BY <1>1, <1>2, <1>3, LapseRefines DEF Flush, Open

LEMMA ExecuteRefines == ASSUME StoreInv, Execute PROVE Promise!Perform(current)
<1>1. current \in Token /\ InFlight(current)
  BY AtomAssumption DEF StoreInv, TypeOK, ServingInv, Execute
<1>2. ~Pending(Fresh(records, now), current) /\ ~Pending(Loaded(file, now), current)
  BY <1>1, FreshKeepsUnexpired
     DEF StoreInv, TypeOK, TokenInv, Execute, InFlight, Pending
<1>3. \A u \in Token : InFlight(u) <=> u = current
  BY <1>1 DEF InFlight
<1>4. /\ UNCHANGED <<Fresh(records, now), Loaded(file, now)>>
      /\ \A u \in Token : ~InFlight(u)'
  BY AtomAssumption DEF Execute, Loaded, Fresh, InFlight
<1> QED
  BY <1>1, <1>2, <1>3, <1>4 DEF Execute, Open, Promise!Perform

LEMMA TickRefines == ASSUME StoreInv, Tick PROVE [Promise!Next]_(Promise!vars)
<1>1. now \in Nat /\ now' = now + 1 /\ records' = records /\ file' = file /\ records \in Table
  BY DEF StoreInv, TypeOK, Tick
<1>2. \A u \in Token : Pending(Fresh(records, now)', u) => Pending(Fresh(records, now), u)
  BY <1>1, FreshKeepsUnexpired DEF Table, Record, Pending
<1>3. \A u \in Token : Pending(Loaded(file, now)', u) => Pending(Loaded(file, now), u)
  BY <1>1 DEF StoreInv, TypeOK, Loaded, Fresh, Pending, NoTable, Table, Record
<1>4. \A u \in Token : InFlight(u)' <=> InFlight(u)
  BY DEF Tick, InFlight
<1> QED
  BY <1>2, <1>3, <1>4, LapseRefines DEF Tick, Open

LEMMA CrashRefines == ASSUME StoreInv, Crash PROVE [Promise!Next]_(Promise!vars)
<1>1. \A u \in Token : Pending(Fresh(records, now)', u) => Pending(records', u)
  BY CrashKeepsInv, FreshKeepsUnexpired DEF StoreInv, TypeOK
<1>2. \A u \in Token : ~InFlight(u)'
  BY AtomAssumption DEF Crash, InFlight
<1> QED
  BY <1>1, <1>2, CrashReads, LapseRefines DEF Crash, Open

\* Expired, cancelled, replayed or lost confirmations never reach execution: the store
\* implements OneShot for every instance.
THEOREM Refinement == Spec => ImplementsOneShot
<1>1. StoreInv /\ [Next]_vars => [Promise!Next]_(Promise!vars)
  <2> SUFFICES ASSUME StoreInv, [Next]_vars PROVE [Promise!Next]_(Promise!vars)
    OBVIOUS
  <2>1. ASSUME NEW t \in Token, NEW by \in Actor, Propose(t, by)
        PROVE  [Promise!Next]_(Promise!vars)
    BY <2>1, ProposeRefines DEF Promise!Next
  <2>2. ASSUME NEW t \in Token, NEW by \in Actor, Cancel(t, by)
        PROVE  [Promise!Next]_(Promise!vars)
    BY <2>2, ResolveRefines DEF Cancel, Status
  <2>3. ASSUME NEW t \in Token, NEW by \in Actor, NEW decision \in Decision, Confirm(t, by, decision)
        PROVE  [Promise!Next]_(Promise!vars)
    BY <2>3, ResolveRefines DEF Confirm, Status
  <2>4. ASSUME NEW t \in Token, Expire(t) PROVE [Promise!Next]_(Promise!vars)
    BY <2>4, ResolveRefines DEF Expire, Status
  <2>5. CASE Execute
    BY <2>5, ExecuteRefines, AtomAssumption DEF Promise!Next, StoreInv, TypeOK, Execute
  <2>6. CASE UNCHANGED vars
    <3>1. Open' = Open
      BY <2>6 DEF vars, Open, Pending, Loaded, Fresh, InFlight
    <3> QED
      BY <2>6, <3>1, LapseRefines DEF vars
  <2> QED
    BY <2>1, <2>2, <2>3, <2>4, <2>5, <2>6, FlushRefines, TickRefines, CrashRefines DEF Next
<1> QED
  BY <1>1, InitRefines, StoreInvariant, PTL DEF Spec, ImplementsOneShot, Promise!Spec

-----------------------------------------------------------------------------
(***************************************************************************)
(* A restart of the persistent store.                                      *)
(***************************************************************************)
\* When no flush is under way, a restart would read what memory holds unexpired.
FileInv == persistent /\ pc # "flush" => Loaded(file, now) = Fresh(records, now)

\* Dropping the records expired at one time and then those expired later.
LEMMA FreshTwice ==
  ASSUME NEW table \in Table, NEW early \in Nat, NEW late \in Nat, early <= late
  PROVE  Fresh(Fresh(table, early), late) = Fresh(table, late)
<1>1. ASSUME NEW t \in Token PROVE Fresh(Fresh(table, early), late)[t] = Fresh(table, late)[t]
  <2>1. CASE table[t] = NoRecord
    BY <2>1 DEF Fresh
  <2>2. CASE table[t] \in Record
    BY <2>2, AtomAssumption DEF Fresh, Record
  <2> QED
    BY <2>1, <2>2 DEF Table
<1> QED
  BY <1>1 DEF Fresh

LEMMA LoadedLater ==
  ASSUME NEW f \in Table \cup {Torn}, NEW early \in Nat, NEW late \in Nat, early <= late
  PROVE  Loaded(f, late) = Fresh(Loaded(f, early), late)
<1>1. CASE f = Torn
  BY <1>1 DEF Loaded, Fresh, NoTable
<1>2. CASE f # Torn
  BY <1>2, FreshTwice DEF Loaded
<1> QED
  BY <1>1, <1>2

LEMMA NextKeepsFile == StoreInv /\ FileInv /\ [Next]_vars => FileInv'
<1> SUFFICES ASSUME StoreInv, FileInv, [Next]_vars PROVE FileInv'
  OBVIOUS
<1>1. records \in Table /\ file \in Table \cup {Torn} /\ now \in Nat
  BY DEF StoreInv, TypeOK
<1>2. ASSUME NEW t \in Token, NEW record, Store(t, record), UNCHANGED <<persistent, file, now>>
      PROVE  FileInv'
  BY <1>2 DEF Store, FileInv
<1>3. ASSUME NEW t \in Token, NEW by \in Actor, Propose(t, by) PROVE FileInv'
  BY <1>2, <1>3 DEF Propose
<1>4. ASSUME NEW t \in Token, NEW status, Resolve(t, status) PROVE FileInv'
  BY <1>2, <1>4 DEF Resolve
<1>5. CASE Flush
  <2>1. Fresh(records, now) \in Table /\ Fresh(records, now) # Torn
    BY <1>1, FreshKeepsUnexpired, AtomAssumption
  <2>2. Fresh(Fresh(records, now), now) = Fresh(records, now)
    BY <1>1, FreshTwice
  <2> QED
    BY <1>5, <2>1, <2>2 DEF Flush, FileInv, Loaded
<1>6. CASE Execute
  <2>1. pc # "flush" /\ UNCHANGED <<persistent, records, file, now>>
    BY <1>6 DEF Execute
  <2> QED
    BY <2>1 DEF FileInv
<1>7. CASE Tick
  <2>1. now + 1 \in Nat /\ now <= now + 1
    BY <1>1
  <2>2. Loaded(file, now + 1) = Fresh(Loaded(file, now), now + 1)
    BY <1>1, <2>1, LoadedLater
  <2>3. Fresh(Fresh(records, now), now + 1) = Fresh(records, now + 1)
    BY <1>1, <2>1, FreshTwice
  <2>4. now' = now + 1 /\ UNCHANGED <<persistent, records, file, pc>>
    BY <1>7 DEF Tick
  <2> QED
    BY <2>2, <2>3, <2>4 DEF FileInv
<1>8. CASE Crash
  <2>1. file' \in Table \cup {Torn} /\ now' = now
    BY <1>1, <1>8, FreshKeepsUnexpired DEF Crash
  <2>2. persistent' => records' = Loaded(file', now)
    BY <1>8 DEF Crash
  <2>3. Loaded(file', now) = Fresh(Loaded(file', now), now)
    BY <1>1, <2>1, LoadedLater
  <2> QED
    BY <2>1, <2>2, <2>3 DEF FileInv
<1>9. CASE UNCHANGED vars
  BY <1>9 DEF vars, FileInv
<1> QED
  BY <1>3, <1>4, <1>5, <1>6, <1>7, <1>8, <1>9 DEF Next, Expire, Cancel, Confirm

\* Wherever the process dies, a restart of the persistent store between two requests
\* neither loses a token that can still be confirmed nor brings back one that cannot.
THEOREM RestartSafe == Spec => []RestartKeepsOpen
<1>1. Init => FileInv
  <2>1. ASSUME Init PROVE file = NoTable /\ records = NoTable /\ NoTable # Torn
    BY <2>1, NoTableIsEmpty, AtomAssumption DEF Init
  <2> QED
    BY <2>1 DEF FileInv, Loaded
<1>2. FileInv => RestartKeepsOpen
  BY DEF FileInv, RestartKeepsOpen
<1> QED
  BY <1>1, <1>2, NextKeepsFile, StoreInvariant, PTL DEF Spec
=============================================================================
