----------------------------- MODULE WebApiProofs -----------------------------
(***************************************************************************)
(* Proofs about WebApi for any handlers, adapters, settings, capacities    *)
(* and lifetimes, and any number of requests.                              *)
(*                                                                         *)
(* The argument: of the updates of one table at most one is in hand        *)
(* (Exclusive), so what it has checked, or built, still fits the rows when *)
(* it writes or publishes (SettingsInv, AdaptersInv); and an id enters a   *)
(* map of the session manager only when it is drawn (TokensInv).           *)
(***************************************************************************)
EXTENDS WebApi, TLAPS

InHand(r) == IsUpdate(r) /\ request[r].at # "waiting"

\* The fields a handler of each kind has.
Formed(q) ==
  \/ q = Done
  \/ q = Restoring
  \/ q = [op |-> "logout", cred |-> q.cred]
  \/ /\ q = [op |-> q.op, at |-> q.at, now |-> q.now, cred |-> q.cred, right |-> q.right]
     /\ q.op \in {"login", "reauthenticate"}
  \/ /\ q = [op |-> q.op, at |-> q.at, key |-> q.key, value |-> q.value,
             expected |-> q.expected, built |-> q.built]
     /\ \/ q.op = "settings" /\ q.at \in {"waiting", "writing"}
        \/ q.op = "adapters" /\ q.at \in {"waiting", "writing", "publishing"}

RequestsFormed ==
  /\ request = [r \in Requests |-> request[r]]
  /\ \A r \in Requests : Formed(request[r])

Tabled(d) == d = [settings |-> d.settings, adapters |-> d.adapters, audit |-> d.audit]

\* The locks of AdminService.
Exclusive ==
  \A q, r \in Requests : InHand(q) /\ InHand(r) /\ request[q].op = request[r].op => q = r

SettingsInv ==
  ~raced =>
    /\ Coherent(db.settings)
    /\ Coherent(saved.settings)
    /\ \A r \in Requests : Is(r, "settings") /\ InHand(r) =>
         Coherent(Candidate(db.settings, request[r].key, request[r].value))

AdaptersInv ==
  ~drifted =>
    /\ (\A r \in Requests : ~(Is(r, "adapters") /\ UpdateAt(r, "publishing")))
         => published = Snapshot(db.adapters)
    /\ \A r \in Requests : Is(r, "adapters") /\ UpdateAt(r, "publishing") =>
         request[r].built = Snapshot(db.adapters)
    /\ \A r \in Requests : Is(r, "adapters") /\ UpdateAt(r, "writing") =>
         request[r].built = Snapshot(Candidate(db.adapters, request[r].key, request[r].value))

Ids == DOMAIN tokens \cup DOMAIN sessions

TokensInv ==
  /\ issued \in Nat
  /\ Ids \subseteq 1 .. issued
  /\ ended \subseteq 1 .. issued
  /\ Ids \cap ended = {}

\* The inductive invariant of the tables, without that of the sessions.
AdminInv ==
  RequestsFormed /\ Tabled(db) /\ Tabled(saved) /\ Exclusive /\ SettingsInv /\ AdaptersInv

-----------------------------------------------------------------------------
(* The two tables. *)

\* The names the tables go by (Keys).
LEMMA TableNames == Tables = {"settings", "adapters"}
  BY DEF Tables, Keys

\* The seeded database is coherent, published and in nobody's hand (AdminInit).
LEMMA AdminStart == Init => AdminInv
<1> SUFFICES ASSUME Init PROVE AdminInv
  OBVIOUS
<1>1. /\ Tabled(db)
      /\ db.settings = [k \in Keys.settings |->
                           [value |-> IF k = "poll" THEN SeededPoll ELSE SeededLease, version |-> 1]]
      /\ saved = db
      /\ published = Snapshot(db.adapters)
      /\ request = [r \in Requests |-> Done]
  BY DEF Init, AdminInit, Tabled
<1>2. /\ db.settings["poll"].value = SeededPoll
      /\ db.settings["lease"].value = SeededLease
  BY <1>1 DEF Keys
<1>3. Coherent(db.settings)
  BY <1>2, AdminAssumption DEF Coherent, Keys
<1>4. \A r \in Requests : request[r] = Done /\ ~IsUpdate(r)
  BY <1>1, TableNames DEF IsUpdate, Done
<1>5. RequestsFormed
  BY <1>1, <1>4 DEF RequestsFormed, Formed
<1>6. Exclusive /\ SettingsInv /\ AdaptersInv
  BY <1>1, <1>3, <1>4 DEF Exclusive, SettingsInv, AdaptersInv, InHand, UpdateAt
<1> QED
  BY <1>1, <1>5, <1>6 DEF AdminInv

-----------------------------------------------------------------------------
(* Steps that leave the tables and whatever is in hand alone. *)

Untouched ==
  /\ UNCHANGED <<adminVars, raced, drifted>>
  /\ RequestsFormed'
  /\ \A r \in Requests : InHand(r) \/ InHand(r)' => request'[r] = request[r]

\* A handler's next position is well formed, and it is the only one that moved.
LEMMA OneMoves ==
  ASSUME RequestsFormed, NEW r \in Requests, NEW q, Formed(q),
         request' = [request EXCEPT ![r] = q]
  PROVE  /\ RequestsFormed'
         /\ request'[r] = q
         /\ \A p \in Requests \ {r} : request'[p] = request[p]
<1>1. /\ request'[r] = q
      /\ \A p \in Requests \ {r} : request'[p] = request[p]
      /\ request' = [p \in Requests |-> request'[p]]
  BY DEF RequestsFormed
<1>2. \A p \in Requests : Formed(request'[p])
  BY <1>1 DEF RequestsFormed
<1> QED
  BY <1>1, <1>2 DEF RequestsFormed

\* Handlers that are not in hand before or after leave what is in hand alone.
LEMMA MoveElsewhere ==
  ASSUME RequestsFormed, NEW r \in Requests, NEW q, Formed(q),
         request' = [request EXCEPT ![r] = q],
         ~InHand(r), q.op \notin Tables \/ q.at = "waiting",
         UNCHANGED <<adminVars, raced, drifted>>
  PROVE  Untouched
<1>1. RequestsFormed' /\ request'[r] = q /\ \A p \in Requests \ {r} : request'[p] = request[p]
  BY OneMoves
<1>2. ~InHand(r)'
  BY <1>1 DEF InHand, IsUpdate
<1> QED
  BY <1>1, <1>2 DEF Untouched

\* A handler that ends was well formed (End).
LEMMA DoneFormed == Formed(Done) /\ Done.op \notin Tables
  BY TableNames DEF Formed, Done

\* The invariant survives whatever leaves tables and hands alone.
LEMMA UntouchedKeeps ==
  ASSUME AdminInv, Untouched
  PROVE  AdminInv'
<1>1. db' = db /\ saved' = saved /\ published' = published /\ raced' = raced /\ drifted' = drifted
  BY DEF Untouched, adminVars
<1>2. \A r \in Requests : InHand(r)' => InHand(r) /\ request'[r] = request[r]
  BY DEF Untouched, InHand, IsUpdate
<1>3. \A r \in Requests : InHand(r) => InHand(r)' /\ request'[r] = request[r]
  BY DEF Untouched, InHand, IsUpdate
<1>4. Exclusive'
  BY <1>2 DEF AdminInv, Exclusive
<1>5. SettingsInv'
  <2>1. \A r \in Requests : (Is(r, "settings") /\ InHand(r))' => Is(r, "settings") /\ InHand(r)
    BY <1>2 DEF Is
  <2> QED
    BY <1>1, <1>2, <2>1 DEF AdminInv, SettingsInv
<1>6. AdaptersInv'
  <2>1. \A r \in Requests : \A at \in {"writing", "publishing"} :
           Is(r, "adapters")' /\ UpdateAt(r, at)' <=> Is(r, "adapters") /\ UpdateAt(r, at)
    BY <1>2, <1>3 DEF Is, UpdateAt, InHand, IsUpdate
  <2>2. \A r \in Requests : \A at \in {"writing", "publishing"} :
           UpdateAt(r, at) => request'[r] = request[r]
    BY <1>3 DEF UpdateAt, InHand
  <2> QED
    BY <1>1, <2>1, <2>2 DEF AdminInv, AdaptersInv
<1> QED
  BY <1>1, <1>4, <1>5, <1>6 DEF AdminInv, Untouched

\* Session requests, and requests that only begin, are such steps.
LEMMA HandlersElsewhere ==
  ASSUME AdminInv, NEW r \in Requests,
         \/ LoginBegun(r) \/ TokenConsumed(r) \/ ReauthenticationBegun(r) \/ RateChecked(r)
         \/ PasswordRefused(r) \/ PasswordAccepted(r) \/ LogoutBegun(r) \/ LoggedOut(r)
         \/ UpdateBegun(r) \/ RestoreBegun(r)
  PROVE  Untouched
<1>1. RequestsFormed
  BY DEF AdminInv
<1>2. CASE \E q : /\ Formed(q) /\ request' = [request EXCEPT ![r] = q] /\ ~InHand(r)
                  /\ (q.op \notin Tables \/ q.at = "waiting")
                  /\ UNCHANGED <<adminVars, raced, drifted>>
  BY <1>1, <1>2, MoveElsewhere
<1> DEFINE Ended == request' = [request EXCEPT ![r] = Done]
           Moved(at) == request' = [request EXCEPT ![r].at = at]
           Still == UNCHANGED <<adminVars, raced, drifted>>
<1>3. ASSUME Done = request[r] \/ request[r].op \notin Tables, Ended, Still PROVE Untouched
  BY <1>2, <1>3, DoneFormed DEF InHand, IsUpdate
<1>4. ASSUME NEW at, request[r].op \in {"login", "reauthenticate"}, Moved(at), Still PROVE Untouched
  <2> DEFINE q == [request[r] EXCEPT !.at = at]
  <2>1. Formed(request[r])
    BY <1>1 DEF RequestsFormed
  <2>2. request[r] = [op |-> request[r].op, at |-> request[r].at, now |-> request[r].now,
                      cred |-> request[r].cred, right |-> request[r].right]
    BY <2>1, <1>4 DEF Formed, Done, Restoring
  <2>3. Formed(q) /\ q.op = request[r].op
    BY <2>2, <1>4 DEF Formed
  <2>4. request' = [request EXCEPT ![r] = q]
    BY <1>1, <1>4 DEF RequestsFormed
  <2> HIDE DEF q
  <2> QED
    BY <1>2, <1>4, <2>3, <2>4, TableNames DEF InHand, IsUpdate
<1>5. ASSUME NEW q, Formed(q), q.op \notin Tables \/ q.at = "waiting", Begin(r, q), Still
      PROVE  Untouched
  BY <1>2, <1>5, TableNames DEF Begin, Is, InHand, IsUpdate
<1>6. CASE LoginBegun(r)
  <2>1. PICK t \in 1 .. issued, right \in BOOLEAN : Begin(r, Check("login", "consume", t, right)) /\ Still
    BY <1>6 DEF LoginBegun, KeepAdmin
  <2>2. Formed(Check("login", "consume", t, right)) /\ Check("login", "consume", t, right).op \notin Tables
    BY TableNames DEF Formed, Check
  <2> QED
    BY <1>5, <2>1, <2>2
<1>7. CASE TokenConsumed(r)
  BY <1>3, <1>4, <1>7, TableNames DEF TokenConsumed, CheckAt, Become, End, KeepAdmin
<1>8. CASE ReauthenticationBegun(r)
  <2>1. PICK s \in DOMAIN sessions \cup {0}, right \in BOOLEAN :
           Begin(r, Check("reauthenticate", "limit", s, right)) /\ Still
    BY <1>8 DEF ReauthenticationBegun, KeepAdmin
  <2>2. /\ Formed(Check("reauthenticate", "limit", s, right))
        /\ Check("reauthenticate", "limit", s, right).op \notin Tables
    BY TableNames DEF Formed, Check
  <2> QED
    BY <1>5, <2>1, <2>2
<1>9. CASE RateChecked(r)
  BY <1>3, <1>4, <1>9, TableNames DEF RateChecked, CheckAt, Become, End, KeepAdmin
<1>10. CASE PasswordRefused(r) \/ PasswordAccepted(r)
  BY <1>3, <1>10, TableNames DEF PasswordRefused, PasswordAccepted, CheckAt, End, KeepAdmin
<1>11. CASE LogoutBegun(r)
  <2>1. PICK s \in DOMAIN sessions : Begin(r, Logging(s)) /\ Still
    BY <1>11 DEF LogoutBegun, KeepAdmin
  <2>2. Formed(Logging(s)) /\ Logging(s).op \notin Tables
    BY TableNames DEF Formed, Logging
  <2> QED
    BY <1>5, <2>1, <2>2
<1>12. CASE LoggedOut(r)
  BY <1>3, <1>12, TableNames DEF LoggedOut, Is, End, KeepAdmin
<1>13. CASE UpdateBegun(r)
  <2>0. PICK table \in Tables : \E key, value, expected :
           Begin(r, Update(table, key, value, expected)) /\ Still
    BY <1>13 DEF UpdateBegun, KeepAdmin
  <2>1. PICK key, value, expected : Begin(r, Update(table, key, value, expected)) /\ Still
    BY <2>0
  <2>2. Formed(Update(table, key, value, expected)) /\ Update(table, key, value, expected).at = "waiting"
    BY TableNames DEF Formed, Update
  <2> QED
    BY <1>5, <2>1, <2>2
<1>14. CASE RestoreBegun(r)
  <2>1. Formed(Restoring) /\ Restoring.op \notin Tables
    BY TableNames DEF Formed, Restoring
  <2> QED
    BY <1>5, <1>14, <2>1 DEF RestoreBegun, KeepAdmin
<1> QED
  BY <1>6, <1>7, <1>8, <1>9, <1>10, <1>11, <1>12, <1>13, <1>14

-----------------------------------------------------------------------------
(* The updates in hand. *)

\* What is in hand is an update, with all its fields.
LEMMA HandFormed ==
  ASSUME RequestsFormed, NEW r \in Requests, IsUpdate(r)
  PROVE  /\ request[r] = [op |-> request[r].op, at |-> request[r].at, key |-> request[r].key,
                          value |-> request[r].value, expected |-> request[r].expected,
                          built |-> request[r].built]
         /\ \/ Is(r, "settings") /\ request[r].at \in {"waiting", "writing"}
            \/ Is(r, "adapters") /\ request[r].at \in {"waiting", "writing", "publishing"}
  BY TableNames DEF RequestsFormed, Formed, IsUpdate, Is, Done, Restoring

\* The two fields a check fills in.
LEMMA FieldsFilled ==
  ASSUME NEW q, NEW at, NEW built,
         q = [op |-> q.op, at |-> q.at, key |-> q.key, value |-> q.value,
              expected |-> q.expected, built |-> q.built]
  PROVE  [q EXCEPT !.at = at, !.built = built] =
           [op |-> q.op, at |-> at, key |-> q.key, value |-> q.value,
            expected |-> q.expected, built |-> built]
<1> DEFINE u == [q EXCEPT !.at = at, !.built = built]
<1>1. DOMAIN q = {"op", "at", "key", "value", "expected", "built"}
  OBVIOUS
<1>2. /\ u = [f \in {"op", "at", "key", "value", "expected", "built"} |-> u[f]]
      /\ u.op = q.op /\ u.at = at /\ u.key = q.key /\ u.value = q.value
      /\ u.expected = q.expected /\ u.built = built
  BY <1>1
<1> HIDE DEF u
<1>3. u = [op |-> q.op, at |-> at, key |-> q.key, value |-> q.value,
           expected |-> q.expected, built |-> built]
  BY <1>2
<1> QED
  BY <1>3 DEF u

\* An event changes neither table (Recorded).
LEMMA RecordedKeeps ==
  ASSUME NEW d, Tabled(d), NEW outcome
  PROVE  /\ Tabled(Recorded(d, outcome))
         /\ Recorded(d, outcome).settings = d.settings
         /\ Recorded(d, outcome).adapters = d.adapters
<1>1. Recorded(d, outcome) =
        [settings |-> d.settings, adapters |-> d.adapters,
         audit |-> [d.audit EXCEPT ![outcome] = @ + 1]]
  BY DEF Recorded, Tabled
<1> QED
  BY <1>1 DEF Tabled

Stored(e, d, table, rows) ==
  /\ Tabled(e)
  /\ e[table] = rows
  /\ \A other \in {"settings", "adapters"} \ {table} : e[other] = d[other]

\* A table's rows are replaced, and the other table is not (Committed).
LEMMA RowsStored ==
  \A d, table, rows : Tabled(d) /\ table \in {"settings", "adapters"} =>
    Stored([d EXCEPT ![table] = rows], d, table, rows)
<1> SUFFICES ASSUME NEW d, Tabled(d), NEW table \in {"settings", "adapters"}, NEW rows
             PROVE  Stored([d EXCEPT ![table] = rows], d, table, rows)
  OBVIOUS
<1> DEFINE e == [d EXCEPT ![table] = rows]
<1>1. DOMAIN d = {"settings", "adapters", "audit"}
  BY DEF Tabled
<1>2. /\ e = [f \in {"settings", "adapters", "audit"} |-> e[f]]
      /\ e[table] = rows
      /\ \A other \in {"settings", "adapters"} \ {table} : e[other] = d[other]
  BY <1>1
<1> HIDE DEF e
<1>3. e = [settings |-> e.settings, adapters |-> e.adapters, audit |-> e.audit]
  BY <1>2
<1>4. Stored(e, d, table, rows)
  BY <1>2, <1>3 DEF Stored, Tabled
<1> QED
  BY <1>4 DEF e

\* A handler that leaves gives up its lock; the tables it leaves are those it
\* found, and an adapter update that leaves before its publication drifts.
LEMMA Leaving ==
  ASSUME AdminInv, NEW r \in Requests, request' = [request EXCEPT ![r] = Done],
         Tabled(db'), db'.settings = db.settings, db'.adapters = db.adapters,
         UNCHANGED <<saved, published, raced>>,
         drifted' <=> drifted \/ UpdateAt(r, "publishing")
  PROVE  AdminInv'
<1>1. RequestsFormed' /\ request'[r] = Done /\ \A p \in Requests \ {r} : request'[p] = request[p]
  BY OneMoves, DoneFormed DEF AdminInv
<1>2. \A p \in Requests : InHand(p)' => p # r /\ request'[p] = request[p] /\ InHand(p)
  BY <1>1, DoneFormed DEF InHand, IsUpdate
<1>3. Exclusive'
  BY <1>2 DEF AdminInv, Exclusive
<1>4. SettingsInv'
  BY <1>2 DEF AdminInv, SettingsInv, Is
<1>5. AdaptersInv'
  <2>1. SUFFICES ASSUME ~drifted, ~UpdateAt(r, "publishing") PROVE AdaptersInv'
    BY DEF AdaptersInv
  <2>2. \A p \in Requests : \A at \in {"writing", "publishing"} :
           UpdateAt(p, at)' => UpdateAt(p, at) /\ request'[p] = request[p]
    BY <1>2 DEF UpdateAt, InHand, IsUpdate
  <2>3. \A p \in Requests : UpdateAt(p, "publishing") => p # r
    BY <2>1
  <2>4. \A p \in Requests : UpdateAt(p, "publishing") => UpdateAt(p, "publishing")' /\ request'[p] = request[p]
    BY <2>3, <1>1 DEF UpdateAt, IsUpdate
  <2> QED
    BY <2>1, <2>2, <2>4 DEF AdminInv, AdaptersInv, Is
<1> QED
  BY <1>1, <1>3, <1>4, <1>5 DEF AdminInv

\* Checking takes the lock, with a candidate that fits the rows.
LEMMA Checking ==
  ASSUME AdminInv, NEW r \in Requests, UpdateChecked(r)
  PROVE  AdminInv'
<1> DEFINE table == request[r].op
           rows == Candidate(db[table], request[r].key, request[r].value)
           built == IF table = "adapters" THEN Snapshot(rows) ELSE None
           q == [request[r] EXCEPT !.at = "writing", !.built = built]
<1>0. RequestsFormed /\ IsUpdate(r) /\ ~InHand(r) /\ Free(table)
      /\ UNCHANGED <<saved, published, raced, drifted>>
  BY DEF UpdateChecked, UpdateAt, InHand, AdminInv
<1>1. CASE /\ request' = [request EXCEPT ![r].at = "writing", ![r].built = built]
           /\ Valid(table, rows) /\ db' = db
  <2>1. /\ q = [op |-> table, at |-> "writing", key |-> request[r].key, value |-> request[r].value,
                expected |-> request[r].expected, built |-> built]
        /\ table \in {"settings", "adapters"}
    <3>1. request[r] = [op |-> request[r].op, at |-> request[r].at, key |-> request[r].key,
                        value |-> request[r].value, expected |-> request[r].expected,
                        built |-> request[r].built]
      BY <1>0, HandFormed
    <3>2. q = [op |-> request[r].op, at |-> "writing", key |-> request[r].key, value |-> request[r].value,
                expected |-> request[r].expected, built |-> built]
      <4>1. \A w, b : w = [op |-> w.op, at |-> w.at, key |-> w.key, value |-> w.value,
                           expected |-> w.expected, built |-> w.built] =>
              [w EXCEPT !.at = "writing", !.built = b] =
              [op |-> w.op, at |-> "writing", key |-> w.key, value |-> w.value,
               expected |-> w.expected, built |-> b]
        BY FieldsFilled
      <4> HIDE DEF built
      <4> QED
        BY <3>1, <4>1, Zenon
    <3> QED
      BY <1>0, <3>2, TableNames DEF IsUpdate
  <2>2. Formed(q)
    BY <2>1 DEF Formed
  <2>3. request' = [request EXCEPT ![r] = q]
    BY <1>0, <1>1 DEF RequestsFormed
  <2>4. RequestsFormed' /\ request'[r] = q /\ \A p \in Requests \ {r} : request'[p] = request[p]
    <3> HIDE DEF q
    <3> QED BY <1>0, <2>2, <2>3, OneMoves
  <2>5. \A p \in Requests \ {r} : InHand(p)' => InHand(p) /\ request'[p] = request[p] /\ request[p].op # table
    BY <1>0, <2>4 DEF InHand, IsUpdate, Free, Is
  <2>6. Exclusive'
    <3>1. request'[r].op = table
      BY <2>1, <2>4
    <3> QED
      BY <2>5, <3>1 DEF AdminInv, Exclusive
  <2>7. SettingsInv'
    <3>1. Is(r, "settings")' => Coherent(Candidate(db.settings, request'[r].key, request'[r].value))
      BY <1>1, <2>1, <2>4 DEF Is, Valid
    <3> QED
      BY <1>0, <1>1, <2>5, <3>1 DEF AdminInv, SettingsInv, Is
  <2>8. AdaptersInv'
    <3>1. \A p \in Requests : UpdateAt(p, "publishing")' <=> UpdateAt(p, "publishing")
      BY <1>0, <2>1, <2>4 DEF UpdateAt, IsUpdate, InHand
    <3>2. \A p \in Requests \ {r} : request'[p] = request[p] /\ (UpdateAt(p, "writing")' <=> UpdateAt(p, "writing"))
      BY <2>4 DEF UpdateAt, IsUpdate
    <3>3. ~UpdateAt(r, "publishing")
      BY <1>0 DEF InHand, UpdateAt
    <3>4. Is(r, "adapters")' => request'[r].built = Snapshot(Candidate(db.adapters, request'[r].key, request'[r].value))
      BY <2>1, <2>4 DEF Is
    <3> QED
      BY <1>0, <1>1, <3>1, <3>2, <3>3, <3>4 DEF AdminInv, AdaptersInv, Is
  <2> QED
    BY <1>0, <1>1, <2>4, <2>6, <2>7, <2>8 DEF AdminInv
<1>2. CASE Appended("rejected") /\ End(r)
  <2>1. ~UpdateAt(r, "publishing")
    BY <1>0 DEF InHand, UpdateAt
  <2>2. Tabled(db') /\ db'.settings = db.settings /\ db'.adapters = db.adapters
    BY <1>2, RecordedKeeps DEF Appended, AdminInv
  <2> QED
    BY <1>0, <1>2, <2>1, <2>2, Leaving DEF End
<1> QED
  BY <1>1, <1>2 DEF UpdateChecked

\* A write stores the candidate its check built: nobody else could write since.
LEMMA Writing ==
  ASSUME AdminInv, NEW r \in Requests, UpdateWritten(r)
  PROVE  AdminInv'
<1> DEFINE table == request[r].op
           rows == Candidate(db[table], request[r].key, request[r].value)
           stored == [db EXCEPT ![table] = rows]
<1>0. /\ RequestsFormed /\ InHand(r) /\ IsUpdate(r) /\ request[r].at = "writing"
      /\ UNCHANGED <<saved, published, raced, drifted>>
  BY DEF UpdateWritten, UpdateAt, InHand, AdminInv
<1>1. ~UpdateAt(r, "publishing")
  BY <1>0 DEF UpdateAt
<1>2. CASE Appended("rejected") /\ End(r)
  <2>1. Tabled(db') /\ db'.settings = db.settings /\ db'.adapters = db.adapters
    BY <1>2, RecordedKeeps DEF Appended, AdminInv
  <2> QED
    BY <1>0, <1>1, <1>2, <2>1, Leaving DEF End
<1>3. CASE /\ Committed(table, request[r].key, request[r].value)
           /\ IF Is(r, "adapters") THEN Become(r, "publishing") ELSE End(r)
  <2>1. Tabled(stored) /\ stored[table] = rows
        /\ \A other \in {"settings", "adapters"} \ {table} : stored[other] = db[other]
    <3>1. table \in {"settings", "adapters"} /\ Tabled(db)
      BY <1>0, TableNames DEF AdminInv, IsUpdate
    <3>2. Stored(stored, db, table, rows)
      BY <3>1, RowsStored, Zenon
    <3> QED
      BY <3>2 DEF Stored
  <2>2. /\ Tabled(db') /\ db'[table] = rows
        /\ \A other \in {"settings", "adapters"} \ {table} : db'[other] = db[other]
    <3> HIDE DEF stored
    <3>1. /\ Tabled(db')
          /\ db'.settings = stored.settings /\ db'.adapters = stored.adapters
      <4>1. db' = Recorded(stored, "succeeded")
        BY <1>3 DEF Committed, stored
      <4> QED
        BY <2>1, <4>1, RecordedKeeps
    <3> QED
      BY <1>0, <2>1, <3>1, TableNames DEF IsUpdate
  <2>3. \A p \in Requests \ {r} : InHand(p) => request[p].op # table
    BY <1>0 DEF AdminInv, Exclusive
  <2>4. CASE Is(r, "settings")
    <3>1. request' = [request EXCEPT ![r] = Done]
      BY <1>3, <2>4 DEF Is, End
    <3>2. RequestsFormed' /\ request'[r] = Done /\ \A p \in Requests \ {r} : request'[p] = request[p]
      BY <1>0, <3>1, OneMoves, DoneFormed
    <3>3. \A p \in Requests : InHand(p)' => p # r /\ request'[p] = request[p] /\ InHand(p)
      BY <3>2, DoneFormed DEF InHand, IsUpdate
    <3>4. Exclusive'
      BY <3>3 DEF AdminInv, Exclusive
    <3>5. SettingsInv'
      <4>1. \A p \in Requests : ~(Is(p, "settings") /\ InHand(p))'
        BY <2>3, <2>4, <3>3 DEF Is
      <4>2. ~raced => Coherent(rows)
        BY <1>0, <2>4 DEF AdminInv, SettingsInv, Is
      <4> QED
        BY <1>0, <2>2, <2>4, <4>1, <4>2 DEF AdminInv, SettingsInv, Is
    <3>6. AdaptersInv'
      <4>1. db'.adapters = db.adapters
        BY <2>2, <2>4 DEF Is
      <4>2. \A p \in Requests : \A at \in {"writing", "publishing"} :
               Is(p, "adapters")' /\ UpdateAt(p, at)' <=> Is(p, "adapters") /\ UpdateAt(p, at)
        BY <2>4, <3>2, DoneFormed DEF Is, UpdateAt, IsUpdate
      <4>3. \A p \in Requests : Is(p, "adapters") => request'[p] = request[p]
        BY <2>4, <3>2 DEF Is
      <4> QED
        BY <1>0, <4>1, <4>2, <4>3 DEF AdminInv, AdaptersInv
    <3> QED
      BY <1>0, <2>2, <3>2, <3>4, <3>5, <3>6 DEF AdminInv
  <2>5. CASE Is(r, "adapters")
    <3> DEFINE q == [request[r] EXCEPT !.at = "publishing"]
    <3>1. \A w : w = [op |-> w.op, at |-> w.at, key |-> w.key, value |-> w.value,
                      expected |-> w.expected, built |-> w.built]
                 /\ w.op = "adapters" =>
            /\ [w EXCEPT !.at = "publishing"] =
                 [op |-> "adapters", at |-> "publishing", key |-> w.key, value |-> w.value,
                  expected |-> w.expected, built |-> w.built]
      <4> SUFFICES ASSUME NEW w,
                          w = [op |-> w.op, at |-> w.at, key |-> w.key, value |-> w.value,
                               expected |-> w.expected, built |-> w.built],
                          w.op = "adapters"
                   PROVE  [w EXCEPT !.at = "publishing"] =
                            [op |-> "adapters", at |-> "publishing", key |-> w.key,
                             value |-> w.value, expected |-> w.expected, built |-> w.built]
        OBVIOUS
      <4> DEFINE u == [w EXCEPT !.at = "publishing"]
      <4>1. DOMAIN w = {"op", "at", "key", "value", "expected", "built"}
        OBVIOUS
      <4>2. /\ u = [f \in {"op", "at", "key", "value", "expected", "built"} |-> u[f]]
            /\ u.op = "adapters" /\ u.at = "publishing" /\ u.key = w.key /\ u.value = w.value
            /\ u.expected = w.expected /\ u.built = w.built
        BY <4>1
      <4> HIDE DEF u
      <4>3. u = [op |-> "adapters", at |-> "publishing", key |-> w.key,
                 value |-> w.value, expected |-> w.expected, built |-> w.built]
        BY <4>2
      <4> QED
        BY <4>3 DEF u
    <3>2. request[r] = [op |-> request[r].op, at |-> request[r].at, key |-> request[r].key,
                        value |-> request[r].value, expected |-> request[r].expected,
                        built |-> request[r].built]
      BY <1>0, HandFormed
    <3>3. q = [op |-> "adapters", at |-> "publishing", key |-> request[r].key,
               value |-> request[r].value, expected |-> request[r].expected,
               built |-> request[r].built]
      BY <2>5, <3>1, <3>2, Zenon DEF Is
    <3>4. Formed(q) /\ q.op = "adapters" /\ q.at = "publishing" /\ q.built = request[r].built
      BY <3>3 DEF Formed
    <3>5. request' = [request EXCEPT ![r] = q]
      BY <1>0, <1>3, <2>5 DEF Become, RequestsFormed
    <3> HIDE DEF q
    <3>6. RequestsFormed' /\ request'[r] = q /\ \A p \in Requests \ {r} : request'[p] = request[p]
      BY <1>0, <3>4, <3>5, OneMoves
    <3>7. \A p \in Requests : (InHand(p)' <=> InHand(p)) /\ request'[p].op = request[p].op
      BY <1>0, <2>5, <3>4, <3>6, TableNames DEF InHand, IsUpdate, Is
    <3>8. Exclusive'
      BY <3>7 DEF AdminInv, Exclusive
    <3>9. SettingsInv'
      <4>1. db'.settings = db.settings
        BY <2>2, <2>5 DEF Is
      <4>2. \A p \in Requests : Is(p, "settings")' => p # r /\ Is(p, "settings") /\ request'[p] = request[p]
        BY <3>4, <3>6 DEF Is
      <4> QED
        BY <1>0, <3>7, <4>1, <4>2 DEF AdminInv, SettingsInv
    <3>10. AdaptersInv'
      <4>1. \A p \in Requests : p # r => ~(Is(p, "adapters")' /\ InHand(p)')
        BY <2>3, <2>5, <3>7 DEF Is
      <4>2. UpdateAt(r, "publishing")' /\ Is(r, "adapters")' /\ request'[r].built = request[r].built
            /\ ~UpdateAt(r, "writing")'
        BY <3>4, <3>6, TableNames DEF UpdateAt, IsUpdate, Is
      <4>3. \A p \in Requests : \A at \in {"writing", "publishing"} : UpdateAt(p, at)' => InHand(p)'
        BY DEF UpdateAt, InHand
      <4>4. ~drifted => request[r].built = Snapshot(db'.adapters)
        BY <1>0, <2>2, <2>5 DEF AdminInv, AdaptersInv, Is, UpdateAt
      <4> QED
        BY <1>0, <4>1, <4>2, <4>3, <4>4 DEF AdaptersInv
    <3> QED
      BY <1>0, <2>2, <3>6, <3>8, <3>9, <3>10 DEF AdminInv
  <2> QED
    BY <1>0, <2>4, <2>5, HandFormed DEF AdminInv
<1> QED
  BY <1>0, <1>2, <1>3 DEF UpdateWritten

\* A publication is of the rows as they are: they cannot change in between.
LEMMA Publishing ==
  ASSUME AdminInv, NEW r \in Requests, Published(r)
  PROVE  AdminInv'
<1>1. /\ request' = [request EXCEPT ![r] = Done] /\ RequestsFormed /\ InHand(r)
      /\ UNCHANGED <<db, saved, raced>> /\ UpdateAt(r, "publishing") /\ IsUpdate(r)
      /\ published' = request[r].built /\ (drifted' <=> drifted /\ published' # Snapshot(db.adapters))
  BY DEF Published, AdminInv, End, UpdateAt, InHand
<1>2. RequestsFormed' /\ request'[r] = Done /\ \A p \in Requests \ {r} : request'[p] = request[p]
  BY <1>1, OneMoves, DoneFormed
<1>3. Is(r, "adapters")
  BY <1>1, HandFormed DEF UpdateAt
<1>4. \A p \in Requests : InHand(p)' => /\ p # r /\ request'[p] = request[p] /\ InHand(p)
                                        /\ request[p].op # "adapters"
  BY <1>1, <1>2, <1>3, DoneFormed DEF InHand, IsUpdate, AdminInv, Exclusive, Is
<1>5. Exclusive'
  BY <1>4 DEF AdminInv, Exclusive
<1>6. SettingsInv'
  BY <1>1, <1>4 DEF AdminInv, SettingsInv, Is
<1>7. AdaptersInv'
  <2>1. \A p \in Requests : \A at \in {"writing", "publishing"} : ~(Is(p, "adapters") /\ UpdateAt(p, at))'
    BY <1>4 DEF Is, UpdateAt, InHand
  <2>2. ~drifted' => published' = Snapshot(db.adapters)
    BY <1>1, <1>3 DEF AdminInv, AdaptersInv
  <2> QED
    BY <1>1, <2>1, <2>2 DEF AdaptersInv
<1> QED
  BY <1>1, <1>2, <1>5, <1>6, <1>7 DEF AdminInv

\* A restore parts the tables from what is in hand and published, and says so.
LEMMA Restoration ==
  ASSUME AdminInv, NEW r \in Requests, Restored(r)
  PROVE  AdminInv'
<1>1. /\ request' = [request EXCEPT ![r] = Done] /\ RequestsFormed /\ ~InHand(r)
      /\ db' = saved /\ saved' = saved /\ drifted'
      /\ (raced' <=> raced \/ \E q \in Requests : Is(q, "settings") /\ request[q].at = "writing")
  BY TableNames DEF Restored, AdminInv, End, InHand, IsUpdate, Is
<1>2. RequestsFormed' /\ request'[r] = Done /\ \A p \in Requests \ {r} : request'[p] = request[p]
  BY <1>1, OneMoves, DoneFormed
<1>3. \A p \in Requests : InHand(p)' => p # r /\ request'[p] = request[p] /\ InHand(p)
  BY <1>2, DoneFormed DEF InHand, IsUpdate
<1>4. Exclusive'
  BY <1>3 DEF AdminInv, Exclusive
<1>5. SettingsInv'
  <2>1. \A p \in Requests : (Is(p, "settings") /\ InHand(p))' => Is(p, "settings") /\ request[p].at = "writing"
    BY <1>1, <1>3, HandFormed DEF Is, InHand
  <2> QED
    BY <1>1, <2>1 DEF AdminInv, SettingsInv
<1> QED
  BY <1>1, <1>2, <1>4, <1>5 DEF AdminInv, AdaptersInv

\* The next start loads what the tables hold (AdminService::load).
LEMMA Restarting ==
  ASSUME AdminInv, Restarted
  PROVE  AdminInv'
<1>1. /\ request' = [r \in Requests |-> Done] /\ UNCHANGED <<db, saved, raced>>
      /\ published' = Snapshot(db.adapters)
  BY DEF Restarted, Load
<1>2. \A r \in Requests : request'[r] = Done /\ ~InHand(r)'
  BY <1>1, DoneFormed DEF InHand, IsUpdate
<1>3. RequestsFormed'
  BY <1>1, <1>2, DoneFormed DEF RequestsFormed
<1>4. \A r \in Requests, at \in {"writing", "publishing"} : ~UpdateAt(r, at)'
  BY <1>2 DEF UpdateAt, InHand
<1>5. Exclusive' /\ SettingsInv' /\ AdaptersInv'
  BY <1>1, <1>2, <1>4 DEF AdminInv, Exclusive, SettingsInv, AdaptersInv
<1> QED
  BY <1>1, <1>3, <1>5 DEF AdminInv

\* Every step keeps the invariant.
LEMMA AdminStep == AdminInv /\ [Next]_vars => AdminInv'
<1> SUFFICES ASSUME AdminInv, [Next]_vars PROVE AdminInv'
  OBVIOUS
<1>1. ASSUME UNCHANGED request, UNCHANGED <<adminVars, raced, drifted>> PROVE AdminInv'
  <2>1. Untouched
    BY <1>1 DEF Untouched, AdminInv, RequestsFormed, InHand, IsUpdate
  <2> QED
    BY <2>1, UntouchedKeeps
<1>2. ASSUME NEW r \in Requests, Handler(r) PROVE AdminInv'
  <2>1. CASE \/ LoginBegun(r) \/ TokenConsumed(r) \/ ReauthenticationBegun(r) \/ RateChecked(r)
             \/ PasswordRefused(r) \/ PasswordAccepted(r) \/ LogoutBegun(r) \/ LoggedOut(r)
             \/ UpdateBegun(r) \/ RestoreBegun(r)
    BY <2>1, HandlersElsewhere, UntouchedKeeps
  <2>2. CASE UpdateFailed(r)
    <3>1. /\ Tabled(db') /\ db'.settings = db.settings /\ db'.adapters = db.adapters
          /\ ~UpdateAt(r, "publishing")
      BY <2>2, RecordedKeeps DEF UpdateFailed, Appended, AdminInv, UpdateAt
    <3> QED
      BY <2>2, <3>1, Leaving DEF UpdateFailed, End
  <2>3. CASE Dropped(r)
    BY <2>3, Leaving DEF Dropped, End, adminVars, AdminInv
  <2> QED
    BY <1>2, <2>1, <2>2, <2>3, Checking, Writing, Publishing, Restoration DEF Handler
<1>3. CASE BackupCreated
  <2>1. /\ saved' = db /\ UNCHANGED <<db, published, request, raced, drifted>>
    BY <1>3 DEF BackupCreated
  <2> QED
    BY <2>1 DEF AdminInv, RequestsFormed, Exclusive, SettingsInv, AdaptersInv, Tabled,
                InHand, IsUpdate, Is, UpdateAt
<1>4. CASE SessionAsked \/ ExpiryNoticed \/ Tick
  BY <1>1, <1>4 DEF SessionAsked, ExpiryNoticed, Tick, KeepAdmin
<1>5. CASE UNCHANGED vars
  BY <1>1, <1>5 DEF vars, adminVars
<1> QED
  BY <1>2, <1>3, <1>4, <1>5, Restarting DEF Next

\* The locks and the candidates they protect stay in step: AdminInv is an
\* invariant of the handlers, restores and restarts.
THEOREM AdminSoundness == Spec => []AdminInv
  BY AdminStart, AdminStep, PTL DEF Spec

\* However updates of related settings interleave, the stored pair is one that
\* was checked together (update_runtime_setting).
THEOREM SettingsAlwaysCoherent == Spec => []SettingsCoherent
<1>1. AdminInv => SettingsCoherent
  BY DEF AdminInv, SettingsInv, SettingsCoherent
<1> QED
  BY <1>1, AdminSoundness, PTL

\* With no adapter update in hand the scheduler evaluates with the adapters the
\* table holds (update_adapter, PublishedAdapters).
THEOREM PublishedAlwaysConfigured == Spec => []PublishedIsConfigured
<1>1. AdminInv => PublishedIsConfigured
  BY TableNames DEF AdminInv, AdaptersInv, PublishedIsConfigured, UpdateAt, IsUpdate, Is
<1> QED
  BY <1>1, AdminSoundness, PTL

-----------------------------------------------------------------------------
(* Tokens and sessions. *)

\* What a step may do to the ids: it draws at most the next one, and whatever
\* leaves has ended.
IdStep ==
  /\ issued' \in {issued, issued + 1}
  /\ Ids' \subseteq Ids \cup (issued + 1 .. issued')
  /\ History

\* Removing entries adds none (Restrict).
LEMMA Narrows ==
  ASSUME NEW entries, NEW now, NEW i
  PROVE  /\ DOMAIN Unexpired(entries, now) \subseteq DOMAIN entries
         /\ DOMAIN Without(entries, i) \subseteq DOMAIN entries
  BY DEF Unexpired, Without, Restrict

\* Making room adds no entry (evict_one_at_capacity).
LEMMA EvictionNarrows ==
  ASSUME NEW entries, NEW capacity, NEW kept \in Evicted(entries, capacity)
  PROVE  DOMAIN kept \subseteq DOMAIN entries
  BY Narrows DEF Evicted

\* An insertion adds its own id only.
LEMMA Inserts ==
  ASSUME NEW entries, NEW i, NEW v
  PROVE  DOMAIN With(entries, i, v) = DOMAIN entries \cup {i}
  BY DEF With

\* Whoever draws an id puts it into one of the maps.
LEMMA Drawing ==
  ASSUME TokensInv,
         \/ (\E now : Issue(now)) /\ DOMAIN sessions' \subseteq DOMAIN sessions
         \/ (\E now : Open(now)) /\ tokens' = tokens
  PROVE  issued' = issued + 1 /\ Ids' \subseteq Ids \cup (issued + 1 .. issued')
<1>0. issued \in Nat
  BY DEF TokensInv
<1>1. CASE (\E now : Issue(now)) /\ DOMAIN sessions' \subseteq DOMAIN sessions
  <2>1. PICK now : Issue(now)
    BY <1>1
  <2>2. PICK kept \in Evicted(Unexpired(tokens, now), MaxTokens) :
          tokens' = With(kept, issued + 1, [expires |-> now + TokenTTL])
    BY <2>1 DEF Issue
  <2>3. DOMAIN tokens' \subseteq DOMAIN tokens \cup {issued + 1}
    <3>1. DOMAIN Unexpired(tokens, now) \subseteq DOMAIN tokens
      BY Narrows
    <3>2. DOMAIN kept \subseteq DOMAIN Unexpired(tokens, now)
      BY EvictionNarrows
    <3>3. DOMAIN tokens' = DOMAIN kept \cup {issued + 1}
      BY <2>2, Inserts
    <3> QED
      BY <3>1, <3>2, <3>3
  <2> QED
    BY <1>0, <1>1, <2>1, <2>3 DEF Issue, Ids
<1>2. CASE (\E now : Open(now)) /\ tokens' = tokens
  <2>1. PICK now : Open(now)
    BY <1>2
  <2>2. PICK kept \in Evicted(Unexpired(sessions, now), MaxSessions) :
          sessions' = With(kept, issued + 1, [expires |-> now + SessionTTL, proved |-> now])
    BY <2>1 DEF Open
  <2>3. DOMAIN sessions' \subseteq DOMAIN sessions \cup {issued + 1}
    <3>1. DOMAIN Unexpired(sessions, now) \subseteq DOMAIN sessions
      BY Narrows
    <3>2. DOMAIN kept \subseteq DOMAIN Unexpired(sessions, now)
      BY EvictionNarrows
    <3>3. DOMAIN sessions' = DOMAIN kept \cup {issued + 1}
      BY <2>2, Inserts
    <3> QED
      BY <3>1, <3>2, <3>3
  <2> QED
    BY <1>0, <1>2, <2>1, <2>3 DEF Open, Ids
<1> QED
  BY <1>1, <1>2

\* Every step is such a step.
LEMMA IdSteps == TokensInv /\ [Next]_vars => IdStep
<1> SUFFICES ASSUME TokensInv, [Next]_vars PROVE IdStep
  OBVIOUS
<1>0. issued \in Nat
  BY DEF TokensInv
<1>1. ASSUME UNCHANGED <<tokens, sessions, issued, ended>> PROVE IdStep
  <2>1. History /\ Ids' = Ids
    BY <1>1 DEF History, Ids
  <2> QED
    BY <1>1, <2>1 DEF IdStep
<1>2. ASSUME issued' = issued, Ids' \subseteq Ids, History PROVE IdStep
  BY <1>2 DEF IdStep
<1>3. ASSUME NEW s, NEW now, Noticed(s, now) PROVE DOMAIN sessions' \subseteq DOMAIN sessions
  BY <1>3, Narrows DEF Noticed
<1>4. ASSUME NEW r \in Requests, Handler(r) PROVE IdStep
  <2>1. CASE TokenConsumed(r)
    <3>1. DOMAIN tokens' \subseteq DOMAIN tokens
      BY <2>1, Narrows DEF TokenConsumed, Consume
    <3> QED
      BY <1>2, <2>1, <3>1 DEF TokenConsumed, Ids
  <2>2. CASE PasswordAccepted(r)
    <3>1. CASE Open(request[r].now)
      <4>1. issued' = issued + 1 /\ Ids' \subseteq Ids \cup (issued + 1 .. issued')
        BY <2>2, <3>1, Drawing DEF PasswordAccepted
      <4> QED
        BY <2>2, <4>1 DEF PasswordAccepted, IdStep
    <3>2. CASE Prove(request[r].cred, request[r].now) /\ UNCHANGED issued
      <4>1. DOMAIN sessions' = DOMAIN sessions
        BY <3>2 DEF Prove
      <4> QED
        BY <1>2, <2>2, <3>2, <4>1 DEF PasswordAccepted, Ids
    <3> QED
      BY <2>2, <3>1, <3>2 DEF PasswordAccepted
  <2>3. CASE LoggedOut(r)
    <3>1. DOMAIN sessions' \subseteq DOMAIN sessions
      BY <2>3, Narrows DEF LoggedOut, Logout
    <3> QED
      BY <1>2, <2>3, <3>1 DEF LoggedOut, Ids
  <2> QED
    BY <1>1, <1>4, <2>1, <2>2, <2>3
    DEF Handler, LoginBegun, ReauthenticationBegun, RateChecked, PasswordRefused, LogoutBegun,
        UpdateBegun, UpdateChecked, UpdateWritten, UpdateFailed, Published, RestoreBegun,
        Restored, Dropped, KeepSessions, sessionVars
<1>5. CASE SessionAsked
  <2>1. PICK s \in Cookies : Noticed(s, clock) /\ Issue(clock) /\ History
    BY <1>5 DEF SessionAsked
  <2>2. issued' = issued + 1 /\ Ids' \subseteq Ids \cup (issued + 1 .. issued')
    BY <1>3, <2>1, Drawing
  <2> QED
    BY <2>1, <2>2 DEF IdStep
<1>6. CASE ExpiryNoticed
  BY <1>2, <1>3, <1>6 DEF ExpiryNoticed, Ids
<1>7. CASE Restarted
  BY <1>2, <1>7 DEF Restarted, Forget, NoEntry, Ids
<1>8. CASE BackupCreated \/ Tick \/ UNCHANGED vars
  BY <1>1, <1>8 DEF BackupCreated, Tick, KeepSessions, sessionVars, vars
<1> QED
  BY <1>4, <1>5, <1>6, <1>7, <1>8 DEF Next

\* Ids are drawn once, and the ended ones never come back: the invariant of the
\* session manager, over any number of logins, evictions and restarts.
THEOREM TokensSound == Spec => []TokensInv
<1>1. Init => TokensInv
  BY DEF Init, SessionInit, TokensInv, Ids, NoEntry
<1>2. TokensInv /\ IdStep => TokensInv'
  <2> SUFFICES ASSUME TokensInv, IdStep PROVE TokensInv'
    OBVIOUS
  <2>1. issued' \in Nat /\ issued <= issued'
    BY DEF TokensInv, IdStep
  <2>2. Ids' \subseteq 1 .. issued'
    BY <2>1 DEF TokensInv, IdStep
  <2>3. ended' = ended \cup (Ids \ Ids')
    BY DEF IdStep, History, Ids
  <2>4. ended' \subseteq 1 .. issued'
    <3>1. issued \in Nat /\ ended \subseteq 1 .. issued /\ Ids \subseteq 1 .. issued
      BY DEF TokensInv
    <3>2. 1 .. issued \subseteq 1 .. issued'
      BY <2>1, <3>1
    <3> QED
      BY <2>3, <3>1, <3>2
  <2>5. Ids' \cap ended' = {}
    BY <2>1, <2>3 DEF TokensInv, IdStep
  <2> QED
    BY <2>1, <2>2, <2>4, <2>5 DEF TokensInv
<1> QED
  BY <1>1, <1>2, IdSteps, PTL DEF Spec

\* A consumed token and an ended session never work again, not even through a
\* request that had already passed its checks (consume_pre_session, logout,
\* reauthenticate).
THEOREM EndedAlwaysEnded == Spec => []EndedStaysEnded
<1>1. TokensInv => EndedStaysEnded
  BY DEF TokensInv, Ids, EndedStaysEnded
<1> QED
  BY <1>1, TokensSound, PTL
=============================================================================
