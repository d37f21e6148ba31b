--------------------------- MODULE Administration ---------------------------
(***************************************************************************)
(* AdminService (admin/mod.rs) over its tables: versioned runtime settings *)
(* (admin/settings.rs), versioned adapter configurations and the snapshot  *)
(* the scheduler reads (admin/adapters.rs), and their audit events         *)
(* (admin/audit.rs).                                                       *)
(***************************************************************************)
EXTENDS Integers

CONSTANTS
  Adapters,        \* adapter names; any two of the four
  Polls, Leases,   \* the values tried for the two related settings
  Configurations,  \* the configurations tried for an adapter
  Buildable,       \* those build_adapter accepts
  SeededPoll, SeededLease, SeededAdapter

ASSUME AdminAssumption ==
  /\ Polls \subseteq Int /\ Leases \subseteq Int
  /\ SeededPoll \in Polls /\ SeededPoll >= 1
  /\ SeededLease \in Leases /\ SeededLease > 2 * SeededPoll
  /\ SeededAdapter \in Buildable /\ Buildable \subseteq Configurations

VARIABLES
  db,         \* the database: rows of both tables, configuration audit events by outcome
  saved,      \* the contents of the backup a restore would install
  published   \* PublishedAdapters.active

adminVars == <<db, saved, published>>

\* Two of the eleven settings bear on each other.
Keys == [settings |-> {"poll", "lease"}, adapters |-> Adapters]
Tables == DOMAIN Keys
Outcomes == {"succeeded", "rejected", "failed"}
Offered(table, key) ==
  IF table = "adapters" THEN Configurations ELSE IF key = "poll" THEN Polls ELSE Leases

Rows(table) == [Keys[table] -> [value : UNION {Offered(table, k) : k \in Keys[table]}, version : Nat]]

\* validate_candidate relates two settings.
Coherent(rows) ==
  /\ \A k \in Keys.settings : rows[k].value >= 1
  /\ rows["lease"].value > 2 * rows["poll"].value

\* build_snapshot makes every adapter anew.
Sound(rows) == \A a \in Keys.adapters : rows[a].value \in Buildable
Snapshot(rows) == [a \in Keys.adapters |-> rows[a].value]

\* updated, candidate
Candidate(rows, key, value) ==
  [rows EXCEPT ![key] = [value |-> value, version |-> @.version + 1]]
Valid(table, rows) == IF table = "settings" THEN Coherent(rows) ELSE Sound(rows)

Recorded(d, outcome) == [d EXCEPT !.audit[outcome] = @ + 1]

\* Mutant: the event is left to a transaction of its own.
CommittedUnrecorded(table, key, value) ==
  db' = [db EXCEPT ![table] = Candidate(db[table], key, value)]

\* The transaction of an update: the row and its event commit together.
Committed(table, key, value) ==
  db' = Recorded([db EXCEPT ![table] = Candidate(db[table], key, value)], "succeeded")

\* audit::append, in a transaction of its own.
Appended(outcome) == db' = Recorded(db, outcome)

\* The rows the first migration seeds.
AdminInit ==
  /\ db = [settings |-> [k \in Keys.settings |->
                         [value |-> IF k = "poll" THEN SeededPoll ELSE SeededLease, version |-> 1]],
           adapters |-> [a \in Adapters |-> [value |-> SeededAdapter, version |-> 1]],
           audit |-> [o \in Outcomes |-> 0]]
  /\ saved = db
  /\ published = Snapshot(db.adapters)

\* AdminService::load, at a start of the program.
Loadable == Coherent(db.settings) /\ Sound(db.adapters)
Load ==
  /\ Loadable
  /\ published' = Snapshot(db.adapters)
  /\ UNCHANGED <<db, saved>>

AdminTypeOK ==
  LET Databases == [settings : Rows("settings"), adapters : Rows("adapters"), audit : [Outcomes -> Nat]]
  IN  /\ db \in Databases
      /\ saved \in Databases
      /\ published \in [Keys.adapters -> Buildable]
=============================================================================
