# A verification of Remindi

Remindi keeps durable reminders ("Remindi items") for AI agents: an agent adds an
item with a trigger, checks for ready items at points of its work, and completes
an item only with evidence.  One Rust process serves MCP and a web UI over one
SQLite database, and a background scheduler in the same process evaluates the
items nobody asks about.

This directory holds TLA+ models of that program, TLC instances that check them,
and TLAPS proofs about them.  Paths like `service.rs` are under `src/src/`.

## Inventory

| Component | State | Operations | What is hard |
|---|---|---|---|
| Item rules: `remindi/state_machine.rs`, `triggers/evaluator.rs`, `remindi/recurrence.rs`, `remindi/model.rs` | the fields of one row | snooze, complete, cancel, replace_trigger; evaluate; advance | many optional columns that must change together; boundaries of the schedule arithmetic |
| Service: `remindi/service.rs`, `remindi/repository.rs` | tables `remindi`, `remindi_links`, `completion_evidence`, `remindi_events`, `idempotency_records` | add, complete, snooze, cancel, update (mutations); check; list, get, history (reads) | rows evaluated outside a transaction and stored later; retries; optimistic versions |
| Scheduler loop: `scheduler/runner.rs` | the poll in progress | poll_once, run, run_acquired, start, stop, restart | adapters run for seconds between read and write; failures and cancellation in the middle; bounded batches |
| Lease: `scheduler/lease.rs` | table `scheduler_leases`, the guard in memory | acquire, renew, release | two processes, expiry against a clock, a crash with the lease held |
| Workloads: `admin/workloads.rs` | desired states in the database, observed states in memory, a transition lock | start, stop, restart, shutdown, maintenance | partial failure of an "all" transition, compensation, maintenance against transitions |
| Backups: `admin/backup.rs`, `db/manager.rs` | backup catalogue, archive files, restore journal, database file | create, upload, verify, download, retention, restore, recover_interrupted | a crash at every step, two rollbacks, retention against the candidate, acknowledged writes |
| Administration: `admin/mod.rs`, `settings.rs`, `adapters.rs`, `audit.rs` | runtime settings, adapter configurations and their versions, published adapter set | load, update_runtime_setting, update_adapter | two copies of one truth; relations across settings |
| Web sessions: `auth/web_session.rs`, `csrf.rs` | pre-session tokens, sessions, attempts, all in memory | issue, login, authenticate, reauthenticate, logout | single use, expiry, capacity and rate limits |
| MCP authentication: `auth/mcp.rs` | none | authenticate | - |
| Condition adapters: `triggers/adapters/` | none | evaluate | network and file probes with timeouts |
| Surfaces: `mcp/`, `http/`, `webui/` | none | parse, call, format | - |
| Start and stop: `main.rs`, `config.rs`, `app.rs`, `db/migrations.rs` | none of their own | open, recover, migrate, serve, drain | order of recovery, opening and the lease |

How they meet.  The MCP tools and the HTTP API call the same service.  Each
mutation is one `BEGIN IMMEDIATE` transaction; the clock is read before the write
lock is obtained.  A check reads its candidates on one connection, evaluates
copies of them, and only if something changed opens a transaction that stores the
transitions of one page.  A poll reads a batch, asks the adapters, and stores
each result in a transaction of its own.  What keeps these from overwriting each
other is the version column: every stored evaluation is conditional on the
version it was computed from (`persist_evaluated`, `update_cas`).  The workload
controller starts and stops the scheduler and refuses MCP and mutations while a
restore holds maintenance.

What makes each component correct:

* items: deadlines, snooze columns, recurrence and state agree; terminal is final;
* service: one effect per idempotency key, an answer for every retry, evidence
  exactly for completed items, a gapless history, no evaluation stored over a
  row it did not read, nothing announced early or twice;
* scheduler: every passed deadline is eventually acted on, whatever fails on the way;
* lease: at most one holder that believes in its lease before it expires;
* workloads: the observed state follows the desired one or reports failure;
* restore: a crash leaves what the next start needs to install the old database or
  the restored one; a restore that reports success has happened; nobody is served
  from a mixture of both (which the code does not achieve, see `restore_partial`);
* administration: the effective settings and adapters are the persisted ones;
* sessions: a login token works once, an expired session never.

## Modules

| Module | Models |
|---|---|
| `RemindiItem` | one row and the pure rules: transitions, evaluation, recurrence arithmetic |
| `RemindiService` | the five tables, the clock, client mutations, checks and polls in flight |
| `RemindiLifecycle` | the abstract promise: the lifecycle of items, one version per step, evidence with completion, occurrences that only grow |
| `RemindiProperties` | the properties, and the refinement mapping to `RemindiLifecycle` |
| `MCRemindi` | the requests and contexts of the TLC instances |
| `RemindiItemProofs`, `RemindiProofs` | the theorems about the rows of the service and their proofs |
| `HistoryProofs` | EXTENDS `RemindiProofs`: the theorems about its audit trail, its requests and its times |
| `SchedulerWorkload` | the lease row, and the scheduler task of every process: start, stop, the loop and its early ends |
| `SchedulerRuntime` | the abstract promise of one process's scheduler task: calls, flag, handle, loops; `SchedulerWorkload` implements it |
| `WorkloadController` | EXTENDS `SchedulerRuntime`: boot, transitions, maintenance and shutdown of the MCP workload and the scheduler |
| `Backups` | the live file with its write-ahead log, the backup directory, the catalogue, creation, retention, reconciliation |
| `Restore` | EXTENDS `Backups`: the guarded restore, its journal and rollbacks, and the start of the program |
| `WebSessions` | one-time tokens, browser sessions, the limit on password checks |
| `Administration` | versioned settings and adapter configurations, the published snapshot, the audit events |
| `WebApi` | EXTENDS `WebSessions` and `Administration`: the concurrent handlers that use both, restores, dropped handlers, restarts |
| `MCScheduler`, `MCRestore`, `MCWorkloads`, `MCWebApi` | the TLC instances |
| `SchedulerProofs` | the theorems about the lease and about the refinement of `SchedulerRuntime`, and their proofs |
| `WorkloadControllerProofs` | the theorems about the workload controller and their proofs |
| `RestoreProofs` | the theorems about backups, retention, restore and recovery and their proofs |
| `WebApiProofs` | the theorems about settings, adapters and ended sessions and their proofs |
| `WebApiStateProofs` | EXTENDS `WebApiProofs`: the theorems about the state of the web handlers, the rate limit and the audit events |

### State and actions against the code

`items[id]` is the row, `None` before it exists.  Instants are naturals.  The
text fields, priority, the bookkeeping instants and `original_next_fire_at` (every
assignment copies `next_fire_at`) are left out: no rule reads them.  A trigger is
a flat record; links keep only their goals.  `events[id]` keeps the type, both
versions and the request of each event.  `idempotency` maps (actor, tool, key) to
the stored call and its answer; the code stores a hash of the call, which the
model takes to be injective.

`checks[c]` and `polls[s]` are the copies an operation holds between its two
halves: `BeginCheck`/`FinishCheck` are `RemindiService::check` before and after
the evaluation, `BeginPoll` is `Scheduler::poll_once` up to the renewal of the
lease, `ApplyResult` and `FailResult` one turn of its apply loop.  Anything may
happen in between.  `AbandonCheck` and `AbandonPoll` are cancellation, a lost
lease or connection, and a crash: in-memory copies disappear, the tables stay.
A crash needs no other action, because the rest of the state is the database.

A mutation that is refused (validation, replay, not found, version conflict,
invalid state) rolls back and is no action.  Its answer is `Answer(call)`, which
`RetryAnswered` is about.  `Readings` are the clock readings a mutation may hold
when it obtains the write lock.

`SchedulerWorkload` is `SchedulerLease` (`lease.rs`) with `run_acquired`, `start` and
`stop` (`runner.rs`).  A process is one life of the program, because every start of
the program draws a fresh holder id (`main.rs:111`): a crash ends it, and a restart
is another process that meets the row the dead one left.  `stage[p]` is the place
the task has reached, each await of the loop being a boundary; `reading[p]` is the
clock reading that stage will use, which may be old by then; `guard[p]` is the
`LeaseGuard`.  `call[p]` is the answer of the last `start` or `stop`, or the one in
progress.  Database errors are choices open at every read, renewal and release.
In `returning`, `is_running` is already false and `start` still finds a live task.
The clock never runs backwards, which the wall clock of `clock.rs` does not
promise.  Instants are whole units of the stored timestamp;
the guard's extra digits below a millisecond are left out.  The apply loop is one
stage here, because `RemindiService` has its steps; the two modules share no
variable: `RemindiService` lets any number of polls run at once, which is more than
the lease permits.

`SchedulerRuntime` is the same task as its caller sees it, without lease and stages.
The refinement mapping (`Runtime` in `SchedulerWorkload`, for `Anyone`, an arbitrary
process) is a state function of stage, cancellation, failure and call: a task in any
stage of its loop counts as looping, one in `returning` as `ended`, one that can be
joined as `finished`.  A loop that panics is left out, here and in
`SchedulerWorkload`: `stop` would return its join error before it clears the running
flag (`runner.rs:345`).

`WorkloadController.op` is the holder of the transition lock and its place in the
loop over components; each await on the scheduler is one state (`called`), and what
the scheduler answers is a step of `SchedulerRuntime`.  `desired` is the table
`service_runtime`, `status` the map in memory, `mcp` whether `McpWorkload` serves.
`Dropped` is what the HTTP server does to a handler whose client has gone: the
future, with its lock guard, is dropped where it waits.  `MaintenanceQuiet`,
`SettledTrue` and `StoppedMeansStopped` are stated up to the first such drop: after
it they do not hold (see the hazard at `runner.rs:339`).

`Backups` abstracts a database to the client writes it holds, its catalogue rows,
its retention setting and its soundness: whether verification accepts it, and
whether the migrations do, which look at other things.  `live.wal` is the
write-ahead log, as a reader of the file sees it; `live.foreign` says that the log
was written for a file since replaced (`install_database` does not remove it), or
has since been folded into the present one.  What the replay of such a log gives is
chosen at the rename (`Mixed`): the database the log was written for, damage that
verification sees, damage that only the migrations see, or a mixture that nothing
sees, with any of the writes, and each catalogue row and the setting, of either
database.  An open that fails may leave it folded in.  `making` is the creation that
holds the mutation lock, one step per file or database operation.  A reconciliation
takes no such lock: it discards a temporary file, verifies a pair (`found`, the
await of `backup.rs:368`) or inserts its row, one at a time and between the steps of
a creation, may pass over any entry, and may fail after any of these.  In `Restore`, `restoring.at` names the awaits of
`RestoreManager::restore` in their order; `journal` is the file as
`recover_interrupted` reads it, which tells apart only early, replacing and
succeeded phases.  A write of the journal that fails may or may not have renamed
its file.  `acked` is a history of the acknowledged writes; only a restore that goes
forward takes away from it what its candidate lacks, a rollback does not.  `process` runs through recovery, opening and reconciliation of `main.rs`.
Workloads are `WorkloadController`'s subject: here quiescing and restarting succeed
or fail.

`WebApi.request[r]` is a handler between two of its locks or awaits.  A login reads
the clock once and uses the reading at three locks; `MaxLag` bounds how old it gets.
The password is right or wrong by choice.  The settings are the two that
`validate_candidate` relates; the adapters any two, whose configuration builds or
does not.  `db` is what a restore replaces as a whole, `saved` the backup it
installs; `raced` and `drifted` are histories of the two events that excuse
`SettingsCoherent` and `PublishedIsConfigured`, and nothing else reads them.

## Runs

| Run | Configuration | Shows |
|---|---|---|
| `integrity` | 1 item, 2 keys, 1 check and 1 poll in flight, recurring and condition items edited into goal and condition ones, versions to 4, time to 2 | type, row consistency, evidence, goal link, history, idempotency, terminal rows, refinement of the lifecycle |
| `schedule` | 1 item of each trigger kind and each missed-occurrence policy, dispositions and edits that name the trigger again, time to 3 | readiness once and never early, anchors move only by an audited update, and without a new trigger by whole intervals at a disposition, missed occurrences passed over |
| `progress` | 2 items competing for a batch of 1, failing and abandoned polls, fair scheduler | every passed deadline is acted on |
| `manual_readiness` | a condition item with a manual check time | the code does not retain `manual_verification` (violation expected) |
| `lease` | 2 processes, lease 3, interval 1, apply loops up to 2, time to 6 | one believer, one applier, live rows untouched, clean stops leave no row |
| `lease_stop` | as `lease`, time to 3, fair loops | every stop is answered; each process's task implements `SchedulerRuntime`, fairness included |
| `lease_renewal` | 1 undisturbed process, lease three intervals, adapters up to one interval | the lease is not renewed before half of it elapses (violation expected) |
| `restore` | 3 backups, 1 client write, retention of 1 or 2, 1 kill or shutdown, failures anywhere | a journal that asks for a backup has it, the live file opens or is about to be replaced unless a foreign log was mixed in, nothing is lost outside the journal's reach, answers are true, catalogue and retention respect the files |
| `restore_acknowledged` | 2 backups, retention of 1 | a write acknowledged after the pre-restore copy is lost by the recovery of an interrupted restore (violation expected) |
| `restore_partial` | 2 backups, retention of 1 | that recovery serves a database into which the log of another was replayed (violation expected) |
| `workloads` | any persisted intent, 2 loops alive at once, 2 restarts per restore | maintenance is quiet, status truthful, stopped means stopped, a restore's intent in force, every operation ends |
| `web_api` | 2 handlers at once, 4 requests or restarts, time to 4, capacities of 1 or 2 | rate limit, ended sessions, coherent settings, published adapters, audit |

Bounds.  `MaxTime` stops the clock, `MaxVersion` stops clients and unsatisfied
polls at a version, `MaxLag` bounds the age of a clock reading, `BatchSize` and
`PageLimit` are the program's own limits.  One item is enough for the integrity
properties because no operation reads another item's row (idempotency keys are
shared, which two keys on one item exercise); two items are used where they
compete, for the batch.  Four versions are a creation and three changes, so that
an evaluation can be stale across a transition and its undoing; three ticks let
an occurrence be missed, snoozed past its grace period, and advanced over more
than one interval.  Three backups are a candidate, one that
retention may evict, and the pre-restore copy; one kill is enough because every
start that fails repeats the same recovery, which `StartFailed` allows without
bound.  Requests, creations and changes of the retention setting are begun before the
last kill (`BeforeLastKill`): a kill is interesting for what was begun before it, and
after it failures are still open everywhere.  A manual backup is the first one if it is
made at all, and the setting is only lowered, while that first backup is the only
one: the copies and catalogues inside later backups then already differ in it.  The
proofs use none of these bounds.  Two loops at once are what a dropped stop followed by a start gives.  Two
handlers suffice for a race over one lock, four requests for a backup, an update, a
restore and one more.  For the lease, twice its duration covers a takeover, a second
takeover, and a row whose version starts again at 1 while an old guard survives;
two lives are enough because a third can only do to the second what the second
does to the first, and `SchedulerProofs` covers any number.  `MaxApply` bounds the
time from the second renewal to the last applied result; the program has no such
bound, and without one two polls could apply at once (the version comparison in
`RemindiService` still holds then).  `progress` and `web_api` turn deadlock checking off, because their clocks and
requests are bounded; `workloads` and `restore`, because the program may end for good.  Every property of a passing run is also run against a plausible bug in a mapped definition (the operators marked
"Mutant" in the modules) and found violated.

Where the code leaves the documents.  `manual_readiness`, `lease_renewal`,
`restore_acknowledged` and `restore_partial` show each a statement of the documents
that the code does not keep, quoted in `PROJECT.json`.  `MainWhole` and `AnswerIsTrue`
hold only with an exemption for a database that carries the log of another file: a
checkpoint that failed, or a kill, leaves that log, and nothing removes it before the
rename.  `restore_partial` shows what the exemption hides.  After a mixture that verification passes and the migrations
refuse, the journal is gone and every start fails.  One more divergence has no run:
`docs/SPEC.md:775` has a snoozed item wake to `due`, and `evaluate_snooze`
(`evaluator.rs:173`) wakes it to `overdue` when its grace period ended meanwhile.

Fairness.  In `workloads` the runtime drives the controller's code and the calls
it waits for, and a cancelled loop unwinds; a loop that is not cancelled, a client
and an administrator need never move.  In `lease_stop` the runtime drives each loop and completes a called
stop; adapters return when cancelled (`triggers/adapters/mod.rs:263`).  Nothing is
assumed about the clock or the database.  In `progress` the clock advances; the
scheduler polls at every interval while candidates exist (`runner.rs:162-191`); a candidate that keeps
being selected is eventually applied, because failures and cancellations are
exceptional and every poll starts afresh from the same query.  Nothing is assumed
about clients.

## Proofs

`RemindiItemProofs` proves what the pure rules preserve; its main result is
`EvaluateOK`: evaluating any well-formed active row gives a well-formed active
row, along the lifecycle's edges, with the version raised when the state changes.

`RemindiProofs` proves, for every value of the constants that satisfies the named
assumptions of the modules:

* `Soundness`: the inductive invariant `IInv` always holds.  `RowsConsistent`,
  `EvidenceIffCompleted` and `GoalLinked` are not inductive alone, because a
  check or a poll stores a row computed from a copy.  `IInv` adds that each copy
  is itself a well-formed active row, no newer than the row it was read from, and
  equal to it while the versions agree; so a result that passes the version
  comparison is a result for the current row.
* From it: `TypeCorrect`, `RowsAlwaysConsistent`, `EvidenceAlwaysMatches`,
  `GoalAlwaysLinked`, `RetriesAlwaysAnswered` (with `RecordsSound`, the invariant of
  the idempotency table), `TerminalAlwaysFrozen`.
* `ServiceImplementsLifecycle`: every step of the service is, for every item at
  once, a step of `RemindiLifecycle` or a rest.  The step lemmas all conclude
  `RowStep(id)` (untouched, created or moved), which `RowStepRefines` maps to the
  abstract actions.

`HistoryProofs` proves what the tables say of the past.  `HistoryStep` reduces every
step to three: quiet; one client request, which files an unused key and appends one
event to one row; or stored evaluations, each a result for the row it replaces, at a
reading already past (`TimesSound`: no copy in flight is from the future).  The
evaluator is summed up once, in what an evaluation announces and from which row.

* `AuditTrailUnbroken`: every row keeps a chain of events from creation to its present
  version (`Chained`); a request and an evaluation each append the link that follows.
* `RequestsAtMostOnce`: an event that names a request has that request on file
  (`OnceInv`), so a request that may proceed has left no event anywhere.
* `ReadinessAnnouncedOnce`: an item in an armed state has had a snooze, a disposition
  or an edit since its last announcement, if it had one (`Rearmed`).  Two evaluations
  of one row cannot both announce, because the second meets a raised version.
* `NeverAnnouncedEarly`, `AnchorsDisciplined`, `MissedAlwaysPassed`: properties of one
  step, from `TInv`.  The last needs that the reading a request carries is at most
  `MaxLag` old.

`SchedulerProofs` proves, for any processes, intervals and lease duration:

* `LeaseSoundness`: the inductive invariant.  `OneBeliever` is not inductive: a
  takeover must find the old guard expired, which needs that the row it replaces
  has the guard's expiry (`GuardMatches`), that an unexpired guard still has its
  row (`BelieverOwns`) and that a reading is never ahead of the clock
  (`ReadingPast`).  `StepKinds` reduces the twenty-odd steps to three: the row is
  kept, written by one process, or given up by one process.
* From it: `SchedulerTypeCorrect`, `OneBelieverAlways`, `OneApplyingAlways` (under
  `ApplyAssumption`, a property of the deployment and not of the code),
  `LiveLeaseAlwaysUntouched`, and `CleanStopAlwaysReleases`, which also needs that a
  loop that returned without error has given its row up (`Released`).
* `WorkloadImplementsRuntime`: to its controller the task of any process is
  `SchedulerRuntime`, step by step.  The mapping forgets lease, guard, stage and
  readings, so a failed database call, a lost lease and a stop all become an end of
  the loop; a cancelled loop may end only as the runtime allows, which needs that
  nothing but a stop that is still waiting has cancelled it (`CancelledByStop`).
  This is the safety half of `ImplementsRuntime`; TLC checks its fairness.

`WorkloadControllerProofs` proves, for any number of loops alive at once:

* `WorkloadSoundness`: the inductive invariant.  None of the three invariants is
  inductive alone, because an operation passes through states that violate them.
  `IntentInv` says which violations are allowed: only a component that is still in
  `op.todo` may run against its intent.  `OwnedInv` (every loop has its handle, and
  the flag is true exactly while it polls) and `CalledInv` (an error, and an answered
  stop, leave no handle) give what an answer of the scheduler means; `UndoInv`, that
  a failed quiescence starts again only what is wanted; `QuietInv`, what quiescence
  has stopped stays stopped.  These hold until a call is dropped; `Typed` and
  `NoteInv` (what reconciliation leaves in memory) hold always.
* From it: `WorkloadTypes`, `RestoredIntentHonoured`, `QuietUnderMaintenance`,
  `StatusSettles`, `StoppedStays`.  The only assumption is that the placeholder
  `None` is none of the strings it stands beside (`NoneIsNothing`).

`WebApiProofs` proves, for any handlers, settings, adapters, capacities and lifetimes:

* `AdminSoundness`: of the updates of one table at most one is past its lock
  (`Exclusive`); therefore what it has checked still fits the rows when it writes
  (`SettingsInv`), and what it has built still is the configuration when it
  publishes (`AdaptersInv`).  `TokensSound` is the invariant of the session manager:
  an identifier that was ended is in none of its maps.
* From them: `SettingsAlwaysCoherent`, `PublishedAlwaysConfigured` and
  `EndedAlwaysEnded`.

`WebApiStateProofs` proves the rest of that module, for the same parameters:

* `StateSound`: the inductive invariant.  `FieldsOK` says that what a handler carries
  from one lock to the next is usable there: an identifier already drawn, a reading
  at most `MaxLag` old, an offered value for a key of its table.  So the maps stay
  within their capacity (`MapsOK`) and the tables well formed (`StoreOK`).
* `StateTyped`: the types, from it.
* `ChecksLimited`: a window of admissions is not inductive, because
  `check_rate_limit` keeps only recent attempts.  `RateInv` relates the two: the
  attempts kept are the last of those admitted, each one given up is a window old,
  hence two admissions `MaxAttempts` apart are a window apart, up to the longest wait
  for the lock.
* `ChangesAudited`: succeeded events are as many as the versions reached.  It is kept
  of `saved` too, because a restore makes it the database.

`RestoreProofs` proves every safety property of `Restore`, for any number of backups
and kills and any client writes.  Its invariant `RInv` has one part for each thing
the code takes on trust:

* files (`UnusedOK`, `MakingOK`, `DoomedOK`): an id not yet drawn has no file; the
  creation that holds the mutation lock has behind it what its position says; what
  retention dooms has a newer whole backup that is not doomed.
* catalogues (`CataloguesOK`): every catalogue that is or may become the live one,
  those inside backups included, lists an evictable backup only while it or a newer
  one stands.  Retention reads the live catalogue; a restore may bring back any, and
  the replay of a foreign log may mix two of them row by row.
* the reconciliation (`FoundOK`): the pair it has verified still stands when its row
  goes in, or is a victim of retention that a newer whole backup outlives.  It holds
  because the creation beside it unlinks only what it has doomed, and it doomed with
  that newer backup in hand (`Outlived`); verifying and inserting are two steps here
  as in the code, without the mutation lock.
* the live file (`LiveOK`): while the pool is open it opens; and it opens, or a
  foreign log was mixed into it, unless the journal has the next start replace it.
* journal, process and positions (`JournalOK`, `ProcessOK`, `PositionOK`): for every
  await of `restore` whether the pool is open, the guard is held, the pre-restore
  backup is whole and the journal names it; for every stage of a start what it has
  reinstalled.
* writes (`WritesOK`): which writes the live database holds at every position; for a
  rollback that has reinstalled the backup, unless a foreign log was mixed in
  (`HoldsBack`).

`StepLive` reduces every step to a few effects on the live database.  From these:
`TypesKept`, `RecoverySafe`, `MainStaysWhole`, `LossUnderJournal`, `RowsHaveFiles`,
`NewestSpared` and `AnswersAreTrue`.

Assumptions.  Beyond the types of the constants, the theorems use that `None`
differs from the values it stands beside, that a lease is longer than two poll
intervals (which `validate_candidate` enforces), that a setting of retention
is at least 1 (`settings.rs:43`) and has a largest value, which is the default, that
`MaxLag` is below the rate window, and that there is a process.  `MaxTime`,
`MaxVersion`, `MaxBackups`, `MaxCrashes` and `MaxRequests` are arbitrary: no proof
depends on how large a bound is.

Only model-checked: liveness (`Surfaces`, `StopCompletes`, `OperationsEnd`) and the
fairness half of `ImplementsRuntime`, which need fairness and ENABLED, out of TLAPS's
reach; and the four expected violations, which are counterexamples.  Every invariant
and every action property of the passing runs is a theorem.

## Plan

What is left, in order.

1. `RecurrenceAlgorithm` (`remindi/recurrence.rs`): the loop of `advance` as written,
   against the closed form `RemindiItem` uses; RECURSIVE, so TLC only.
2. `CheckPages` (`service.rs`, cursor of check): items that change between two pages.

## Not modelled

Text fields, priorities, sorting of results and cursors (planned above); list, get
and history, which only read; validation of field formats; the JSON of requests and
answers; the contents of evidence.  How a condition adapter decides: its four
answers are free choices.  MCP authentication, the comparison of CSRF tokens and
origins, HTTP routing, web assets and configuration parsing, which keep no state.
The migrations run once on a database nobody else uses; only their verdict on a
restored database is modelled.  `BackupManager::verify` re-reads a backup and
appends an audit event.  That an accepted change of a scheduler setting never
reaches the running scheduler is listed as a hazard and has no model: nothing else
depends on the value.
