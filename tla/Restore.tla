-------------------------------- MODULE Restore --------------------------------
(***************************************************************************)
(* RestoreManager (admin/backup.rs): a guarded restore, its journal, its   *)
(* rollback, and what the next start of the program makes of a journal it  *)
(* finds (main.rs).  Clients write to the live database whenever it is     *)
(* connected; an administrator makes backups at the same time; the program *)
(* may be killed between any two steps.                                    *)
(*                                                                         *)
(* Stopping and restarting the workloads is WorkloadController's subject:  *)
(* here each is one step that succeeds or fails.                           *)
(***************************************************************************)
EXTENDS Backups

CONSTANT
  MaxCrashes    \* bound on kills and shutdowns

VARIABLES
  process,    \* "down", the stages of the start, "up"
  journal,    \* restore-journal.json
  restoring,  \* where the restore is, its candidate and its pre-restore backup
  acked,      \* history: acknowledged writes no restore has deliberately replaced
  crashes     \* kills and shutdowns so far

history == <<acked, crashes>>
vars == <<backupVars, process, journal, restoring, history>>

BeforeCopy == {"requested", "candidate_verified"}
AfterCopy == {"pre_restore_backup_verified", "workloads_quiesced", "live_replaced",
  "replacement_verified", "workloads_restarted", "rollback_started",
  "pre_restore_reinstalled", "rollback_verified", "workloads_restarted_or_held", "failed"}
Phases == BeforeCopy \cup AfterCopy \cup {"succeeded"}

\* The journal, by what recover_interrupted tells apart: it never opens the
\* candidate it names.
Kind(p) == IF p \in BeforeCopy THEN "early" ELSE IF p \in AfterCopy THEN "replacing" ELSE p
Journal == [phase : {Kind(p) : p \in Phases}, pre : Ids \cup {None}]

ASSUME RestoreAssumption == MaxCrashes \in Nat /\ None \notin Journal

\* Positions of restore: forward, then rollback.
Forward == {"requested", "backing_up", "backed_up", "quiescing", "entered",
  "closing", "staging", "staged", "installed", "reopening", "reopened", "clearing",
  "reconciling", "restarting", "auditing", "succeeding", "answering"}
Rollback == {"rolling_back", "excluding", "rollback_closing", "rollback_staging",
  "rollback_staged", "reinstalled", "rollback_reopening", "rollback_reopened",
  "rollback_clearing", "rollback_restarting", "failing", "failed", "giving_up"}

\* Where a rollback has put the pre-restore backup back.
Reinstalled == {"reinstalled", "rollback_reopening", "rollback_reopened",
  "rollback_clearing", "rollback_restarting", "failing", "failed", "giving_up"}

Idle == [at |-> "idle", candidate |-> None, pre |-> None]

Doing(a) == restoring.at = a
Goto(a) == restoring' = [restoring EXCEPT !.at = a]

\* restore returns; the guards it holds are dropped.
Answers ==
  /\ restoring' = Idle
  /\ exclusive' = FALSE

\* Mutant: the journal keeps the phase of the request.
PhaseKept(p) == journal' = [phase |-> Kind("requested"), pre |-> restoring.pre]
Phase(p) == journal' = [phase |-> Kind(p), pre |-> restoring.pre]

-----------------------------------------------------------------------------
(* Writing the journal: a temporary file, a rename, a sync of the directory. *)
(* When one of them fails, the rename may have happened or not.              *)

JournalOnly == UNCHANGED <<backupVars, process, history>>

Strict(a, p, next) == Doing(a) /\ Phase(p) /\ Goto(next) /\ JournalOnly
Failing(a, p, next) == Doing(a) /\ (Phase(p) \/ UNCHANGED journal) /\ Goto(next) /\ JournalOnly
Lenient(a, p, next) == Strict(a, p, next) \/ Failing(a, p, next)

\* The question mark after write_journal, outside the guarded block.
Abandoned(a, p) ==
  /\ Doing(a)
  /\ Phase(p) \/ UNCHANGED journal
  /\ Answers
  /\ UNCHANGED <<live, pool, directory, making, found, process, history>>

\* remove_journal goes on when the removal itself fails.
GivesUp(a) ==
  /\ Doing(a)
  /\ journal' \in {None, journal}
  /\ Answers
  /\ UNCHANGED <<live, pool, directory, making, found, process, history>>

-----------------------------------------------------------------------------
(* Up to the maintenance lock. *)

\* Bound: what clients and administrators begin comes before the last kill.
BeforeLastKill == crashes < MaxCrashes

Request(id) ==
  /\ process = "up"
  /\ BeforeLastKill
  /\ Doing("idle")
  /\ Connected
  /\ Listed(id)
  /\ restoring' = [at |-> "requested", candidate |-> id, pre |-> None]
  /\ journal' = [phase |-> Kind("requested"), pre |-> None]
  /\ JournalOnly

\* The request fails, and may leave its journal.
RequestFailed(id) ==
  /\ process = "up"
  /\ Doing("idle")
  /\ Connected
  /\ Listed(id)
  /\ journal' = [phase |-> Kind("requested"), pre |-> None]
  /\ UNCHANGED <<backupVars, process, restoring, history>>

CandidateVerified ==
  /\ Doing("requested")
  /\ Connected
  /\ Downloadable(restoring.candidate)
  /\ Strict("requested", "candidate_verified", "backing_up")

\* Mutant: the copy is journalled before it is made.
PreRestoreBegunJournalled ==
  /\ Doing("backing_up")
  /\ Begin("restore", "pre_restore")
  /\ restoring' = [restoring EXCEPT !.pre = making'.id]
  /\ journal' = [phase |-> Kind("pre_restore_backup_verified"), pre |-> making'.id]
  /\ UNCHANGED <<found, process, history>>

\* create(PreRestore) waits for the mutation lock, then runs as any creation.
PreRestoreBegun ==
  /\ Doing("backing_up")
  /\ Begin("restore", "pre_restore")
  /\ restoring' = [restoring EXCEPT !.pre = making'.id]
  /\ UNCHANGED <<found, process, journal, history>>

PreRestoreMade ==
  /\ making # None
  /\ making.owner = "restore"
  /\ MadeIt
  /\ Goto("backed_up")
  /\ UNCHANGED <<found, process, journal, history>>

\* Also when no id is left (bound).
PreRestoreFailed ==
  /\ \/ /\ making # None
        /\ making.owner = "restore"
        /\ CopyRejected \/ MakingFailed
     \/ /\ Doing("backing_up")
        /\ Unused = {}
        /\ making = None
        /\ UNCHANGED backupVars
  /\ journal' \in {None, journal}
  /\ restoring' = Idle
  /\ UNCHANGED <<found, process, history>>

PreRestoreVerified ==
  /\ Doing("backed_up")
  /\ Connected
  /\ Downloadable(restoring.pre)
  /\ Strict("backed_up", "pre_restore_backup_verified", "quiescing")

\* quiesce_for_maintenance has succeeded, and begin_maintenance has waited for
\* the connections in use, each of which is a single step here.
MaintenanceBegun(a, next) ==
  /\ Doing(a)
  /\ exclusive' = TRUE
  /\ Goto(next)
  /\ UNCHANGED <<live, pool, directory, making, found, process, journal, history>>

-----------------------------------------------------------------------------
(* Under the maintenance lock. *)

Closed(a, next) ==
  /\ Doing(a)
  /\ pool = "open"
  /\ live' = Folded
  /\ pool' = "closed"
  /\ Goto(next)
  /\ UNCHANGED <<exclusive, directory, making, found, process, journal, history>>

\* The checkpoint fails: the pool is gone, and the log unless the last connection
\* still folded it.  Closing twice fails too.
CloseFailed(a, next) ==
  /\ Doing(a)
  /\ live' \in {live, IF pool = "open" THEN Folded ELSE live}
  /\ pool' = "closed"
  /\ Goto(next)
  /\ UNCHANGED <<exclusive, directory, making, found, process, journal, history>>

Staged(a, next, id) ==
  /\ Doing(a)
  /\ file[id] = "final"
  /\ Goto(next)
  /\ UNCHANGED <<backupVars, process, journal, history>>

\* Mutant: whatever was asked for, the pre-restore copy is installed.
RenamedPre(a, next, id) ==
  /\ Doing(a)
  /\ live' \in Installed(copy[restoring.pre])
  /\ Goto(next)
  /\ UNCHANGED <<pool, exclusive, directory, making, found, process, journal, history>>

Renamed(a, next, id) ==
  /\ Doing(a)
  /\ live' \in Installed(copy[id])
  /\ Goto(next)
  /\ UNCHANGED <<pool, exclusive, directory, making, found, process, journal, history>>

\* open_pool checks what is read through the log and applies the migrations.
Reopened(a, next) ==
  /\ Doing(a)
  /\ Opens(Current)
  /\ pool' = "open"
  /\ Goto(next)
  /\ UNCHANGED <<live, exclusive, directory, making, found, process, journal, history>>

\* clear_scheduler_leases, and the end of maintenance: from here on clients are
\* served from what was installed.
Cleared(a, next) ==
  /\ Doing(a)
  /\ exclusive' = FALSE
  /\ Goto(next)
  /\ UNCHANGED <<live, pool, directory, making, found, process, journal, crashes>>

\* A failure inside the guarded block begins the rollback, the lock still held.
GuardedFailed ==
  /\ restoring.at \in {"closing", "staging", "staged", "reopening", "clearing"}
  /\ IF Doing("reopening") THEN OpenFailed ELSE UNCHANGED live
  /\ Goto("rolling_back")
  /\ UNCHANGED <<pool, exclusive, directory, making, found, process, journal, history>>

-----------------------------------------------------------------------------
(* Completion, or its failure: the workloads stop again. *)

ReconciledAfter ==
  /\ Doing("reconciling")
  /\ Scanned
  /\ Goto("restarting")
  /\ UNCHANGED <<backupVars, process, journal, history>>

\* Also in the middle of the reconciliation.
CompletionFailed ==
  /\ restoring.at \in {"reconciling", "restarting"}
  /\ Goto("rolling_back")
  /\ found' = None
  /\ UNCHANGED <<store, directory, making, process, journal, history>>

Audited(a, next) ==
  /\ Doing(a)
  /\ Connected
  /\ Commit(Current)
  /\ Goto(next)
  /\ UNCHANGED <<directory, making, found, process, journal, history>>

Done ==
  /\ Doing("answering")
  /\ journal' \in {None, journal}
  /\ Answers
  /\ UNCHANGED <<live, pool, directory, making, found, process, history>>

\* restore ends where it is and leaves its journal: an error it hands up, or its
\* client has gone, and the server drops the handler and the guards it holds.
Surrenders ==
  /\ ~Doing("idle")
  /\ Answers
  /\ making' = IF making # None /\ making.owner = "restore" THEN None ELSE making
  /\ IF Doing("rollback_reopening") THEN OpenFailed ELSE UNCHANGED live
  /\ found' = None
  /\ UNCHANGED <<pool, directory, process, journal, history>>

-----------------------------------------------------------------------------
ForwardStep ==
  \/ CandidateVerified \/ GivesUp("requested") \/ Abandoned("requested", "candidate_verified")
  \/ PreRestoreBegun
  \/ PreRestoreVerified \/ GivesUp("backed_up")
  \/ Abandoned("backed_up", "pre_restore_backup_verified")
  \/ GivesUp("quiescing")
  \/ MaintenanceBegun("quiescing", "entered")
  \/ Strict("entered", "workloads_quiesced", "closing")
  \/ Failing("entered", "workloads_quiesced", "rolling_back")
  \/ Closed("closing", "staging") \/ CloseFailed("closing", "rolling_back")
  \/ Doing("staging") /\ Staged("staging", "staged", restoring.candidate)
  \/ Doing("staged") /\ Renamed("staged", "installed", restoring.candidate)
  \/ Strict("installed", "live_replaced", "reopening")
  \/ Failing("installed", "live_replaced", "rolling_back")
  \/ Reopened("reopening", "reopened")
  \/ Strict("reopened", "replacement_verified", "clearing")
  \/ Failing("reopened", "replacement_verified", "rolling_back")
  \/ /\ Cleared("clearing", "reconciling")
     /\ acked' = acked \cap copy[restoring.candidate].writes
  \/ GuardedFailed
  \/ ReconciledAfter \/ CompletionFailed
  \/ Strict("restarting", "workloads_restarted", "auditing")
  \/ Abandoned("restarting", "workloads_restarted")
  \/ Audited("auditing", "succeeding")
  \/ Strict("succeeding", "succeeded", "answering") \/ Abandoned("succeeding", "succeeded")
  \/ Done

RollbackStep ==
  \/ Lenient("rolling_back", "rollback_started", "excluding")
  \/ MaintenanceBegun("excluding", "rollback_closing")
  \/ Closed("rollback_closing", "rollback_staging")
  \/ CloseFailed("rollback_closing", "rollback_staging")
  \/ Doing("rollback_staging") /\ Staged("rollback_staging", "rollback_staged", restoring.pre)
  \/ Doing("rollback_staged") /\ Renamed("rollback_staged", "reinstalled", restoring.pre)
  \/ Lenient("reinstalled", "pre_restore_reinstalled", "rollback_reopening")
  \/ Reopened("rollback_reopening", "rollback_reopened")
  \/ Lenient("rollback_reopened", "rollback_verified", "rollback_clearing")
  \/ Cleared("rollback_clearing", "rollback_restarting") /\ UNCHANGED acked
  \/ Lenient("rollback_restarting", "workloads_restarted_or_held", "failing")
  \/ Audited("failing", "failed")
  \/ Lenient("failed", "failed", "giving_up")
  \/ GivesUp("giving_up")

-----------------------------------------------------------------------------
(* The next start: recover_interrupted, DatabaseManager::open, BackupManager::open. *)

Start ==
  /\ process = "down"
  /\ process' = "recovering"
  /\ UNCHANGED <<backupVars, journal, restoring, history>>

MustReinstall == journal.phase = "replacing"

\* Without a journal there is nothing to do; a restore that had not reached its
\* own copy, or had ended well, needs the journal removed only.
NothingToUndo ==
  /\ process = "recovering"
  /\ journal # None => ~MustReinstall
  /\ IF journal # None /\ journal.phase = "early"
     THEN Verifies(Current) ELSE TRUE
  /\ journal' = None
  /\ process' = "opening"
  /\ UNCHANGED <<live, pool, exclusive, directory, making, found, restoring, history>>

PreRestoreReinstalled ==
  /\ process = "recovering"
  /\ journal # None
  /\ MustReinstall
  /\ Whole(journal.pre)
  /\ live' \in Installed(copy[journal.pre])
  /\ process' = "installed"
  /\ UNCHANGED <<pool, exclusive, directory, making, found, journal, restoring, history>>

RecoveryVerified ==
  /\ process = "installed"
  /\ Verifies(Current)
  /\ journal' = None
  /\ process' = "opening"
  /\ UNCHANGED <<live, pool, exclusive, directory, making, found, restoring, history>>

Opened ==
  /\ process = "opening"
  /\ pool = "closed"
  /\ Opens(Current)
  /\ pool' = "open"
  /\ UNCHANGED <<live, exclusive, directory, making, found, process, journal, restoring, history>>

\* The reconciliation of BackupManager::open, and that of a restore.
Reconciling ==
  /\ Doing("reconciling") \/ (process = "opening" /\ pool = "open")
  /\ (\E id \in Ids : Discarded(id) \/ Found(id)) \/ Inserted
  /\ UNCHANGED <<process, journal, restoring, history>>

Up ==
  /\ process = "opening"
  /\ pool = "open"
  /\ Scanned
  /\ process' = "up"
  /\ UNCHANGED <<backupVars, journal, restoring, history>>

\* A failed step of the start ends the program; the journal stays.
StartFailed ==
  /\ process \in {"recovering", "installed", "opening"}
  /\ IF process = "opening" THEN OpenFailed ELSE UNCHANGED live
  /\ process' = "down"
  /\ pool' = "closed"
  /\ found' = None
  /\ UNCHANGED <<exclusive, directory, making, journal, restoring, history>>

\* A kill: locks, pool and tasks are gone, files and log stay.
Killed ==
  /\ process # "down"
  /\ crashes < MaxCrashes
  /\ crashes' = crashes + 1
  /\ process' = "down"
  /\ pool' = "closed"
  /\ exclusive' = FALSE
  /\ making' = None
  /\ found' = None
  /\ restoring' = Idle
  /\ UNCHANGED <<live, directory, journal, acked>>

\* The listener drains its requests before the database is closed.
Shutdown ==
  /\ process = "up"
  /\ crashes < MaxCrashes
  /\ Doing("idle")
  /\ making = None
  /\ crashes' = crashes + 1
  /\ process' = "down"
  /\ live' = IF pool = "open" THEN Folded ELSE live
  /\ pool' = "closed"
  /\ UNCHANGED <<exclusive, directory, making, found, journal, restoring, acked>>

-----------------------------------------------------------------------------
(* The surroundings: clients and the administrator. *)

ClientWrite(w) ==
  /\ process = "up"
  /\ Connected
  /\ w \notin acked
  /\ \A id \in Ids : w \notin copy[id].writes
  /\ Commit([Current EXCEPT !.writes = @ \cup {w}])
  /\ acked' = acked \cup {w}
  /\ UNCHANGED <<directory, making, found, process, journal, restoring, crashes>>

SetKeep(k) ==
  /\ process = "up"
  /\ Connected
  /\ k < Current.keep                                    \* bound: only lowered,
  /\ Doing("idle") /\ making = None /\ BeforeLastKill     \* while the first backup
  /\ Unused = Ids \ {1}                                  \* is the only one
  /\ Commit([Current EXCEPT !.keep = k])
  /\ UNCHANGED <<directory, making, found, process, journal, restoring, acked, crashes>>

\* Bounds: before the last kill, and a manual backup is the first.
AdminBegin(src) ==
  /\ process = "up"
  /\ BeforeLastKill /\ (src = "manual" => Unused = Ids)
  /\ Begin("admin", src)
  /\ UNCHANGED <<found, process, journal, restoring, history>>

AdminEnd ==
  /\ making # None
  /\ making.owner = "admin"
  /\ MadeIt \/ CopyRejected \/ MakingFailed
  /\ UNCHANGED <<found, process, journal, restoring, history>>

Make == MakingStep /\ UNCHANGED <<found, process, journal, restoring, history>>

Init ==
  /\ BackupInit
  /\ process = "down"
  /\ journal = None
  /\ restoring = Idle
  /\ acked = {}
  /\ crashes = 0

RestoreStep ==
  \/ ForwardStep \/ RollbackStep \/ Surrenders \/ PreRestoreMade \/ PreRestoreFailed
StartStep == \/ Start \/ NothingToUndo \/ PreRestoreReinstalled \/ RecoveryVerified
             \/ Opened \/ Reconciling \/ Up \/ StartFailed

Next ==
  \/ \E id \in Ids : Request(id) \/ RequestFailed(id)
  \/ RestoreStep
  \/ Make \/ AdminEnd \/ \E src \in {"manual", "upload"} : AdminBegin(src)
  \/ StartStep \/ Killed \/ Shutdown
  \/ \E w \in Writes : ClientWrite(w)
  \/ \E k \in Keeps : SetKeep(k)

Spec == Init /\ [][Next]_vars

-----------------------------------------------------------------------------
(* Properties. *)

\* Every variable has the type of its file, row, lock or field.
TypeOK ==
  /\ BackupTypeOK
  /\ process \in {"down", "recovering", "installed", "opening", "up"}
  /\ journal = None \/ journal \in Journal
  /\ restoring \in [at : {"idle"} \cup Forward \cup Rollback,
                    candidate : Ids \cup {None}, pre : Ids \cup {None}]
  /\ acked \subseteq Writes
  /\ crashes \in 0 .. MaxCrashes

\* Whenever the journal on disk would make the next start reinstall the
\* pre-restore backup, that backup is there, whole and verified: retention, a
\* reconciliation and a failed or killed creation never leave a journal that
\* keeps the program from starting (recover_interrupted).
RecoveryHasItsCopy ==
  journal # None /\ MustReinstall => journal.pre \in Ids /\ Whole(journal.pre)

\* In whatever step of an installation, rollback or recovery the program is
\* killed, what it then finds is a database it can open, or the journal has the
\* next start replace it by the pre-restore backup (SPEC 7, Recovery): an installed
\* candidate that the migrations refuse is never left without that journal.  What
\* another database's log has been mixed into is exempt: NeverPartlyReplaced.
MainWhole ==
  \/ Opens(Current)
  \/ journal # None /\ MustReinstall
  \/ live.foreign

\* SPEC 7, Recovery: "it never leaves a partially replaced live database".  No
\* client is served from one.
NeverPartlyReplaced == process = "up" /\ Connected => Current.sound = "yes"

\* The live database loses a write only while the journal on disk can undo the
\* loss: before the candidate replaces it, and until the restore has ended,
\* a kill leads back to the pre-restore copy.  A finished restore is never undone.
ReplacedUnderJournal ==
  [][~(Current.writes \subseteq Current'.writes)
       => journal # None /\ journal.phase = "replacing"]_vars

\* A restore that answers Ok leaves the candidate and what was written since;
\* one that fails after its own backup leaves the original or the replacement
\* (SPEC 7, Recovery), unless it leaves no open database at all, or its rollback put
\* the backup back beside a log that a failed checkpoint left (NeverPartlyReplaced).
AnswerIsTrue ==
  [][restoring.at # "idle" /\ restoring'.at = "idle" /\ process' = "up" =>
       LET cand == copy[restoring.candidate].writes
           live_now == Current'.writes
       IN  IF Doing("answering")
           THEN cand \subseteq live_now /\ live_now \subseteq cand \cup acked
           ELSE \/ pool' = "closed"
                \/ restoring.pre = None
                \/ restoring.at \in Reinstalled /\ live.foreign
                \/ cand \subseteq live_now
                \/ copy[restoring.pre].writes \subseteq live_now]_vars

\* A row enters the catalogue only for a whole pair of files: registration comes
\* after publication, and reconciliation verifies what it finds (DESIGN 18.1).  The
\* one pair that may be gone by then is a victim of retention, still being unlinked
\* when a restore brings back a catalogue without its row; then a newer one stands.
CataloguedFromFiles ==
  [][pool = "open" /\ pool' = "open" =>
       \A id \in Ids : Current.rows[id] = "absent" /\ Current'.rows[id] = "ready" =>
         \/ Whole(id)
         \/ /\ id = found /\ source[id] \in Evictable
            /\ \E j \in Newer(id, Ids) : source[j] \in Evictable /\ Whole(j)]_vars

\* Retention removes uploads only, and never the newest: also when a restore has
\* brought back a catalogue that lists files since removed (DESIGN 18.2).
RetentionSparesNewest ==
  [][\A id \in Ids : file[id] = "final" /\ file'[id] # "final" =>
       /\ source[id] \in Evictable
       /\ \E j \in Newer(id, Ids) : source[j] \in Evictable /\ Whole(j)]_vars

\* SPEC 7, Durability: acknowledged writes survive process failure.
AcknowledgedSurvive == process = "up" /\ Connected => acked \subseteq Current.writes
=============================================================================
