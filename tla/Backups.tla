-------------------------------- MODULE Backups --------------------------------
(***************************************************************************)
(* BackupManager (admin/backup.rs) over DatabaseManager (db/manager.rs):   *)
(* the live database file with its write-ahead log, the backup directory,  *)
(* the catalogue rows the live database keeps of it, retention and         *)
(* reconciliation.                                                         *)
(*                                                                         *)
(* A database is abstracted to the item writes it holds, its catalogue     *)
(* rows, its retention setting, and whether verify_database_at accepts it. *)
(* A backup file never changes, so its content, its digest and the digest  *)
(* in its sidecar are one value.                                           *)
(***************************************************************************)
EXTENDS Integers, FiniteSets

CONSTANTS
  None,         \* an absent log, journal or creation
  Writes,       \* item writes clients may have acknowledged
  MaxBackups,   \* bound on the backups made
  Keeps         \* values of backups.retention_count

Ids == 1 .. MaxBackups   \* backup ids, in order of creation
Evictable == {"automatic", "upload"}

\* What header, integrity, schema version, owner and invariants amount to; an
\* "unopenable" database passes them and fails the migrations, and "undetected"
\* is damage that neither sees.
Soundness == {"yes", "no", "unopenable", "undetected"}

Content == [writes : SUBSET Writes,
            rows   : [Ids -> {"absent", "ready", "expired"}],
            keep   : Keeps,
            sound  : Soundness]

\* wal is what a reader of the file sees when there is a log beside it; foreign
\* says that the log was written for another file, or has been folded into this one.
Live == [main : Content, wal : Content \cup {None}, foreign : BOOLEAN]

Making == [owner : {"admin", "restore"}, id : Ids,
           at : {"begun", "copied", "verified", "renamed", "published", "registered",
                 "retaining", "unlinking", "unlinked"},
           doomed : SUBSET Ids]

ASSUME BackupAssumption ==
  /\ MaxBackups \in Nat
  /\ Keeps \subseteq Nat \ {0}               \* the minimum settings.rs accepts
  /\ \E k \in Keeps : \A j \in Keeps : j <= k   \* the default, only lowered here
  /\ None \notin Content \cup Making \cup Ids
  /\ None \notin Evictable \cup {"manual", "pre_restore"}

VARIABLES
  live,       \* the live file and its log
  pool,       \* the connection pool: "open" or "closed"
  exclusive,  \* the maintenance lock is held
  source,     \* source of each backup, None when its id is not yet drawn
  copy,       \* content of each backup file
  file,       \* where the database file of a backup is
  sidecar,    \* where its manifest is
  making,     \* the creation that holds the mutation lock
  found       \* the pair a reconciliation has verified and not yet inserted

store == <<live, pool, exclusive>>
directory == <<source, copy, file, sidecar>>
backupVars == <<store, directory, making, found>>

Fresh == [writes |-> {}, rows |-> [id \in Ids |-> "absent"],
          keep |-> CHOOSE k \in Keeps : \A j \in Keeps : j <= k, sound |-> "yes"]

\* What a reader of the live database sees.
Current == IF live.wal = None THEN live.main ELSE live.wal

\* connection and begin_immediate refuse while maintenance holds the lock or
\* the pool is closed.
Connected == pool = "open" /\ ~exclusive

Commit(c) == live' = [live EXCEPT !.wal = c] /\ UNCHANGED <<pool, exclusive>>
Verifies(c) == c.sound # "no"

\* The migrations refuse what is newer, has drifted or lacks a control row.
Opens(c) == c.sound \in {"yes", "undetected"}

-----------------------------------------------------------------------------
(* Opening, closing and replacing the live file. *)

\* SQLite replays a log it finds beside the file, also one written for a file
\* since replaced.  The result is neither database: a write of either may be in it
\* or not, a catalogue row and the setting are one's or the other's, and checks and
\* migrations may or may not see the damage.  A log that holds every page brings
\* back the database it was written for.
MixedRows(c, w) ==
  {r \in [Ids -> {"absent", "ready", "expired"}] :
     \A id \in Ids : r[id] \in {c.rows[id], w.rows[id]}}

Mixed(c, w) ==
  {w} \cup {[c EXCEPT !.sound = s] : s \in {"no", "unopenable"}}
    \cup {[writes |-> x, rows |-> r, keep |-> k, sound |-> "undetected"] :
            x \in SUBSET (c.writes \cup w.writes), r \in MixedRows(c, w), k \in {c.keep, w.keep}}

\* install_database: the rename puts a whole copy in place; the log stays.
Installed(c) ==
  IF live.wal = None
  THEN {[main |-> c, wal |-> None, foreign |-> FALSE]}
  ELSE {[main |-> c, wal |-> m, foreign |-> TRUE] : m \in Mixed(c, live.wal)}

\* Mutant: a log is taken for granted.
FoldedBlindly == [live EXCEPT !.main = live.wal, !.wal = None]

\* The log is folded into the file: checkpoint_and_close, or the end of the last
\* connection.
Folded == [live EXCEPT !.main = Current, !.wal = None]

\* What an open leaves that fails on the way.
OpenFailed == live' \in {live, Folded}

-----------------------------------------------------------------------------
(* Creation and upload.  The caller holds the mutation lock throughout. *)

Unused == {id \in Ids : source[id] = None}
At(s) == making # None /\ making.at = s
GoTo(s) == making' = [making EXCEPT !.at = s]
Place(id, f, s) ==
  /\ file' = [file EXCEPT ![id] = f]
  /\ sidecar' = [sidecar EXCEPT ![id] = s]
  /\ UNCHANGED <<source, copy>>

Begin(owner, src) ==
  /\ making = None
  /\ Unused # {}
  /\ LET id == CHOOSE i \in Unused : \A j \in Unused : i <= j
     IN  /\ source' = [source EXCEPT ![id] = src]
         /\ making' = [owner |-> owner, id |-> id, at |-> "begun", doomed |-> {}]
  /\ UNCHANGED <<store, copy, file, sidecar>>

\* VACUUM INTO, or the chunks of an upload: a database of this service, or not one.
Copied ==
  /\ At("begun")
  /\ LET id == making.id
     IN  /\ IF source[id] = "upload"
            THEN \E s \in Soundness \ {"undetected"} :
                   copy' = [copy EXCEPT ![id] = [Fresh EXCEPT !.sound = s]]
            ELSE Connected /\ copy' = [copy EXCEPT ![id] = Current]
         /\ file' = [file EXCEPT ![id] = "temporary"]
  /\ GoTo("copied")
  /\ UNCHANGED <<store, source, sidecar>>

\* Mutant: published on trust.
CopyTrusted ==
  /\ At("copied")
  /\ file[making.id] = "temporary"
  /\ Place(making.id, "temporary", "temporary")
  /\ GoTo("verified")
  /\ UNCHANGED store

CopyVerified ==
  /\ At("copied")
  /\ file[making.id] = "temporary"
  /\ Verifies(copy[making.id])
  /\ Place(making.id, "temporary", "temporary")
  /\ GoTo("verified")
  /\ UNCHANGED store

\* A rejected upload is removed; a rejected copy stays for the next reconciliation.
CopyRejected ==
  /\ At("copied")
  /\ ~(file[making.id] = "temporary" /\ Verifies(copy[making.id]))
  /\ Place(making.id, IF source[making.id] = "upload" THEN "absent" ELSE file[making.id], "absent")
  /\ making' = None
  /\ UNCHANGED store

FileRenamed ==
  /\ At("verified")
  /\ file[making.id] = "temporary"
  /\ Place(making.id, "final", sidecar[making.id])
  /\ GoTo("renamed")
  /\ UNCHANGED store

SidecarRenamed ==
  /\ At("renamed")
  /\ sidecar[making.id] = "temporary"
  /\ Place(making.id, file[making.id], "final")
  /\ GoTo("published")
  /\ UNCHANGED store

\* INSERT OR IGNORE, with the audit event.
WithRow(c, id) == [c EXCEPT !.rows[id] = IF @ = "absent" THEN "ready" ELSE @]

Registered ==
  /\ At("published")
  /\ Connected
  /\ Commit(WithRow(Current, making.id))
  /\ GoTo("registered")
  /\ UNCHANGED directory

-----------------------------------------------------------------------------
(* Retention, the last part of every creation and upload. *)

Newer(id, S) == {j \in S : j > id}

\* Mutant: every source may be evicted.
BeyondAny(c) ==
  LET ready == {id \in Ids : c.rows[id] = "ready"}
  IN  {id \in ready : Cardinality(Newer(id, ready)) >= c.keep}

Beyond(c) ==
  LET ready == {id \in Ids : c.rows[id] = "ready" /\ source[id] \in Evictable}
  IN  {id \in ready : Cardinality(Newer(id, ready)) >= c.keep}

Selected ==
  /\ At("registered")
  /\ Connected
  /\ making' = [making EXCEPT !.at = "retaining", !.doomed = Beyond(Current)]
  /\ UNCHANGED <<store, directory>>

Victim == CHOOSE id \in making.doomed : \A j \in making.doomed : j <= id

Expired ==
  /\ At("retaining")
  /\ making.doomed # {}
  /\ Connected
  /\ Commit([Current EXCEPT !.rows[Victim] = IF @ = "ready" THEN "expired" ELSE @])
  /\ GoTo("unlinking")
  /\ UNCHANGED directory

FileUnlinked ==
  /\ At("unlinking")
  /\ Place(Victim, "absent", sidecar[Victim])
  /\ GoTo("unlinked")
  /\ UNCHANGED store

SidecarUnlinked ==
  /\ At("unlinked")
  /\ Place(Victim, file[Victim], "absent")
  /\ making' = [making EXCEPT !.at = "retaining", !.doomed = @ \ {Victim}]
  /\ UNCHANGED store

\* The caller gets its record and the lock is free.
MadeIt ==
  /\ At("retaining")
  /\ making.doomed = {}
  /\ making' = None
  /\ UNCHANGED <<store, directory>>

\* A database or filesystem error ends the creation wherever it is, also after
\* the backup was registered.
MakingFailed ==
  /\ making # None
  /\ making' = None
  /\ UNCHANGED <<store, directory>>

MakingStep ==
  \/ Copied \/ CopyVerified \/ FileRenamed \/ SidecarRenamed \/ Registered
  \/ Selected \/ Expired \/ FileUnlinked \/ SidecarUnlinked

-----------------------------------------------------------------------------
(* Reading the directory back. *)

Whole(id) == file[id] = "final" /\ sidecar[id] = "final" /\ Verifies(copy[id])

\* list, and the choice of a record that has not expired.
Listed(id) == Current.rows[id] = "ready"

Downloadable(id) == Listed(id) /\ Whole(id)

\* reconcile takes the entries of the directory one by one, without the mutation
\* lock.  A temporary file goes, whoever is writing it.
Discarded(id) ==
  /\ found = None
  /\ \/ file[id] = "temporary" /\ Place(id, "absent", sidecar[id])
     \/ sidecar[id] = "temporary" /\ Place(id, file[id], "absent")
  /\ UNCHANGED <<store, making, found>>

\* verify_database answers, and the entry is matched with its manifest.
Found(id) ==
  /\ found = None
  /\ Whole(id)
  /\ found' = id
  /\ UNCHANGED <<store, directory, making>>

\* insert_if_missing, a transaction of its own.
Inserted ==
  /\ found # None
  /\ Connected
  /\ Commit(WithRow(Current, found))
  /\ found' = None
  /\ UNCHANGED <<directory, making>>

\* The scan ends.  An entry it could not remove, read or verify it has passed over.
Scanned == found = None

BackupInit ==
  /\ live = [main |-> Fresh, wal |-> None, foreign |-> FALSE]
  /\ pool = "closed"
  /\ exclusive = FALSE
  /\ source = [id \in Ids |-> None]
  /\ copy = [id \in Ids |-> Fresh]
  /\ file = [id \in Ids |-> "absent"]
  /\ sidecar = [id \in Ids |-> "absent"]
  /\ making = None
  /\ found = None

BackupTypeOK ==
  /\ live \in Live
  /\ pool \in {"open", "closed"}
  /\ exclusive \in BOOLEAN
  /\ source \in [Ids -> {None, "manual", "automatic", "upload", "pre_restore"}]
  /\ copy \in [Ids -> Content]
  /\ file \in [Ids -> {"absent", "temporary", "final"}]
  /\ sidecar \in [Ids -> {"absent", "temporary", "final"}]
  /\ making = None \/ making \in Making
  /\ found \in Ids \cup {None}
=============================================================================
