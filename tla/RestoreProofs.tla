----------------------------- MODULE RestoreProofs -----------------------------
(***************************************************************************)
(* What holds of Restore for every number of backups, every set of writes  *)
(* and every number of kills: proofs of the safety properties Restore      *)
(* states.                                                                 *)
(*                                                                         *)
(* The inductive invariant has a part for each of the things the code      *)
(* takes on trust: the files behind a creation in progress, the catalogue  *)
(* rows of every database that may become the live one, whether the live   *)
(* file opens, and, for each position of the restore, the locks, the       *)
(* journal and the content it may rely on there.                           *)
(***************************************************************************)
EXTENDS Restore, FiniteSetTheorems, WellFoundedInduction, TLAPS

\* Ids whose content can no longer change: drawn, and past the copy.
Settled(id) ==
  source[id] # None /\ ~(making # None /\ making.at = "begun" /\ making.id = id)

\* A backup that retention may count on instead of an older one, and one that may
\* go because of it.
Stands(k) == source[k] \in Evictable /\ Whole(k)
Outlived(id) == source[id] \in Evictable /\ \E k \in Ids : k > id /\ Stands(k)

UnusedOK == \A id \in Ids : source[id] = None => file[id] = "absent" /\ copy[id] = Fresh

\* What the creation that holds the mutation lock has behind it.
MakingOK ==
  making # None =>
    /\ source[making.id] # None
    /\ making.at = "begun" => copy[making.id] = Fresh
    /\ making.at \in {"begun", "copied", "verified"} => file[making.id] # "final"
    /\ making.at \in {"verified", "renamed"} => Verifies(copy[making.id])
    /\ making.at = "renamed" => file[making.id] = "final"
    /\ making.at = "published" => Whole(making.id)
    /\ making.at \in {"registered", "retaining", "unlinking", "unlinked"}
         => source[making.id] \in Evictable \/ Whole(making.id)
    /\ making.at \in {"unlinking", "unlinked"} => making.doomed # {}

\* Retention dooms uploads and automatic backups that have a newer whole one
\* which is not doomed itself.
DoomedOK ==
  making # None =>
    \A v \in making.doomed :
      /\ source[v] \in Evictable
      /\ \E k \in Ids : k > v /\ k \notin making.doomed /\ Stands(k)

\* What a reconciliation has verified and still has to insert is there, or has
\* fallen to retention since.
FoundOK == found # None => Settled(found) /\ (Whole(found) \/ Outlived(found))

\* A catalogue lists settled ids only, and evictable ones only while they or a
\* newer one stand: also a catalogue that a restore may bring back.
Catalogue(rows) ==
  \A j \in Ids :
    /\ rows[j] # "absent" => Settled(j)
    /\ rows[j] = "ready" /\ source[j] \in Evictable => \E k \in Ids : k >= j /\ Stands(k)

CataloguesOK ==
  /\ Catalogue(live.main.rows)
  /\ live.wal # None => Catalogue(live.wal.rows)
  /\ \A id \in Ids : Catalogue(copy[id].rows)

\* Only an upload can be what this program cannot open.
CopiesOpen == \A id \in Ids : source[id] # "upload" => Opens(copy[id])

Undoable == journal # None /\ MustReinstall

\* What is read through the log opens, unless the journal replaces it at the next
\* start or another database's log has been mixed into it.
LiveOK ==
  /\ pool = "open" => Opens(Current)
  /\ ~Undoable => Opens(Current) \/ live.foreign

\* Positions of the restore by what holds there.
OpenAt == {"requested", "backing_up", "backed_up", "quiescing", "entered", "closing",
  "reopened", "clearing", "reconciling", "restarting", "auditing", "succeeding",
  "answering", "rollback_reopened", "rollback_clearing", "rollback_restarting",
  "failing", "failed", "giving_up"}
ClosedAt == {"staging", "staged", "installed", "reopening", "rollback_staging",
  "rollback_staged", "reinstalled", "rollback_reopening"}
LockedAt == {"entered", "closing", "staging", "staged", "installed", "reopening",
  "reopened", "clearing"}
BackedAt == (Forward \cup Rollback) \ {"requested", "backing_up"}
ReplacingAt == BackedAt \ {"backed_up", "answering"}

\* A backup recover_interrupted may rely on.
Reliable(id) == id \in Ids /\ source[id] = "pre_restore" /\ Whole(id)

JournalOK == Undoable => Reliable(journal.pre)

ProcessOK ==
  /\ process \in {"down", "recovering", "installed"} => pool = "closed"
  /\ process = "installed" => /\ Undoable /\ live.main = copy[journal.pre]
                              /\ live.wal # None => live.foreign
  /\ process = "opening" => journal = None

PositionOK ==
  /\ ~Doing("idle") =>
       process = "up" /\ restoring.candidate \in Ids /\ Settled(restoring.candidate)
  /\ restoring.at \in OpenAt => pool = "open"
  /\ restoring.at \in ClosedAt => pool = "closed"
  /\ restoring.at \in LockedAt => exclusive
  /\ Doing("requested") => restoring.pre = None
  /\ Doing("backing_up") /\ restoring.pre # None => making # None /\ making.owner = "restore"
  /\ making # None /\ making.owner = "restore" =>
       /\ Doing("backing_up")
       /\ restoring.pre = making.id
       /\ source[making.id] = "pre_restore"
  /\ restoring.at \in BackedAt => Reliable(restoring.pre)
  /\ restoring.at \in ReplacingAt => Undoable /\ journal.pre = restoring.pre

Wanted == copy[restoring.candidate].writes
Before == copy[restoring.pre].writes

HoldsBefore == restoring.pre = None \/ Before \subseteq Current.writes
HoldsWanted == Wanted \subseteq Current.writes /\ Current.writes \subseteq Wanted \cup acked
HoldsEither == HoldsBefore \/ Wanted \subseteq Current.writes
HoldsBack == HoldsBefore \/ live.foreign
IsWanted == live = [main |-> copy[restoring.candidate], wal |-> None, foreign |-> FALSE]

BeforeAt == {"backing_up", "backed_up", "quiescing", "entered", "closing"}
WantedAt == {"reconciling", "restarting", "auditing", "succeeding", "answering"}

\* What the live database holds at each position.
WritesOK ==
  /\ restoring.at \in BeforeAt => HoldsBefore
  /\ restoring.at \in {"staging", "staged"} => live.wal = None
  /\ restoring.at \in {"installed", "reopening", "reopened", "clearing"} => IsWanted
  /\ restoring.at \in WantedAt => HoldsWanted
  /\ restoring.at \in {"rolling_back", "excluding", "rollback_closing"} /\ pool = "open"
       => HoldsEither
  /\ restoring.at \in Reinstalled => HoldsBack

FilesInv == UnusedOK /\ MakingOK /\ DoomedOK
GuardInv == CopiesOpen /\ LiveOK /\ JournalOK /\ ProcessOK /\ PositionOK
RInv == TypeOK /\ FilesInv /\ FoundOK /\ CataloguesOK /\ GuardInv /\ WritesOK

-----------------------------------------------------------------------------
(* Sets of ids, and what the two choices of the model pick. *)

\* A nonempty set of ids has an oldest and a newest one.
LEMMA IdsBounded ==
  ASSUME NEW S \in SUBSET Ids, S # {}
  PROVE  /\ \E i \in S : \A j \in S : i <= j
         /\ \E i \in S : \A j \in S : j <= i
<1>1. MaxBackups \in Nat BY BackupAssumption
<1>2. ASSUME NEW T \in SUBSET Nat, T # {} PROVE \E i \in T : \A j \in T : i <= j
  <2>1. IsWellFoundedOn(OpToRel(<, Nat), Nat) BY NatLessThanWellFounded
  <2>2. PICK i \in T : \A j \in T : ~(<<j, i>> \in OpToRel(<, Nat))
    BY <1>2, <2>1, WFMin
  <2>3. \A j \in T : ~(j < i) BY <2>2, <1>2 DEF OpToRel
  <2> QED BY <2>3, <1>2
<1>3. \E i \in S : \A j \in S : i <= j BY <1>1, <1>2 DEF Ids
<1>4. \E i \in S : \A j \in S : j <= i
  <2> DEFINE T == {MaxBackups - i : i \in S}
  <2>1. T \in SUBSET Nat /\ T # {} BY <1>1 DEF Ids
  <2>2. PICK m \in T : \A n \in T : m <= n BY <2>1, <1>2
  <2>3. PICK i \in S : m = MaxBackups - i BY <2>2
  <2>4. \A j \in S : MaxBackups - i <= MaxBackups - j BY <2>2, <2>3
  <2>5. \A j \in S : j <= i BY <2>4, <1>1 DEF Ids
  <2> QED BY <2>5
<1> QED BY <1>3, <1>4

\* The id a creation draws is one nobody has drawn.
LEMMA DrawnIsUnused ==
  ASSUME Unused # {}
  PROVE  (CHOOSE i \in Unused : \A j \in Unused : i <= j) \in Unused
<1>1. Unused \in SUBSET Ids BY DEF Unused
<1>2. \E i \in Unused : \A j \in Unused : i <= j BY <1>1, IdsBounded
<1> QED BY <1>2

\* The victim of retention is one of the doomed.
LEMMA VictimIsDoomed ==
  ASSUME making \in Making, making.doomed # {}
  PROVE  Victim \in making.doomed /\ Victim \in Ids
<1>1. making.doomed \in SUBSET Ids BY DEF Making
<1>2. \E i \in making.doomed : \A j \in making.doomed : j <= i BY <1>1, IdsBounded
<1> QED BY <1>1, <1>2 DEF Victim

\* Retention spares the newest it may evict, and dooms nothing newer than that.
LEMMA BeyondSparesNewest ==
  ASSUME NEW c \in Content, NEW v \in Beyond(c)
  PROVE  \E m \in Ids : /\ m > v /\ c.rows[m] = "ready" /\ source[m] \in Evictable
                        /\ \A k \in Ids : k >= m => k \notin Beyond(c)
<1> DEFINE ready == {id \in Ids : c.rows[id] = "ready" /\ source[id] \in Evictable}
<1>1. ready \in SUBSET Ids /\ v \in ready BY DEF Beyond
<1>2. c.keep \in Nat /\ c.keep >= 1
  <2>1. c.keep \in Keeps BY DEF Content
  <2>2. Keeps \subseteq Nat \ {0} BY BackupAssumption
  <2>3. c.keep \in Nat /\ c.keep # 0 BY <2>1, <2>2
  <2> HIDE <2>1
  <2> QED BY <2>3
<1>3. PICK m \in ready : \A j \in ready : j <= m BY <1>1, IdsBounded
<1>4. ASSUME NEW k \in Ids, k >= m, k \in Beyond(c) PROVE FALSE
  <2>1. k \in ready /\ Cardinality(Newer(k, ready)) >= c.keep BY <1>4 DEF Beyond
  <2>2. Newer(k, ready) = {} BY <2>1, <1>3, <1>4 DEF Newer, Ids
  <2>3. Cardinality(Newer(k, ready)) = 0 BY <2>2, FS_EmptySet
  <2> QED BY <2>1, <2>3, <1>2
<1>5. m > v BY <1>1, <1>3, <1>4 DEF Ids
<1> QED BY <1>3, <1>4, <1>5

-----------------------------------------------------------------------------
(* The directory and the creation in progress. *)

\* What a step leaves of the backups that others rely on.
DirectoryKept ==
  /\ \A id \in Ids : source[id] # None => source'[id] = source[id]
  /\ \A id \in Ids : Settled(id) => Settled(id)' /\ copy'[id] = copy[id]
  /\ \A id \in Ids : Reliable(id) => Reliable(id)'
  /\ \A j \in Ids : Stands(j) => \E k \in Ids : k >= j /\ Stands(k)'
  /\ \A id \in Ids : Whole(id) => Whole(id)' \/ Outlived(id)'

DirectoryStep == FilesInv' /\ DirectoryKept /\ CopiesOpen'

\* A step that removes no published file, draws no id and copies nothing.
LEMMA FilesStay ==
  ASSUME UNCHANGED <<source, copy>>,
         \A id \in Ids : file[id] = "final" => file'[id] = "final",
         \A id \in Ids : sidecar[id] = "final" => sidecar'[id] = "final",
         making' = making \/ making' = None \/ making'.at # "begun"
  PROVE  DirectoryKept
<1>1. \A id \in Ids : Whole(id) => Whole(id)' BY DEF Whole, Verifies
<1>2. \A id \in Ids : Settled(id) => Settled(id)' BY DEF Settled
<1>3. \A id \in Ids : Stands(id) => Stands(id)' BY <1>1 DEF Stands
<1>4. \A id \in Ids : id >= id BY BackupAssumption DEF Ids
<1> QED BY <1>1, <1>2, <1>3, <1>4 DEF DirectoryKept, Reliable

\* Nothing on disk changes; the creation goes on as it was, or ends.
LEMMA DirectoryUntouched ==
  ASSUME BackupTypeOK, FilesInv, CopiesOpen, UNCHANGED directory,
         making' = making \/ making' = None
  PROVE  DirectoryStep
<1>1. UNCHANGED <<source, copy, file, sidecar>> BY DEF directory
<1>2. DirectoryKept BY <1>1, FilesStay
<1>3. \A id \in Ids : Stands(id) => Stands(id)' BY <1>1 DEF Stands, Whole, Verifies
<1>4. UnusedOK' /\ CopiesOpen' BY <1>1 DEF FilesInv, UnusedOK, CopiesOpen, Opens
<1>5. MakingOK' BY <1>1 DEF FilesInv, MakingOK, Whole, Verifies
<1>6. DoomedOK' BY <1>1 DEF FilesInv, DoomedOK, Stands, Whole, Verifies
<1> QED BY <1>2, <1>4, <1>5, <1>6 DEF DirectoryStep, FilesInv

LEMMA BeginKept ==
  ASSUME BackupTypeOK, FilesInv, CopiesOpen, NEW owner \in {"admin", "restore"},
         NEW src \in Evictable \cup {"manual", "pre_restore"},
         Begin(owner, src)
  PROVE  /\ DirectoryStep
         /\ making' \in Making /\ making' # None /\ making'.owner = owner /\ making'.id \in Ids
         /\ source'[making'.id] = src
         /\ copy'[making'.id] = Fresh
         /\ making' = [owner |-> owner, id |-> making'.id, at |-> "begun", doomed |-> {}]
<1> DEFINE id == CHOOSE i \in Unused : \A j \in Unused : i <= j
<1>1. id \in Unused BY DrawnIsUnused DEF Begin
<1>2. /\ source' = [source EXCEPT ![id] = src]
      /\ making' = [owner |-> owner, id |-> id, at |-> "begun", doomed |-> {}]
      /\ UNCHANGED <<copy, file, sidecar>>
      /\ making = None
  BY DEF Begin
<1>3. id \in Ids /\ source[id] = None BY <1>1 DEF Unused
<1> HIDE DEF id
<1>4. /\ source'[id] = src
      /\ \A i \in Ids : i # id => source'[i] = source[i]
  BY <1>2, <1>3 DEF BackupTypeOK
<1>5. src # None BY BackupAssumption
<1>6. making' \in Making /\ making' # None BY <1>2, <1>3, BackupAssumption DEF Making
<1>7. making'.owner = owner /\ making'.id = id /\ making'.at = "begun" /\ making'.doomed = {}
  BY <1>2
<1>8. file[id] = "absent" /\ copy[id] = Fresh BY <1>3 DEF FilesInv, UnusedOK
<1>9. \A i \in Ids : Settled(i) => Settled(i)' /\ source'[i] = source[i] /\ i # id
  BY <1>2, <1>3, <1>4, <1>7 DEF Settled
<1>10. \A i \in Ids : Whole(i) => i # id /\ Whole(i)'
  BY <1>2, <1>8 DEF Whole, Verifies
<1>11. \A i \in Ids : Stands(i) => Stands(i)' BY <1>4, <1>10 DEF Stands
<1>12. \A i \in Ids : i >= i BY BackupAssumption DEF Ids
<1>13. \A i \in Ids : Reliable(i) => Reliable(i)' BY <1>4, <1>10 DEF Reliable
<1>14. DirectoryKept BY <1>2, <1>3, <1>4, <1>9, <1>10, <1>11, <1>12, <1>13 DEF DirectoryKept
<1>15. UnusedOK' BY <1>2, <1>4, <1>5 DEF FilesInv, UnusedOK
<1>16. CopiesOpen'
  <2>1. Opens(Fresh) BY DEF Opens, Fresh
  <2> QED BY <2>1, <1>2, <1>4, <1>8 DEF CopiesOpen, Opens
<1>17. MakingOK' BY <1>2, <1>4, <1>5, <1>7, <1>8 DEF MakingOK
<1>18. DoomedOK' BY <1>7 DEF DoomedOK
<1> QED BY <1>2, <1>3, <1>4, <1>6, <1>7, <1>8, <1>14, <1>15, <1>16, <1>17, <1>18
        DEF DirectoryStep, FilesInv

\* A database a client can read is one the program can open.
LEMMA CurrentOpens ==
  ASSUME LiveOK, pool = "open"
  PROVE  Opens(Current)
BY DEF LiveOK

\* The creation moves on.
LEMMA MakingMoved ==
  ASSUME making \in Making,
         NEW s \in {"copied", "verified", "renamed", "published", "registered",
                    "retaining", "unlinking", "unlinked"},
         NEW D \in SUBSET Ids,
         making' = [making EXCEPT !.at = s, !.doomed = D]
  PROVE  /\ making' \in Making /\ making' # None
         /\ making'.at = s /\ making'.doomed = D
         /\ making'.id = making.id /\ making'.id \in Ids
         /\ making'.owner = making.owner
<1>1. making' \in Making BY DEF Making
<1>2. making' # None BY <1>1, BackupAssumption
<1> QED BY <1>1, <1>2 DEF Making

LEMMA MakingGoes ==
  ASSUME making \in Making,
         NEW s \in {"copied", "verified", "renamed", "published", "registered",
                    "retaining", "unlinking", "unlinked"},
         GoTo(s)
  PROVE  /\ making' \in Making /\ making' # None
         /\ making'.at = s /\ making'.doomed = making.doomed
         /\ making'.id = making.id /\ making'.id \in Ids
         /\ making'.owner = making.owner
<1>1. making' = [making EXCEPT !.at = s] BY DEF GoTo
<1>2. making' \in Making BY <1>1 DEF Making
<1>3. making' # None BY <1>2, BackupAssumption
<1> QED BY <1>1, <1>2, <1>3 DEF Making

\* VACUUM INTO, or an upload.
LEMMA CopiedKept ==
  ASSUME BackupTypeOK, FilesInv, CopiesOpen, LiveOK, Copied
  PROVE  /\ DirectoryStep
         /\ making # None /\ making.at = "begun" /\ making' \in Making
         /\ making'.at = "copied" /\ making'.owner = making.owner /\ making'.id = making.id
         /\ UNCHANGED store
         /\ \A i \in Ids : \/ copy'[i] = copy[i]
                           \/ i = making.id /\ copy'[i].rows = Fresh.rows
                           \/ i = making.id /\ copy'[i] = Current
         /\ source[making.id] # "upload" => copy'[making.id] = Current
<1> DEFINE id == making.id
<1>1. making # None /\ making.at = "begun" /\ GoTo("copied") /\ UNCHANGED <<store, source, sidecar>>
  BY DEF Copied, At
<1>2. making \in Making /\ id \in Ids BY <1>1 DEF BackupTypeOK, Making
<1>3. /\ making' \in Making /\ making' # None
      /\ making'.at = "copied" /\ making'.doomed = making.doomed
      /\ making'.id = id /\ making'.owner = making.owner
  BY <1>1, <1>2, MakingGoes
<1>4. /\ file[id] # "final" /\ source[id] # None
  BY <1>1 DEF FilesInv, MakingOK
<1>5. /\ file'[id] = "temporary"
      /\ \A i \in Ids : i # id => file'[i] = file[i]
  BY <1>2 DEF Copied, BackupTypeOK
<1>6. \A i \in Ids : i # id => copy'[i] = copy[i]
  BY <1>2 DEF Copied, BackupTypeOK
<1>7. source[id] = "upload" =>
        \E s \in Soundness : copy'[id] = [Fresh EXCEPT !.sound = s]
  BY <1>2 DEF Copied, BackupTypeOK
<1>8. source[id] # "upload" => pool = "open" /\ copy'[id] = Current
  BY <1>2 DEF Copied, BackupTypeOK, Connected
<1> HIDE DEF id
<1>9. \A i \in Ids : Settled(i) => i # id /\ Settled(i)'
  BY <1>1, <1>3 DEF Settled, id
<1>10. \A i \in Ids : Whole(i) => i # id /\ Whole(i)'
  BY <1>1, <1>4, <1>5, <1>6 DEF Whole, Verifies
<1>11. \A i \in Ids : Stands(i) => Stands(i)' BY <1>1, <1>10 DEF Stands
<1>12. \A i \in Ids : i >= i BY BackupAssumption DEF Ids
<1>13. DirectoryKept BY <1>1, <1>6, <1>9, <1>10, <1>11, <1>12 DEF DirectoryKept, Reliable
<1>14. UnusedOK' BY <1>1, <1>4, <1>5, <1>6 DEF FilesInv, UnusedOK
<1>15. CopiesOpen' BY <1>1, <1>6, <1>8, CurrentOpens DEF CopiesOpen, Opens
<1>16. MakingOK' BY <1>1, <1>3, <1>4, <1>5 DEF MakingOK
<1>17. DoomedOK' BY <1>1, <1>3, <1>11 DEF FilesInv, DoomedOK
<1>18. source[id] = "upload" => copy'[id].rows = Fresh.rows
  BY <1>7 DEF Fresh
<1>19. \A i \in Ids : \/ copy'[i] = copy[i]
                      \/ i = making.id /\ copy'[i].rows = Fresh.rows
                      \/ i = making.id /\ copy'[i] = Current
  BY <1>6, <1>8, <1>18 DEF id
<1>20. DirectoryStep BY <1>13, <1>14, <1>15, <1>16, <1>17 DEF DirectoryStep, FilesInv
<1> QED BY <1>1, <1>3, <1>8, <1>19, <1>20 DEF id

LEMMA Placed ==
  ASSUME BackupTypeOK, NEW id \in Ids, NEW f, NEW s, Place(id, f, s)
  PROVE  /\ file'[id] = f /\ \A i \in Ids : i # id => file'[i] = file[i]
         /\ sidecar'[id] = s /\ \A i \in Ids : i # id => sidecar'[i] = sidecar[i]
         /\ UNCHANGED <<source, copy>>
BY DEF Place, BackupTypeOK

\* The stages between the copy and its publication.
LEMMA PublishingKept ==
  ASSUME BackupTypeOK, FilesInv, CopiesOpen, CopyVerified \/ FileRenamed \/ SidecarRenamed
  PROVE  DirectoryStep
<1> DEFINE id == making.id
<1>1. making # None /\ making \in Making /\ id \in Ids
  BY DEF CopyVerified, FileRenamed, SidecarRenamed, At, BackupTypeOK, Making
<1> DEFINE Moved(s) ==
      /\ making' \in Making /\ making' # None
      /\ making'.at = s /\ making'.doomed = making.doomed
      /\ making'.id = id /\ making'.id \in Ids /\ making'.owner = making.owner
<1>2. CASE CopyVerified
  <2>1. Moved("verified") BY <1>1, <1>2, MakingGoes DEF CopyVerified
  <2>2. /\ file'[id] = "temporary" /\ \A i \in Ids : i # id => file'[i] = file[i]
        /\ sidecar'[id] = "temporary" /\ \A i \in Ids : i # id => sidecar'[i] = sidecar[i]
        /\ UNCHANGED <<source, copy>>
    BY <1>1, <1>2, Placed DEF CopyVerified
  <2>3. file[id] # "final" /\ source[id] # None /\ Verifies(copy[id]) /\ making.at = "copied"
    BY <1>1, <1>2 DEF FilesInv, MakingOK, CopyVerified, At
  <2> HIDE DEF id
  <2>4. \A i \in Ids : Whole(i) => i # id /\ Whole(i)'
    BY <2>2, <2>3 DEF Whole, Verifies
  <2>5. \A i \in Ids : Stands(i) => Stands(i)' BY <2>2, <2>4 DEF Stands
  <2>6. \A i \in Ids : Settled(i) => Settled(i)' BY <2>1, <2>2 DEF Settled
  <2>7. \A i \in Ids : i >= i BY BackupAssumption DEF Ids
  <2>8. DirectoryKept BY <2>2, <2>4, <2>5, <2>6, <2>7 DEF DirectoryKept, Reliable
  <2>9. UnusedOK' /\ CopiesOpen'
    BY <2>2, <2>3 DEF FilesInv, UnusedOK, CopiesOpen, Opens
  <2>10. MakingOK' BY <2>1, <2>2, <2>3 DEF MakingOK, Verifies
  <2>11. DoomedOK' BY <1>1, <2>1, <2>2, <2>5 DEF FilesInv, DoomedOK
  <2> QED BY <2>8, <2>9, <2>10, <2>11 DEF DirectoryStep, FilesInv
<1>3. CASE FileRenamed
  <2>1. Moved("renamed") BY <1>1, <1>3, MakingGoes DEF FileRenamed
  <2>2. /\ file'[id] = "final" /\ \A i \in Ids : i # id => file'[i] = file[i]
        /\ \A i \in Ids : sidecar'[i] = sidecar[i]
        /\ UNCHANGED <<source, copy>>
    BY <1>1, <1>3, Placed DEF FileRenamed
  <2>3. source[id] # None /\ Verifies(copy[id])
    BY <1>1, <1>3 DEF FilesInv, MakingOK, FileRenamed, At
  <2> HIDE DEF id
  <2>4. DirectoryKept BY <2>1, <2>2, FilesStay
  <2>5. \A i \in Ids : Stands(i) => Stands(i)' BY <2>2 DEF Stands, Whole, Verifies
  <2>6. UnusedOK' /\ CopiesOpen'
    BY <2>2, <2>3 DEF FilesInv, UnusedOK, CopiesOpen, Opens
  <2>7. MakingOK' BY <2>1, <2>2, <2>3 DEF MakingOK, Verifies
  <2>8. DoomedOK' BY <1>1, <2>1, <2>2, <2>5 DEF FilesInv, DoomedOK
  <2> QED BY <2>4, <2>6, <2>7, <2>8 DEF DirectoryStep, FilesInv
<1>4. CASE SidecarRenamed
  <2>1. Moved("published") BY <1>1, <1>4, MakingGoes DEF SidecarRenamed
  <2>2. /\ \A i \in Ids : file'[i] = file[i]
        /\ sidecar'[id] = "final" /\ \A i \in Ids : i # id => sidecar'[i] = sidecar[i]
        /\ UNCHANGED <<source, copy>>
    BY <1>1, <1>4, Placed DEF SidecarRenamed
  <2>3. source[id] # None /\ Verifies(copy[id]) /\ file[id] = "final"
    BY <1>1, <1>4 DEF FilesInv, MakingOK, SidecarRenamed, At
  <2> HIDE DEF id
  <2>4. DirectoryKept BY <2>1, <2>2, FilesStay
  <2>5. \A i \in Ids : Stands(i) => Stands(i)' BY <2>2 DEF Stands, Whole, Verifies
  <2>6. UnusedOK' /\ CopiesOpen'
    BY <2>2, <2>3 DEF FilesInv, UnusedOK, CopiesOpen, Opens
  <2>7. MakingOK' BY <2>1, <2>2, <2>3 DEF MakingOK, Verifies, Whole
  <2>8. DoomedOK' BY <1>1, <2>1, <2>2, <2>5 DEF FilesInv, DoomedOK
  <2> QED BY <2>4, <2>6, <2>7, <2>8 DEF DirectoryStep, FilesInv
<1> QED BY <1>2, <1>3, <1>4

LEMMA CopyRejectedKept ==
  ASSUME BackupTypeOK, FilesInv, CopiesOpen, CopyRejected
  PROVE  DirectoryStep /\ UNCHANGED <<source, copy>>
<1> DEFINE id == making.id
<1>1. making # None /\ making \in Making /\ id \in Ids /\ making' = None /\ making.at = "copied"
  BY DEF CopyRejected, At, BackupTypeOK, Making
<1>2. /\ file'[id] \in {"absent", file[id]} /\ \A i \in Ids : i # id => file'[i] = file[i]
      /\ sidecar'[id] = "absent" /\ \A i \in Ids : i # id => sidecar'[i] = sidecar[i]
      /\ UNCHANGED <<source, copy>>
  BY <1>1, Placed DEF CopyRejected
<1>3. file[id] # "final" /\ source[id] # None
  BY <1>1 DEF FilesInv, MakingOK
<1> HIDE DEF id
<1>4. \A i \in Ids : Whole(i) => i # id /\ Whole(i)'
  BY <1>2, <1>3 DEF Whole, Verifies
<1>5. \A i \in Ids : Stands(i) => Stands(i)' BY <1>2, <1>4 DEF Stands
<1>6. \A i \in Ids : Settled(i) => Settled(i)' BY <1>1, <1>2 DEF Settled
<1>7. \A i \in Ids : i >= i BY BackupAssumption DEF Ids
<1>8. DirectoryKept BY <1>2, <1>4, <1>5, <1>6, <1>7 DEF DirectoryKept, Reliable
<1>9. UnusedOK' /\ CopiesOpen'
  BY <1>2, <1>3 DEF FilesInv, UnusedOK, CopiesOpen, Opens
<1>10. MakingOK' /\ DoomedOK' BY <1>1 DEF MakingOK, DoomedOK
<1> QED BY <1>2, <1>8, <1>9, <1>10 DEF DirectoryStep, FilesInv

-----------------------------------------------------------------------------
(* Registration and retention. *)

LEMMA CurrentTyped ==
  ASSUME BackupTypeOK
  PROVE  /\ Current \in Content /\ Current # None
         /\ live.main \in Content /\ live.wal \in Content \cup {None} /\ live.foreign \in BOOLEAN
         /\ live = [main |-> live.main, wal |-> live.wal, foreign |-> live.foreign]
BY BackupAssumption DEF BackupTypeOK, Live, Current

LEMMA CurrentCatalogue ==
  ASSUME CataloguesOK PROVE Catalogue(Current.rows)
BY DEF CataloguesOK, Current

\* Between two stages of a creation nothing on disk changes.
LEMMA StageKept ==
  ASSUME BackupTypeOK, FilesInv, CopiesOpen, making # None, UNCHANGED directory,
         NEW s \in {"registered", "unlinking"}, GoTo(s),
         s = "registered" => making.at = "published",
         s = "unlinking" => making.at = "retaining" /\ making.doomed # {}
  PROVE  DirectoryStep
<1>1. UNCHANGED <<source, copy, file, sidecar>> BY DEF directory
<1>2. making \in Making BY DEF BackupTypeOK
<1>3. /\ making' \in Making /\ making' # None
      /\ making'.at = s /\ making'.doomed = making.doomed
      /\ making'.id = making.id /\ making'.owner = making.owner
  BY <1>2, MakingGoes
<1>4. DirectoryKept BY <1>1, <1>3, FilesStay
<1>5. \A i \in Ids : Stands(i) => Stands(i)' BY <1>1 DEF Stands, Whole, Verifies
<1>6. UnusedOK' /\ CopiesOpen' BY <1>1 DEF FilesInv, UnusedOK, CopiesOpen, Opens
<1>7. MakingOK' BY <1>1, <1>3 DEF FilesInv, MakingOK, Whole, Verifies
<1>8. DoomedOK' BY <1>1, <1>2, <1>3, <1>5 DEF FilesInv, DoomedOK, Making
<1> QED BY <1>4, <1>6, <1>7, <1>8 DEF DirectoryStep, FilesInv

LEMMA RegisteredKept ==
  ASSUME BackupTypeOK, FilesInv, CopiesOpen, Registered
  PROVE  DirectoryStep
<1>1. making # None /\ making.at = "published" /\ GoTo("registered") /\ UNCHANGED directory
  BY DEF Registered, At
<1> QED BY <1>1, StageKept

LEMMA ExpiredKept ==
  ASSUME BackupTypeOK, FilesInv, CopiesOpen, Expired
  PROVE  DirectoryStep
<1>1. /\ making # None /\ making.at = "retaining" /\ making.doomed # {}
      /\ GoTo("unlinking") /\ UNCHANGED directory
  BY DEF Expired, At
<1> QED BY <1>1, StageKept

LEMMA SelectedKept ==
  ASSUME BackupTypeOK, FilesInv, CopiesOpen, CataloguesOK, Selected
  PROVE  DirectoryStep /\ making' \in Making /\ making'.owner = making.owner /\ making'.id = making.id
<1>1. /\ making # None /\ making.at = "registered" /\ UNCHANGED <<source, copy, file, sidecar>>
      /\ making' = [making EXCEPT !.at = "retaining", !.doomed = Beyond(Current)]
  BY DEF Selected, At, directory
<1>2. making \in Making BY <1>1 DEF BackupTypeOK
<1>3. Current \in Content /\ Catalogue(Current.rows) BY CurrentTyped, CurrentCatalogue
<1>4. Beyond(Current) \in SUBSET Ids BY DEF Beyond
<1> DEFINE D == Beyond(Current)
<1>5. D \in SUBSET Ids /\ making' = [making EXCEPT !.at = "retaining", !.doomed = D]
  BY <1>1, <1>4
<1>6. \A v \in D : source[v] \in Evictable /\ \E k \in Ids : k > v /\ k \notin D /\ Stands(k)
  <2> SUFFICES ASSUME NEW v \in D
               PROVE  source[v] \in Evictable /\ \E k \in Ids : k > v /\ k \notin D /\ Stands(k)
    OBVIOUS
  <2>1. source[v] \in Evictable BY DEF Beyond
  <2>2. PICK m \in Ids : /\ m > v /\ Current.rows[m] = "ready" /\ source[m] \in Evictable
                         /\ \A k \in Ids : k >= m => k \notin Beyond(Current)
    BY <1>3, BeyondSparesNewest
  <2>3. PICK k \in Ids : k >= m /\ Stands(k) BY <1>3, <2>2 DEF Catalogue
  <2>4. k > v BY <1>5, <2>2, <2>3, BackupAssumption DEF Ids
  <2> QED BY <2>1, <2>2, <2>3, <2>4
<1> HIDE DEF D
<1>7. /\ making' \in Making /\ making' # None
      /\ making'.at = "retaining" /\ making'.doomed = D
      /\ making'.id = making.id /\ making'.owner = making.owner
  BY <1>2, <1>5, MakingMoved
<1>8. DirectoryKept BY <1>1, <1>7, FilesStay
<1>9. \A i \in Ids : Stands(i) => Stands(i)' BY <1>1 DEF Stands, Whole, Verifies
<1>10. UnusedOK' /\ CopiesOpen' BY <1>1 DEF FilesInv, UnusedOK, CopiesOpen, Opens
<1>11. MakingOK' BY <1>1, <1>7 DEF FilesInv, MakingOK, Whole, Verifies
<1>12. DoomedOK' BY <1>1, <1>6, <1>7, <1>9 DEF DoomedOK
<1> QED BY <1>7, <1>8, <1>10, <1>11, <1>12 DEF DirectoryStep, FilesInv

\* What unlinking one of the doomed leaves.
LEMMA UnlinkedKept ==
  ASSUME BackupTypeOK, FilesInv, CopiesOpen, FileUnlinked \/ SidecarUnlinked
  PROVE  DirectoryStep
<1> DEFINE v == Victim
<1>1. making # None /\ making \in Making /\ making.doomed # {}
  BY DEF FileUnlinked, SidecarUnlinked, At, BackupTypeOK, FilesInv, MakingOK
<1>2. v \in making.doomed /\ v \in Ids BY <1>1, VictimIsDoomed
<1> HIDE DEF v
<1>3. /\ \A i \in Ids : i # v => file'[i] = file[i]
      /\ \A i \in Ids : i # v => sidecar'[i] = sidecar[i]
      /\ UNCHANGED <<source, copy>>
  BY <1>2, Placed DEF FileUnlinked, SidecarUnlinked, v
<1>4. file'[v] \in {file[v], "absent"}
  BY <1>2, Placed DEF FileUnlinked, SidecarUnlinked, v
<1>5. /\ making' \in Making /\ making' # None
      /\ making'.at \in {"unlinked", "retaining"}
      /\ making'.id = making.id /\ making'.owner = making.owner
      /\ making'.doomed \subseteq making.doomed
      /\ making'.at = "unlinked" => making'.doomed = making.doomed
  <2>1. CASE FileUnlinked
    <3>1. GoTo("unlinked") BY <2>1 DEF FileUnlinked
    <3> QED BY <1>1, <3>1, MakingGoes
  <2>2. CASE SidecarUnlinked
    <3> DEFINE D == making.doomed \ {Victim}
    <3>1. making' = [making EXCEPT !.at = "retaining", !.doomed = D] /\ D \in SUBSET Ids
      BY <1>1, <2>2 DEF SidecarUnlinked, Making
    <3> HIDE DEF D
    <3>2. /\ making' \in Making /\ making' # None
          /\ making'.at = "retaining" /\ making'.doomed = D
          /\ making'.id = making.id /\ making'.owner = making.owner
      BY <1>1, <3>1, MakingMoved
    <3> QED BY <3>2 DEF D
  <2> QED BY <2>1, <2>2
<1>6. making.at \in {"unlinking", "unlinked"}
  BY DEF FileUnlinked, SidecarUnlinked, At
<1>7. /\ source[v] \in Evictable
      /\ \E k \in Ids : k > v /\ k \notin making.doomed /\ Stands(k)
  BY <1>1, <1>2 DEF FilesInv, DoomedOK
<1>8. \A i \in Ids : i # v /\ Whole(i) => Whole(i)' BY <1>3 DEF Whole, Verifies
<1>9. \A i \in Ids : i # v /\ Stands(i) => Stands(i)' BY <1>3, <1>8 DEF Stands
<1>10. \A j \in Ids : Stands(j) => \E k \in Ids : k >= j /\ Stands(k)'
  <2>1. PICK k \in Ids : k > v /\ k \notin making.doomed /\ Stands(k) BY <1>7
  <2>2. Stands(k)' BY <2>1, <1>2, <1>9
  <2>3. k >= v /\ \A j \in Ids : j >= j BY <2>1, <1>2, BackupAssumption DEF Ids
  <2> QED BY <2>2, <2>3, <1>9
<1>11. /\ \A i \in Ids : Settled(i) => Settled(i)'
       /\ \A i \in Ids : i = v => Outlived(i)'
  <2>1. \A i \in Ids : Settled(i) => Settled(i)' BY <1>3, <1>5 DEF Settled
  <2>2. PICK k \in Ids : k > v /\ k \notin making.doomed /\ Stands(k) BY <1>7
  <2>3. Stands(k)' BY <2>2, <1>2, <1>9
  <2>4. ASSUME NEW i \in Ids, i = v PROVE Outlived(i)'
    BY <1>3, <1>7, <2>2, <2>3, <2>4 DEF Outlived
  <2> QED BY <2>1, <2>4
<1>12. "pre_restore" \notin Evictable BY DEF Evictable
<1>13. DirectoryKept
  BY <1>3, <1>7, <1>8, <1>10, <1>11, <1>12 DEF DirectoryKept, Reliable
<1>14. UnusedOK' /\ CopiesOpen'
  BY <1>3, <1>4 DEF FilesInv, UnusedOK, CopiesOpen, Opens
<1>15. MakingOK'
  <2>1. PICK i \in Ids : i = making.id BY <1>1 DEF Making
  <2>2. source[i] # None /\ (source[i] \in Evictable \/ Whole(i))
    BY <1>1, <1>6, <2>1 DEF FilesInv, MakingOK
  <2>3. source'[i] \in Evictable \/ Whole(i)'
    BY <1>3, <1>7, <1>8, <2>2
  <2>5. making'.at = "unlinked" => making'.doomed # {} BY <1>1, <1>5
  <2> QED BY <1>3, <1>5, <2>1, <2>2, <2>3, <2>5 DEF MakingOK, Whole, Verifies
<1>16. DoomedOK'
  <2> SUFFICES ASSUME NEW u \in making'.doomed
               PROVE  /\ source'[u] \in Evictable
                      /\ \E k \in Ids : k > u /\ k \notin making'.doomed /\ Stands(k)'
    BY <1>3 DEF DoomedOK
  <2>1. u \in making.doomed BY <1>5
  <2>2. PICK k \in Ids : k > u /\ k \notin making.doomed /\ Stands(k)
    BY <1>1, <2>1 DEF FilesInv, DoomedOK
  <2>3. source[u] \in Evictable BY <1>1, <2>1 DEF FilesInv, DoomedOK
  <2>4. Stands(k)' BY <1>2, <1>9, <2>2
  <2> QED BY <1>3, <1>5, <2>2, <2>3, <2>4
<1> QED BY <1>13, <1>14, <1>15, <1>16 DEF DirectoryStep, FilesInv

\* Reconciliation removes temporary files only.
LEMMA DiscardedKept ==
  ASSUME BackupTypeOK, FilesInv, CopiesOpen, NEW id \in Ids, Discarded(id)
  PROVE  DirectoryStep
<1>1. /\ UNCHANGED <<source, copy, making>>
      /\ \A i \in Ids : file'[i] = file[i] \/ (file[i] = "temporary" /\ file'[i] = "absent")
      /\ \A i \in Ids : sidecar'[i] = sidecar[i] \/ (sidecar[i] = "temporary" /\ sidecar'[i] = "absent")
  BY Placed DEF Discarded
<1>2. \A i \in Ids : file'[i] = "final" <=> file[i] = "final" BY <1>1
<1>3. \A i \in Ids : sidecar'[i] = "final" <=> sidecar[i] = "final" BY <1>1
<1>4. DirectoryKept BY <1>1, <1>2, <1>3, FilesStay
<1>5. \A i \in Ids : Whole(i) => Whole(i)' BY <1>1, <1>2, <1>3 DEF Whole, Verifies
<1>6. UnusedOK' /\ CopiesOpen' BY <1>1 DEF FilesInv, UnusedOK, CopiesOpen, Opens
<1>7. MakingOK'
  <2>1. making # None => making.id \in Ids BY DEF BackupTypeOK, Making
  <2> QED BY <1>1, <1>2, <1>5, <2>1 DEF FilesInv, MakingOK, Verifies
<1>8. DoomedOK' BY <1>1, <1>5 DEF FilesInv, DoomedOK, Stands
<1> QED BY <1>4, <1>6, <1>7, <1>8 DEF DirectoryStep, FilesInv

-----------------------------------------------------------------------------
(* Every step, by what it does to the directory. *)

Untouched == UNCHANGED directory /\ (making' = making \/ making' = None)

DirectoryCases ==
  \/ Untouched
  \/ Begin("restore", "pre_restore") \/ Begin("admin", "manual") \/ Begin("admin", "upload")
  \/ Copied \/ CopyVerified \/ FileRenamed \/ SidecarRenamed \/ Registered
  \/ Selected \/ Expired \/ FileUnlinked \/ SidecarUnlinked
  \/ CopyRejected \/ \E id \in Ids : Discarded(id)

LEMMA ForwardDirectory == ASSUME ForwardStep PROVE DirectoryCases
<1>1. ASSUME ~PreRestoreBegun PROVE Untouched
  BY <1>1 DEF ForwardStep, ReconciledAfter, CandidateVerified, GivesUp, Abandoned, PreRestoreVerified,
     MaintenanceBegun, Strict, Failing, Closed, CloseFailed, Staged, Renamed, Reopened, Cleared,
     GuardedFailed, CompletionFailed, Audited, Done, JournalOnly, Untouched, backupVars, directory,
     Answers
<1>2. PreRestoreBegun => Begin("restore", "pre_restore") BY DEF PreRestoreBegun
<1> QED BY <1>1, <1>2 DEF DirectoryCases

LEMMA RollbackDirectory == ASSUME RollbackStep PROVE Untouched
BY DEF RollbackStep, Lenient, GivesUp, MaintenanceBegun, Strict, Failing, Closed, CloseFailed,
   Staged, Renamed, Reopened, Cleared, Audited, JournalOnly, Untouched, backupVars, directory

LEMMA StepDirectory == ASSUME Next PROVE DirectoryCases
<1>1. ASSUME NEW id \in Ids, Request(id) \/ RequestFailed(id) PROVE Untouched
  BY <1>1 DEF Request, RequestFailed, JournalOnly, backupVars, Untouched, directory
<1>2. Surrenders => Untouched BY DEF Surrenders, Untouched, directory
<1>3. PreRestoreMade => Untouched BY DEF PreRestoreMade, MadeIt, Untouched
<1>4. PreRestoreFailed => Untouched \/ CopyRejected
  BY DEF PreRestoreFailed, MakingFailed, Untouched, backupVars, directory
<1>5. AdminEnd => Untouched \/ CopyRejected
  BY DEF AdminEnd, MadeIt, MakingFailed, Untouched
<1>6. ASSUME NEW src \in {"manual", "upload"}, AdminBegin(src) PROVE DirectoryCases
  BY <1>6 DEF AdminBegin, DirectoryCases
<1>7. StartStep => Untouched \/ \E id \in Ids : Discarded(id)
  BY DEF StartStep, Start, NothingToUndo, PreRestoreReinstalled, RecoveryVerified, Opened, Up,
     Reconciling, Found, Inserted, StartFailed, Untouched, backupVars, directory
<1>8. Killed \/ Shutdown => Untouched BY DEF Killed, Shutdown, Untouched, directory
<1>9. ASSUME NEW w \in Writes, ClientWrite(w) PROVE Untouched
  BY <1>9 DEF ClientWrite, Untouched, directory
<1>10. ASSUME NEW k \in Keeps, SetKeep(k) PROVE Untouched
  BY <1>10 DEF SetKeep, Untouched, directory
<1>11. Make => DirectoryCases BY DEF Make, MakingStep, DirectoryCases
<1>12. ForwardStep \/ RollbackStep => DirectoryCases
  BY ForwardDirectory, RollbackDirectory DEF DirectoryCases
<1> QED BY <1>1, <1>2, <1>3, <1>4, <1>5, <1>6, <1>7, <1>8, <1>9, <1>10, <1>11, <1>12
        DEF Next, RestoreStep, DirectoryCases

\* Every step keeps the directory invariant, and what others rely on in it.
LEMMA DirectoryInv ==
  ASSUME BackupTypeOK, FilesInv, CopiesOpen, LiveOK, CataloguesOK, Next
  PROVE  DirectoryStep
<1>1. DirectoryCases BY StepDirectory
<1>2. Untouched => DirectoryStep BY DirectoryUntouched DEF Untouched
<1>3. Begin("restore", "pre_restore") \/ Begin("admin", "manual") \/ Begin("admin", "upload")
        => DirectoryStep
  BY BeginKept DEF Evictable
<1> QED BY <1>1, <1>2, <1>3, CopiedKept, PublishingKept, RegisteredKept, SelectedKept, ExpiredKept,
           UnlinkedKept, CopyRejectedKept, DiscardedKept
        DEF DirectoryCases

-----------------------------------------------------------------------------
(* Every step, by what it does to the live database. *)

\* What a transaction makes of the database a client reads: writes are added,
\* and a row appears for a pair of files that is whole, or was when reconciliation
\* verified it.
Written(c) ==
  /\ c \in Content
  /\ c.sound = Current.sound
  /\ Current.writes \subseteq c.writes
  /\ \A j \in Ids : \/ c.rows[j] = Current.rows[j]
                    \/ /\ Current.rows[j] = "absent" /\ c.rows[j] = "ready"
                       /\ Whole(j) \/ (j = found /\ Outlived(j))
                    \/ Current.rows[j] = "ready" /\ c.rows[j] = "expired"

Committed ==
  /\ Connected
  /\ UNCHANGED <<pool, exclusive>>
  /\ \E c \in Content : /\ Written(c)
                        /\ c.writes \subseteq Current.writes \cup acked'
                        /\ live' = [live EXCEPT !.wal = c]

LiveCases ==
  \/ live' \in {live, Folded}
  \/ Undoable /\ pool = "closed" /\ \E id \in Ids : live' \in Installed(copy[id])
  \/ Committed

LEMMA RegisteredCommits ==
  ASSUME BackupTypeOK, FilesInv, Registered
  PROVE  Committed
<1>1. Current \in Content BY CurrentTyped
<1>2. /\ making # None /\ making.at = "published" /\ Connected /\ UNCHANGED <<pool, exclusive>>
      /\ live' = [live EXCEPT !.wal = WithRow(Current, making.id)]
  BY DEF Registered, At, Commit
<1>3. making.id \in Ids /\ Whole(making.id)
  BY <1>2 DEF FilesInv, MakingOK, BackupTypeOK, Making
<1> DEFINE c == WithRow(Current, making.id)
<1>4. /\ c \in Content /\ c.sound = Current.sound /\ c.writes = Current.writes
      /\ \A j \in Ids : c.rows[j] = IF j = making.id /\ Current.rows[j] = "absent" THEN "ready"
                                    ELSE Current.rows[j]
  BY <1>1, <1>3 DEF WithRow, Content
<1> HIDE DEF c
<1>5. Written(c) BY <1>3, <1>4 DEF Written
<1> QED BY <1>2, <1>4, <1>5 DEF Committed, c

LEMMA ExpiredCommits ==
  ASSUME BackupTypeOK, Expired
  PROVE  Committed
<1>1. Current \in Content BY CurrentTyped
<1> DEFINE c == [Current EXCEPT !.rows[Victim] = IF @ = "ready" THEN "expired" ELSE @]
<1>2. making # None /\ making.doomed # {} /\ Connected /\ UNCHANGED <<pool, exclusive>>
      /\ live' = [live EXCEPT !.wal = c]
  BY DEF Expired, At, Commit
<1>3. Victim \in Ids BY <1>2, VictimIsDoomed DEF BackupTypeOK
<1>4. /\ c \in Content /\ c.sound = Current.sound /\ c.writes = Current.writes
      /\ \A j \in Ids : c.rows[j] = IF j = Victim /\ Current.rows[j] = "ready" THEN "expired"
                                    ELSE Current.rows[j]
  BY <1>1, <1>3 DEF Content
<1> HIDE DEF c
<1>5. Written(c) BY <1>4 DEF Written
<1> QED BY <1>2, <1>4, <1>5 DEF Committed

LEMMA InsertedCommits ==
  ASSUME BackupTypeOK, FoundOK, Inserted
  PROVE  Committed
<1>1. Current \in Content BY CurrentTyped
<1> DEFINE c == WithRow(Current, found)
<1>2. /\ found # None /\ Connected /\ UNCHANGED <<pool, exclusive>>
      /\ live' = [live EXCEPT !.wal = c]
  BY DEF Inserted, Commit
<1>3. found \in Ids /\ (Whole(found) \/ Outlived(found)) BY <1>2 DEF FoundOK, BackupTypeOK
<1>4. /\ c \in Content /\ c.sound = Current.sound /\ c.writes = Current.writes
      /\ \A j \in Ids : c.rows[j] = IF j = found /\ Current.rows[j] = "absent" THEN "ready"
                                    ELSE Current.rows[j]
  BY <1>1, <1>3 DEF WithRow, Content
<1> HIDE DEF c
<1>5. Written(c) BY <1>3, <1>4 DEF Written
<1> QED BY <1>2, <1>4, <1>5 DEF Committed, c

\* The reconciliation itself writes to the live database when it inserts only.
LEMMA ReconcilingEffect ==
  ASSUME BackupTypeOK, FoundOK, Reconciling
  PROVE  /\ UNCHANGED live \/ Committed
         /\ UNCHANGED <<pool, exclusive, making, copy, process, journal, restoring, history>>
<1>1. /\ (\E id \in Ids : Discarded(id) \/ Found(id)) \/ Inserted
      /\ UNCHANGED <<process, journal, restoring, history>>
  BY DEF Reconciling
<1>2. ASSUME NEW id \in Ids, Discarded(id) \/ Found(id)
      PROVE  UNCHANGED <<live, pool, exclusive, making, copy>>
  BY <1>2 DEF Discarded, Found, Place, store, directory
<1>3. CASE Inserted
  BY <1>1, <1>3, InsertedCommits DEF Inserted, Commit, directory
<1> QED BY <1>1, <1>2, <1>3

LEMMA AuditCommits ==
  ASSUME BackupTypeOK, Connected, Commit(Current)
  PROVE  Committed
<1>1. Current \in Content BY CurrentTyped
<1>2. Written(Current) BY <1>1 DEF Written
<1> QED BY <1>1, <1>2 DEF Committed, Commit

LEMMA ClientCommits ==
  ASSUME TypeOK, NEW w \in Writes, ClientWrite(w)
  PROVE  Committed
<1>1. Current \in Content BY CurrentTyped DEF TypeOK
<1> DEFINE c == [Current EXCEPT !.writes = @ \cup {w}]
<1>2. Connected /\ UNCHANGED <<pool, exclusive>> /\ acked' = acked \cup {w}
      /\ live' = [live EXCEPT !.wal = c]
  BY DEF ClientWrite, Commit
<1>3. /\ c \in Content /\ c.sound = Current.sound /\ c.writes = Current.writes \cup {w}
      /\ c.rows = Current.rows
  BY <1>1 DEF Content
<1> HIDE DEF c
<1>4. Written(c) BY <1>3 DEF Written
<1> QED BY <1>2, <1>3, <1>4 DEF Committed

LEMMA KeepCommits ==
  ASSUME TypeOK, NEW k \in Keeps, SetKeep(k)
  PROVE  Committed
<1>1. Current \in Content BY CurrentTyped DEF TypeOK
<1> DEFINE c == [Current EXCEPT !.keep = k]
<1>2. Connected /\ UNCHANGED <<pool, exclusive>> /\ live' = [live EXCEPT !.wal = c]
  BY DEF SetKeep, Commit
<1>3. /\ c \in Content /\ c.sound = Current.sound /\ c.writes = Current.writes
      /\ c.rows = Current.rows
  BY <1>1 DEF Content
<1> HIDE DEF c
<1>4. Written(c) BY <1>3 DEF Written
<1> QED BY <1>2, <1>3, <1>4 DEF Committed

LEMMA StartLive == ASSUME BackupTypeOK, FoundOK, JournalOK, ProcessOK, StartStep PROVE LiveCases
<1>1. ASSUME ~Reconciling, ~PreRestoreReinstalled PROVE live' \in {live, Folded}
  BY <1>1 DEF StartStep, Start, NothingToUndo, RecoveryVerified, Opened, Up, StartFailed,
     OpenFailed, backupVars, store
<1>2. PreRestoreReinstalled =>
        Undoable /\ pool = "closed" /\ \E id \in Ids : live' \in Installed(copy[id])
  BY DEF PreRestoreReinstalled, JournalOK, ProcessOK, Undoable, Reliable
<1>3. Reconciling => UNCHANGED live \/ Committed BY ReconcilingEffect
<1> QED BY <1>1, <1>2, <1>3 DEF LiveCases

LEMMA ForwardLive == ASSUME BackupTypeOK, PositionOK, ForwardStep PROVE LiveCases
<1>1. ASSUME ~Audited("auditing", "succeeding"),
             ~(Doing("staged") /\ Renamed("staged", "installed", restoring.candidate))
      PROVE  live' \in {live, Folded}
  BY <1>1 DEF ForwardStep, CandidateVerified, GivesUp, Abandoned, PreRestoreVerified,
     PreRestoreBegun, Begin, MaintenanceBegun, Strict, Failing, Closed, CloseFailed, Staged,
     Reopened, Cleared, GuardedFailed, ReconciledAfter, CompletionFailed, Done, JournalOnly,
     backupVars, store, OpenFailed
<1>2. Doing("staged") /\ Renamed("staged", "installed", restoring.candidate)
        => Undoable /\ pool = "closed" /\ \E id \in Ids : live' \in Installed(copy[id])
  BY DEF Renamed, PositionOK, Doing, ClosedAt, ReplacingAt, BackedAt, Forward
<1>3. Audited("auditing", "succeeding") => Committed BY AuditCommits DEF Audited
<1> QED BY <1>1, <1>2, <1>3 DEF LiveCases

LEMMA RollbackLive == ASSUME BackupTypeOK, PositionOK, RollbackStep PROVE LiveCases
<1>1. ASSUME ~Audited("failing", "failed"),
             ~(Doing("rollback_staged") /\ Renamed("rollback_staged", "reinstalled", restoring.pre))
      PROVE  live' \in {live, Folded}
  BY <1>1 DEF RollbackStep, Lenient, GivesUp, MaintenanceBegun, Strict, Failing, Closed,
     CloseFailed, Staged, Reopened, Cleared, JournalOnly, backupVars, store
<1>2. Doing("rollback_staged") /\ Renamed("rollback_staged", "reinstalled", restoring.pre)
        => Undoable /\ pool = "closed" /\ \E id \in Ids : live' \in Installed(copy[id])
  BY DEF Renamed, PositionOK, Doing, ClosedAt, ReplacingAt, BackedAt, Rollback, Reliable
<1>3. Audited("failing", "failed") => Committed BY AuditCommits DEF Audited
<1> QED BY <1>1, <1>2, <1>3 DEF LiveCases

LEMMA MakeLive ==
  ASSUME BackupTypeOK, FilesInv, MakingStep PROVE UNCHANGED store \/ Committed
<1>1. ASSUME ~Registered, ~Expired PROVE UNCHANGED store
  BY <1>1 DEF MakingStep, Copied, CopyVerified, FileRenamed, SidecarRenamed, Selected,
     FileUnlinked, SidecarUnlinked
<1> QED BY <1>1, RegisteredCommits, ExpiredCommits

LEMMA StepLive ==
  ASSUME TypeOK, FilesInv, FoundOK, JournalOK, ProcessOK, PositionOK, Next PROVE LiveCases
<1> USE DEF TypeOK
<1>1. ASSUME NEW id \in Ids, Request(id) \/ RequestFailed(id) PROVE UNCHANGED live
  BY <1>1 DEF Request, RequestFailed, JournalOnly, backupVars, store
<1>2. Surrenders => live' \in {live, Folded} BY DEF Surrenders, OpenFailed
<1>3. PreRestoreMade \/ PreRestoreFailed \/ AdminEnd => UNCHANGED live
  BY DEF PreRestoreMade, PreRestoreFailed, AdminEnd, MadeIt, CopyRejected, MakingFailed,
     backupVars, store
<1>4. ASSUME NEW src \in {"manual", "upload"}, AdminBegin(src) PROVE UNCHANGED live
  BY <1>4 DEF AdminBegin, Begin, store
<1>5. Killed => UNCHANGED live BY DEF Killed
<1>6. Shutdown => UNCHANGED live \/ live' = Folded BY DEF Shutdown
<1>7. ASSUME NEW w \in Writes, ClientWrite(w) PROVE Committed BY <1>7, ClientCommits
<1>8. ASSUME NEW k \in Keeps, SetKeep(k) PROVE Committed BY <1>8, KeepCommits
<1>9. Make => UNCHANGED live \/ Committed BY MakeLive DEF Make, store
<1> QED BY <1>1, <1>2, <1>3, <1>4, <1>5, <1>6, <1>7, <1>8, <1>9, StartLive, ForwardLive,
           RollbackLive
        DEF Next, RestoreStep, LiveCases

-----------------------------------------------------------------------------
(* The catalogues of all databases. *)

LEMMA CatalogueKept ==
  ASSUME DirectoryKept, NEW rows, Catalogue(rows) PROVE Catalogue(rows)'
<1> SUFFICES ASSUME NEW j \in Ids
             PROVE  /\ rows[j] # "absent" => Settled(j)'
                    /\ rows[j] = "ready" /\ source'[j] \in Evictable
                         => \E k \in Ids : k >= j /\ Stands(k)'
  BY DEF Catalogue
<1>1. rows[j] # "absent" => Settled(j)' /\ source'[j] = source[j]
  BY DEF Catalogue, DirectoryKept, Settled
<1>2. ASSUME rows[j] = "ready", source'[j] \in Evictable
      PROVE  \E k \in Ids : k >= j /\ Stands(k)'
  <2>1. PICK k \in Ids : k >= j /\ Stands(k) BY <1>1, <1>2 DEF Catalogue
  <2>2. PICK m \in Ids : m >= k /\ Stands(m)' BY <2>1 DEF DirectoryKept
  <2>3. m >= j BY <2>1, <2>2, BackupAssumption DEF Ids
  <2> QED BY <2>2, <2>3
<1> QED BY <1>1, <1>2

LEMMA WrittenCatalogue ==
  ASSUME FilesInv, FoundOK, CataloguesOK, NEW c, Written(c) PROVE Catalogue(c.rows)
<1> SUFFICES ASSUME NEW j \in Ids
             PROVE  /\ c.rows[j] # "absent" => Settled(j)
                    /\ c.rows[j] = "ready" /\ source[j] \in Evictable
                         => \E k \in Ids : k >= j /\ Stands(k)
  BY DEF Catalogue
<1>1. Catalogue(Current.rows) BY CurrentCatalogue
<1>2. Whole(j) => Settled(j)
  BY DEF FilesInv, UnusedOK, MakingOK, Whole, Settled
<1>3. j >= j BY BackupAssumption DEF Ids
<1>4. CASE c.rows[j] = Current.rows[j] BY <1>1, <1>4 DEF Catalogue
<1>5. CASE Current.rows[j] = "absent" /\ c.rows[j] = "ready" /\ Whole(j)
  BY <1>2, <1>3, <1>5 DEF Stands
<1>7. CASE c.rows[j] = "ready" /\ j = found /\ Outlived(j)
  <2>1. found # None BY <1>7, BackupAssumption
  <2>2. Settled(j) BY <1>7, <2>1 DEF FoundOK
  <2>3. \A k \in Ids : k > j => k >= j BY BackupAssumption DEF Ids
  <2> QED BY <1>7, <2>2, <2>3 DEF Outlived
<1>6. CASE c.rows[j] = "expired" /\ Current.rows[j] = "ready" BY <1>1, <1>6 DEF Catalogue
<1> QED BY <1>4, <1>5, <1>6, <1>7 DEF Written

\* What a rename puts in place: the copy, and through a log that was left a mixture
\* of the copy with the database the log was written for.
LEMMA InstalledEffect ==
  ASSUME BackupTypeOK, NEW c \in Content, live' \in Installed(c)
  PROVE  /\ live' \in Live /\ live'.main = c
         /\ live.wal = None => live' = [main |-> c, wal |-> None, foreign |-> FALSE]
         /\ live.wal # None =>
              /\ live'.foreign /\ live'.wal # None
              /\ \A j \in Ids : live'.wal.rows[j] \in {c.rows[j], live.wal.rows[j]}
<1>1. CASE live.wal = None
  <2>1. live' = [main |-> c, wal |-> None, foreign |-> FALSE] BY <1>1 DEF Installed
  <2> QED BY <1>1, <2>1 DEF Live
<1>2. CASE live.wal # None
  <2>1. live.wal \in Content BY <1>2, CurrentTyped
  <2>2. PICK m \in Mixed(c, live.wal) : live' = [main |-> c, wal |-> m, foreign |-> TRUE]
    BY <1>2 DEF Installed
  <2>3. m \in Content /\ \A j \in Ids : m.rows[j] \in {c.rows[j], live.wal.rows[j]}
    <3>1. CASE m = live.wal BY <2>1, <3>1
    <3>2. ASSUME NEW s \in {"no", "unopenable"}, m = [c EXCEPT !.sound = s]
          PROVE  m \in Content /\ m.rows = c.rows
      BY <3>2 DEF Content, Soundness
    <3>3. ASSUME NEW x \in SUBSET (c.writes \cup live.wal.writes),
                 NEW r \in MixedRows(c, live.wal), NEW k \in {c.keep, live.wal.keep},
                 m = [writes |-> x, rows |-> r, keep |-> k, sound |-> "undetected"]
          PROVE  m \in Content /\ \A j \in Ids : m.rows[j] \in {c.rows[j], live.wal.rows[j]}
      <4>1. x \in SUBSET Writes /\ k \in Keeps BY <2>1 DEF Content
      <4>2. r \in [Ids -> {"absent", "ready", "expired"}]
            /\ \A j \in Ids : r[j] \in {c.rows[j], live.wal.rows[j]}
        BY DEF MixedRows
      <4>3. m.rows = r BY <3>3
      <4> QED BY <3>3, <4>1, <4>2, <4>3 DEF Content, Soundness
    <3> QED BY <2>2, <3>1, <3>2, <3>3 DEF Mixed
  <2>4. m # None BY <2>3, BackupAssumption
  <2>5. live'.main = c /\ live'.wal = m /\ live'.foreign BY <2>2
  <2> QED BY <1>2, <2>2, <2>3, <2>4, <2>5 DEF Live
<1> QED BY <1>1, <1>2

LEMMA CataloguesInv ==
  ASSUME RInv, DirectoryStep, Next PROVE CataloguesOK'
<1> USE DEF RInv, TypeOK
<1>1. DirectoryKept BY DEF DirectoryStep
<1>2. /\ Catalogue(live.main.rows) /\ Catalogue(Current.rows)
      /\ live.wal # None => Catalogue(live.wal.rows)
      /\ \A id \in Ids : Catalogue(copy[id].rows)
  BY CurrentCatalogue DEF CataloguesOK
<1>3. Catalogue(Fresh.rows) BY DEF Catalogue, Fresh
<1>4. \A id \in Ids : \/ copy'[id] = copy[id]
                      \/ copy'[id].rows = Fresh.rows
                      \/ copy'[id] = Current
  <2>1. CASE Copied BY <2>1, CopiedKept DEF GuardInv
  <2>2. CASE ~Copied
    <3>1. DirectoryCases BY StepDirectory
    <3>2. UNCHANGED copy
      BY <2>2, <3>1 DEF DirectoryCases, Untouched, directory, Begin, CopyVerified, FileRenamed,
         SidecarRenamed, Registered, Selected, Expired, FileUnlinked, SidecarUnlinked,
         CopyRejected, Discarded, Place
    <3> QED BY <3>2
  <2> QED BY <2>1, <2>2
<1>5. LiveCases BY StepLive DEF GuardInv
<1>6. Catalogue(live'.main.rows) /\ (live'.wal # None => Catalogue(live'.wal.rows))
  <2>1. CASE UNCHANGED live BY <1>2, <2>1
  <2>2. CASE live' = Folded
    <3>1. live'.main = Current /\ live'.wal = None BY <2>2, CurrentTyped DEF Folded
    <3> QED BY <1>2, <3>1
  <2>4. ASSUME NEW id \in Ids, live' \in Installed(copy[id])
        PROVE  Catalogue(live'.main.rows) /\ (live'.wal # None => Catalogue(live'.wal.rows))
    <3>1. copy[id] \in Content BY DEF BackupTypeOK
    <3>2. live'.main = copy[id] BY <2>4, <3>1, InstalledEffect
    <3>3. CASE live.wal = None
      <4>1. live'.wal = None BY <2>4, <3>1, <3>3, InstalledEffect
      <4> QED BY <1>2, <3>2, <4>1
    <3>4. CASE live.wal # None
      <4>1. \A j \in Ids : live'.wal.rows[j] \in {copy[id].rows[j], live.wal.rows[j]}
        BY <2>4, <3>1, <3>4, InstalledEffect
      <4>2. Catalogue(copy[id].rows) /\ Catalogue(live.wal.rows) BY <1>2, <3>4
      <4>3. Catalogue(live'.wal.rows) BY <4>1, <4>2 DEF Catalogue
      <4> QED BY <1>2, <3>2, <4>3
    <3> QED BY <3>3, <3>4
  <2>5. CASE Committed
    <3>1. PICK c \in Content : Written(c) /\ live' = [live EXCEPT !.wal = c]
      BY <2>5 DEF Committed
    <3>2. live'.main = live.main /\ live'.wal = c BY <3>1, CurrentTyped DEF BackupTypeOK, Live
    <3> QED BY <1>2, <3>1, <3>2, WrittenCatalogue
  <2> QED BY <1>5, <2>1, <2>2, <2>4, <2>5 DEF LiveCases
<1>7. \A id \in Ids : Catalogue(copy'[id].rows) BY <1>2, <1>3, <1>4
<1>8. \A rows : Catalogue(rows) => Catalogue(rows)' BY <1>1, CatalogueKept
<1> QED BY <1>6, <1>7, <1>8 DEF CataloguesOK

-----------------------------------------------------------------------------
(* Types. *)

LEMMA FreshTyped == Fresh \in Content
<1>1. (CHOOSE k \in Keeps : \A j \in Keeps : j <= k) \in Keeps BY BackupAssumption
<1> QED BY <1>1 DEF Fresh, Content, Soundness

DirectoryTyped ==
  /\ source \in [Ids -> {None, "manual", "automatic", "upload", "pre_restore"}]
  /\ copy \in [Ids -> Content]
  /\ file \in [Ids -> {"absent", "temporary", "final"}]
  /\ sidecar \in [Ids -> {"absent", "temporary", "final"}]
  /\ making = None \/ making \in Making

LEMMA DirectoryTypes ==
  ASSUME BackupTypeOK, FilesInv, CopiesOpen, LiveOK, CataloguesOK, DirectoryCases
  PROVE  DirectoryTyped'
<1> USE DEF DirectoryTyped, BackupTypeOK
<1>1. CASE Untouched BY <1>1 DEF Untouched, directory
<1>2. ASSUME NEW owner \in {"admin", "restore"}, NEW src \in {"manual", "upload", "pre_restore"},
             Begin(owner, src)
      PROVE  DirectoryTyped'
  <2>1. making' \in Making BY <1>2, BeginKept DEF Evictable
  <2> QED BY <1>2, <2>1 DEF Begin
<1>3. CASE Copied
  <2>1. making.id \in Ids BY <1>3 DEF Copied, At, Making
  <2>2. making' \in Making BY <1>3, CopiedKept
  <2>3. copy' \in [Ids -> Content]
    <3>1. Current \in Content /\ Fresh \in Content BY CurrentTyped, FreshTyped
    <3>2. \A s \in Soundness : [Fresh EXCEPT !.sound = s] \in Content BY <3>1 DEF Content
    <3>3. \E c \in Content : copy' = [copy EXCEPT ![making.id] = c]
      BY <1>3, <3>1, <3>2 DEF Copied
    <3> QED BY <2>1, <3>3
  <2> QED BY <1>3, <2>1, <2>2, <2>3 DEF Copied
<1>4. CASE CopyVerified \/ FileRenamed \/ SidecarRenamed
  <2>1. making \in Making /\ making.id \in Ids
    BY <1>4 DEF CopyVerified, FileRenamed, SidecarRenamed, At, Making
  <2>2. making' \in Making BY <1>4, <2>1, MakingGoes DEF CopyVerified, FileRenamed, SidecarRenamed
  <2> QED BY <1>4, <2>1, <2>2 DEF CopyVerified, FileRenamed, SidecarRenamed, Place
<1>5. CASE Registered \/ Expired
  <2>1. making \in Making BY <1>5 DEF Registered, Expired, At
  <2>2. making' \in Making BY <1>5, <2>1, MakingGoes DEF Registered, Expired
  <2> QED BY <1>5, <2>2 DEF Registered, Expired, directory
<1>6. CASE Selected BY <1>6, SelectedKept DEF Selected, directory
<1>7. CASE FileUnlinked \/ SidecarUnlinked
  <2>1. making \in Making /\ making.doomed # {}
    BY <1>7 DEF FileUnlinked, SidecarUnlinked, At, FilesInv, MakingOK
  <2>2. Victim \in Ids BY <2>1, VictimIsDoomed
  <2>3. making' \in Making
    <3>1. making.doomed \ {Victim} \in SUBSET Ids BY <2>1 DEF Making
    <3>2. SidecarUnlinked => making' \in Making BY <2>1, <3>1, MakingMoved DEF SidecarUnlinked
    <3>3. FileUnlinked => making' \in Making BY <2>1, MakingGoes DEF FileUnlinked
    <3> QED BY <1>7, <3>2, <3>3
  <2> QED BY <1>7, <2>2, <2>3 DEF FileUnlinked, SidecarUnlinked, Place
<1>8. CASE CopyRejected
  <2>1. making.id \in Ids BY <1>8 DEF CopyRejected, At, Making
  <2> QED BY <1>8, <2>1 DEF CopyRejected, Place
<1>9. CASE \E id \in Ids : Discarded(id) BY <1>9 DEF Discarded, Place
<1> QED BY <1>1, <1>2, <1>3, <1>4, <1>5, <1>6, <1>7, <1>8, <1>9 DEF DirectoryCases

LEMMA LiveTypes ==
  ASSUME BackupTypeOK, LiveCases PROVE live' \in Live
<1> USE CurrentTyped DEF BackupTypeOK
<1>1. CASE UNCHANGED live BY <1>1
<1>3. CASE live' = Folded BY <1>3 DEF Folded, Live
<1>4. CASE \E id \in Ids : live' \in Installed(copy[id]) BY <1>4, InstalledEffect
<1>5. CASE Committed BY <1>5 DEF Committed, Live
<1> QED BY <1>1, <1>3, <1>4, <1>5 DEF LiveCases

\* The rest of the state: locks, journal, position, history.
RestTyped ==
  /\ pool \in {"open", "closed"} /\ exclusive \in BOOLEAN
  /\ process \in {"down", "recovering", "installed", "opening", "up"}
  /\ journal = None \/ journal \in Journal
  /\ restoring \in [at : {"idle"} \cup Forward \cup Rollback,
                    candidate : Ids \cup {None}, pre : Ids \cup {None}]
  /\ acked \subseteq Writes
  /\ crashes \in 0 .. MaxCrashes

LEMMA TypedParts ==
  TypeOK <=> live \in Live /\ DirectoryTyped /\ RestTyped /\ found \in Ids \cup {None}
BY DEF TypeOK, BackupTypeOK, DirectoryTyped, RestTyped

\* What an entry of the journal may be.
LEMMA Journalled ==
  ASSUME restoring.pre \in Ids \cup {None}, NEW p \in Phases, Phase(p)
  PROVE  journal' \in Journal /\ journal'.phase = Kind(p) /\ journal'.pre = restoring.pre
BY DEF Phase, Journal

LEMMA Moved ==
  ASSUME TypeOK, NEW b \in Forward \cup Rollback, Goto(b)
  PROVE  /\ restoring' \in [at : {"idle"} \cup Forward \cup Rollback,
                            candidate : Ids \cup {None}, pre : Ids \cup {None}]
         /\ restoring'.at = b
         /\ restoring'.candidate = restoring.candidate /\ restoring'.pre = restoring.pre
BY DEF TypeOK, Goto

LEMMA PhasesAre ==
  /\ {"candidate_verified", "pre_restore_backup_verified", "workloads_quiesced",
      "live_replaced", "replacement_verified", "workloads_restarted", "rollback_started",
      "pre_restore_reinstalled", "rollback_verified", "workloads_restarted_or_held", "failed",
      "requested", "succeeded"} \subseteq Phases
  /\ Kind("requested") = "early" /\ Kind("candidate_verified") = "early"
  /\ Kind("succeeded") = "succeeded"
  /\ \A p \in {"pre_restore_backup_verified", "workloads_quiesced", "live_replaced",
      "replacement_verified", "workloads_restarted", "rollback_started",
      "pre_restore_reinstalled", "rollback_verified", "workloads_restarted_or_held", "failed"} :
       Kind(p) = "replacing"
BY DEF Phases, BeforeCopy, AfterCopy, Kind

LEMMA IdleTyped ==
  Idle \in [at : {"idle"} \cup Forward \cup Rollback,
            candidate : Ids \cup {None}, pre : Ids \cup {None}]
BY DEF Idle

\* A move of the restore that writes the journal or not.
LEMMA JournalMoveTypes ==
  ASSUME TypeOK, NEW a, NEW p \in Phases, NEW b \in Forward \cup Rollback, Lenient(a, p, b)
  PROVE  RestTyped'
<1>1. journal' = journal \/ journal' \in Journal
  BY Journalled DEF Lenient, Strict, Failing, TypeOK
<1>2. Goto(b) /\ UNCHANGED <<pool, exclusive, process, acked, crashes>>
  BY DEF Lenient, Strict, Failing, JournalOnly, backupVars, store, history
<1> QED BY <1>1, <1>2, Moved DEF TypeOK, BackupTypeOK, RestTyped

LEMMA EndTypes ==
  ASSUME TypeOK, NEW a, NEW p \in Phases, Abandoned(a, p) \/ GivesUp(a) \/ Done \/ Surrenders
  PROVE  RestTyped'
<1>1. journal' = journal \/ journal' = None \/ journal' \in Journal
  BY Journalled DEF Abandoned, GivesUp, Done, Surrenders, TypeOK
<1>2. /\ restoring' = Idle /\ exclusive' = FALSE /\ UNCHANGED <<pool, process, acked, crashes>>
  BY DEF Abandoned, GivesUp, Done, Surrenders, Answers, history
<1> QED BY <1>1, <1>2, IdleTyped DEF TypeOK, BackupTypeOK, RestTyped

LEMMA MoveTypes ==
  ASSUME TypeOK, NEW a, NEW b \in Forward \cup Rollback, NEW id,
         acked' \in SUBSET acked,
         \/ MaintenanceBegun(a, b) \/ Closed(a, b) \/ CloseFailed(a, b) \/ Staged(a, b, id)
         \/ Renamed(a, b, id) \/ Reopened(a, b) \/ Cleared(a, b) \/ Audited(a, b)
  PROVE  RestTyped'
<1>1. /\ Goto(b) /\ UNCHANGED <<process, journal, crashes>>
      /\ exclusive' \in {exclusive, TRUE, FALSE} /\ pool' \in {pool, "open", "closed"}
  BY DEF MaintenanceBegun, Closed, CloseFailed, Staged, Renamed, Reopened, Cleared, Audited,
     Commit, backupVars, store, history
<1> QED BY <1>1, Moved DEF TypeOK, BackupTypeOK, RestTyped

LEMMA OtherMoveTypes ==
  ASSUME TypeOK,
         CandidateVerified \/ PreRestoreVerified \/ GuardedFailed \/ ReconciledAfter \/ CompletionFailed
  PROVE  RestTyped'
<1>1. CandidateVerified \/ PreRestoreVerified => RestTyped'
  BY JournalMoveTypes, PhasesAre DEF CandidateVerified, PreRestoreVerified, Lenient, Forward
<1>2. ASSUME GuardedFailed \/ ReconciledAfter \/ CompletionFailed PROVE RestTyped'
  <2>1. /\ Goto("rolling_back") \/ Goto("restarting")
        /\ UNCHANGED <<process, journal, pool, exclusive, acked, crashes>>
    BY <1>2 DEF GuardedFailed, ReconciledAfter, CompletionFailed, backupVars, store,
       history
  <2> QED BY <2>1, Moved DEF TypeOK, BackupTypeOK, RestTyped, Forward, Rollback
<1> QED BY <1>1, <1>2

LEMMA PreRestoreBegunTypes == ASSUME TypeOK, FilesInv, CopiesOpen, PreRestoreBegun PROVE RestTyped'
<1>1. making'.id \in Ids
  BY BeginKept DEF PreRestoreBegun, TypeOK
<1>2. /\ restoring' = [restoring EXCEPT !.pre = making'.id]
      /\ UNCHANGED <<pool, exclusive, process, journal, acked, crashes>>
  BY DEF PreRestoreBegun, Begin, store, history
<1> QED BY <1>1, <1>2 DEF TypeOK, BackupTypeOK, RestTyped

LEMMA ForwardTypes == ASSUME TypeOK, FilesInv, CopiesOpen, ForwardStep PROVE RestTyped'
<1> USE PhasesAre
<1>1. ASSUME \/ Strict("entered", "workloads_quiesced", "closing")
             \/ Failing("entered", "workloads_quiesced", "rolling_back")
             \/ Strict("installed", "live_replaced", "reopening")
             \/ Failing("installed", "live_replaced", "rolling_back")
             \/ Strict("reopened", "replacement_verified", "clearing")
             \/ Failing("reopened", "replacement_verified", "rolling_back")
             \/ Strict("restarting", "workloads_restarted", "auditing")
             \/ Strict("succeeding", "succeeded", "answering")
      PROVE  RestTyped'
  BY <1>1, JournalMoveTypes DEF Lenient, Forward, Rollback
<1>2. ASSUME \/ GivesUp("requested") \/ Abandoned("requested", "candidate_verified")
             \/ GivesUp("backed_up") \/ Abandoned("backed_up", "pre_restore_backup_verified")
             \/ GivesUp("quiescing") \/ Abandoned("restarting", "workloads_restarted")
             \/ Abandoned("succeeding", "succeeded") \/ Done
      PROVE  RestTyped'
  BY <1>2, EndTypes
<1>3. ASSUME \/ MaintenanceBegun("quiescing", "entered")
             \/ Closed("closing", "staging") \/ CloseFailed("closing", "rolling_back")
             \/ Staged("staging", "staged", restoring.candidate)
             \/ Renamed("staged", "installed", restoring.candidate)
             \/ Reopened("reopening", "reopened")
             \/ Audited("auditing", "succeeding")
      PROVE  RestTyped'
  <2>1. UNCHANGED acked
    BY <1>3 DEF MaintenanceBegun, Closed, CloseFailed, Staged, Renamed, Reopened, Audited, history
  <2> QED BY <1>3, <2>1, MoveTypes DEF Forward, Rollback
<1>4. ASSUME Cleared("clearing", "reconciling"),
             acked' = acked \cap copy[restoring.candidate].writes
      PROVE  RestTyped'
  BY <1>4, MoveTypes DEF Forward
<1> QED BY <1>1, <1>2, <1>3, <1>4, OtherMoveTypes, PreRestoreBegunTypes DEF ForwardStep

LEMMA RollbackTypes == ASSUME TypeOK, RollbackStep PROVE RestTyped'
<1> USE PhasesAre
<1>1. ASSUME \/ Lenient("rolling_back", "rollback_started", "excluding")
             \/ Lenient("reinstalled", "pre_restore_reinstalled", "rollback_reopening")
             \/ Lenient("rollback_reopened", "rollback_verified", "rollback_clearing")
             \/ Lenient("rollback_restarting", "workloads_restarted_or_held", "failing")
             \/ Lenient("failed", "failed", "giving_up")
      PROVE  RestTyped'
  BY <1>1, JournalMoveTypes DEF Rollback
<1>2. GivesUp("giving_up") => RestTyped' BY EndTypes
<1>3. ASSUME \/ MaintenanceBegun("excluding", "rollback_closing")
             \/ Closed("rollback_closing", "rollback_staging")
             \/ CloseFailed("rollback_closing", "rollback_staging")
             \/ Staged("rollback_staging", "rollback_staged", restoring.pre)
             \/ Renamed("rollback_staged", "reinstalled", restoring.pre)
             \/ Reopened("rollback_reopening", "rollback_reopened")
             \/ Cleared("rollback_clearing", "rollback_restarting") /\ UNCHANGED acked
             \/ Audited("failing", "failed")
      PROVE  RestTyped'
  <2>1. UNCHANGED acked
    BY <1>3 DEF MaintenanceBegun, Closed, CloseFailed, Staged, Renamed, Reopened, Audited, history
  <2> QED BY <1>3, <2>1, MoveTypes DEF Rollback
<1> QED BY <1>1, <1>2, <1>3 DEF RollbackStep

LEMMA StartTypes == ASSUME TypeOK, StartStep PROVE RestTyped'
<1>1. /\ UNCHANGED <<exclusive, restoring, acked, crashes>> /\ journal' \in {journal, None}
      /\ pool' \in {pool, "open", "closed"}
      /\ process' \in {process, "recovering", "opening", "installed", "up", "down"}
  BY DEF StartStep, Start, NothingToUndo, PreRestoreReinstalled, RecoveryVerified, Opened, Up,
     Reconciling, Discarded, Found, Inserted, Commit, StartFailed, backupVars, store, history
<1> QED BY <1>1 DEF TypeOK, BackupTypeOK, RestTyped

LEMMA RestTypes == ASSUME TypeOK, FilesInv, CopiesOpen, Next PROVE RestTyped'
<1>1. ASSUME NEW id \in Ids, Request(id) \/ RequestFailed(id) PROVE RestTyped'
  <2>1. journal' \in Journal
    <3>1. [phase |-> Kind("requested"), pre |-> None] \in Journal BY PhasesAre DEF Journal
    <3> QED BY <1>1, <3>1 DEF Request, RequestFailed
  <2>2. restoring' \in {restoring, [at |-> "requested", candidate |-> id, pre |-> None]}
    BY <1>1 DEF Request, RequestFailed
  <2>3. UNCHANGED <<pool, exclusive, process, acked, crashes>>
    BY <1>1 DEF Request, RequestFailed, JournalOnly, backupVars, store, history
  <2> QED BY <2>1, <2>2, <2>3 DEF TypeOK, BackupTypeOK, RestTyped, Forward
<1>2. PreRestoreMade => RestTyped'
  <2>1. ASSUME PreRestoreMade
        PROVE  Goto("backed_up") /\ UNCHANGED <<pool, exclusive, process, journal, acked, crashes>>
    BY <2>1 DEF PreRestoreMade, MadeIt, store, history
  <2> QED BY <2>1, Moved DEF TypeOK, BackupTypeOK, RestTyped, Forward
<1>3. PreRestoreFailed => RestTyped'
  <2>1. ASSUME PreRestoreFailed
        PROVE  /\ restoring' = Idle /\ journal' \in {None, journal}
               /\ UNCHANGED <<pool, exclusive, process, acked, crashes>>
    BY <2>1 DEF PreRestoreFailed, CopyRejected, MakingFailed, backupVars, store, history
  <2> QED BY <2>1, IdleTyped DEF TypeOK, BackupTypeOK, RestTyped
<1>4. Surrenders => RestTyped' BY EndTypes, PhasesAre
<1>5. ASSUME \/ Make \/ AdminEnd \/ \E src \in {"manual", "upload"} : AdminBegin(src)
      PROVE  RestTyped'
  <2>1. UNCHANGED <<pool, exclusive, process, journal, restoring, acked, crashes>>
    BY <1>5 DEF Make, AdminEnd, AdminBegin, MakingStep, Copied, CopyVerified, FileRenamed,
       SidecarRenamed, Registered, Selected, Expired, FileUnlinked, SidecarUnlinked, MadeIt,
       CopyRejected, MakingFailed, Begin, Commit, store, history
  <2> QED BY <2>1 DEF TypeOK, BackupTypeOK, RestTyped
<1>6. Killed \/ Shutdown => RestTyped'
  <2>1. ASSUME Killed \/ Shutdown
        PROVE  /\ restoring' \in {Idle, restoring} /\ pool' = "closed"
               /\ exclusive' \in {exclusive, FALSE} /\ process' = "down"
               /\ UNCHANGED <<journal, acked>>
    BY <2>1 DEF Killed, Shutdown
  <2>2. ASSUME Killed \/ Shutdown PROVE crashes' \in 0 .. MaxCrashes
    <3>1. crashes' = crashes + 1 /\ crashes < MaxCrashes BY <2>2 DEF Killed, Shutdown
    <3>2. crashes \in 0 .. MaxCrashes BY DEF TypeOK
    <3> QED BY <3>1, <3>2, RestoreAssumption
  <2> QED BY <2>1, <2>2, IdleTyped DEF TypeOK, BackupTypeOK, RestTyped
<1>7. ASSUME NEW w \in Writes, ClientWrite(w) PROVE RestTyped'
  BY <1>7 DEF ClientWrite, Commit, TypeOK, BackupTypeOK, RestTyped
<1>8. ASSUME NEW k \in Keeps, SetKeep(k) PROVE RestTyped'
  BY <1>8 DEF SetKeep, Commit, TypeOK, BackupTypeOK, RestTyped
<1> QED BY <1>1, <1>2, <1>3, <1>4, <1>5, <1>6, <1>7, <1>8, ForwardTypes, RollbackTypes, StartTypes
        DEF Next, RestoreStep

\* Every step, by what it does to the pair a reconciliation has verified.
FoundCases == found' \in {found, None} \/ \E id \in Ids : Found(id)

LEMMA StepFound == ASSUME Next PROVE FoundCases
<1>1. ASSUME NEW id \in Ids, Request(id) \/ RequestFailed(id) PROVE UNCHANGED found
  BY <1>1 DEF Request, RequestFailed, JournalOnly, backupVars
<1>2. ForwardStep => found' \in {found, None}
  BY DEF ForwardStep, CandidateVerified, PreRestoreBegun, GivesUp, Abandoned, PreRestoreVerified,
     MaintenanceBegun, Strict, Failing, Closed, CloseFailed, Staged, Renamed, Reopened, Cleared,
     GuardedFailed, ReconciledAfter, CompletionFailed, Audited, Done, JournalOnly, backupVars
<1>3. RollbackStep => UNCHANGED found
  BY DEF RollbackStep, Lenient, GivesUp, MaintenanceBegun, Strict, Failing, Closed, CloseFailed,
     Staged, Renamed, Reopened, Cleared, Audited, JournalOnly, backupVars
<1>4. Surrenders \/ PreRestoreMade \/ PreRestoreFailed => found' \in {found, None}
  BY DEF Surrenders, PreRestoreMade, PreRestoreFailed
<1>5. ASSUME Make \/ AdminEnd \/ \E src \in {"manual", "upload"} : AdminBegin(src)
      PROVE  UNCHANGED found
  BY <1>5 DEF Make, AdminEnd, AdminBegin
<1>6. StartStep => FoundCases
  BY DEF StartStep, Start, NothingToUndo, PreRestoreReinstalled, RecoveryVerified, Opened, Up,
     Reconciling, Discarded, Inserted, StartFailed, backupVars, FoundCases
<1>7. Killed \/ Shutdown => found' \in {found, None} BY DEF Killed, Shutdown
<1>8. ASSUME (\E w \in Writes : ClientWrite(w)) \/ (\E k \in Keeps : SetKeep(k))
      PROVE  UNCHANGED found
  BY <1>8 DEF ClientWrite, SetKeep
<1> QED BY <1>1, <1>2, <1>3, <1>4, <1>5, <1>6, <1>7, <1>8 DEF Next, RestoreStep, FoundCases

LEMMA FoundInv == ASSUME RInv, DirectoryStep, Next PROVE FoundOK'
<1> USE DEF RInv
<1>1. DirectoryKept BY DEF DirectoryStep
<1>2. found \in Ids \cup {None} BY DEF TypeOK, BackupTypeOK
<1>3. CASE found' = None BY <1>3 DEF FoundOK
<1>4. CASE found' = found /\ found # None
  <2>1. found \in Ids /\ Settled(found) /\ (Whole(found) \/ Outlived(found))
    BY <1>2, <1>4 DEF FoundOK
  <2>2. PICK i \in Ids : i = found BY <2>1
  <2>3. Settled(i)' BY <1>1, <2>1, <2>2 DEF DirectoryKept
  <2>4. CASE Whole(i) BY <1>1, <1>4, <2>2, <2>3, <2>4 DEF DirectoryKept, FoundOK
  <2>5. CASE Outlived(i)
    <3>1. PICK k \in Ids : k > i /\ Stands(k) BY <2>5 DEF Outlived
    <3>2. PICK m \in Ids : m >= k /\ Stands(m)' BY <1>1, <3>1 DEF DirectoryKept
    <3>3. m > i BY <3>1, <3>2, BackupAssumption DEF Ids
    <3>4. source'[i] = source[i] BY <1>1, <2>1, <2>2 DEF DirectoryKept, Settled
    <3>5. Outlived(i)' BY <2>5, <3>2, <3>3, <3>4 DEF Outlived
    <3> QED BY <1>4, <2>2, <2>3, <3>5 DEF FoundOK
  <2> QED BY <2>1, <2>2, <2>4, <2>5
<1>5. ASSUME NEW id \in Ids, Found(id) PROVE FoundOK'
  <2>1. found' = id /\ Whole(id) /\ UNCHANGED <<source, copy, file, sidecar, making>>
    BY <1>5 DEF Found, directory
  <2>2. Settled(id) BY <2>1 DEF FilesInv, UnusedOK, MakingOK, Whole, Settled
  <2> QED BY <2>1, <2>2 DEF FoundOK, Settled, Whole, Verifies
<1> QED BY StepFound, <1>3, <1>4, <1>5 DEF FoundCases

LEMMA TypesInv == ASSUME RInv, Next PROVE TypeOK'
<1>1. TypeOK /\ FilesInv /\ FoundOK /\ CopiesOpen /\ LiveOK /\ CataloguesOK /\ JournalOK
      /\ ProcessOK /\ PositionOK /\ BackupTypeOK
  BY DEF RInv, GuardInv, TypeOK
<1>2. DirectoryTyped' BY <1>1, StepDirectory, DirectoryTypes
<1>3. live' \in Live BY <1>1, StepLive, LiveTypes
<1>4. RestTyped' BY <1>1, RestTypes
<1>5. found' \in Ids \cup {None} BY <1>1, StepFound DEF FoundCases, Found, BackupTypeOK
<1> QED BY <1>2, <1>3, <1>4, <1>5 DEF TypeOK, BackupTypeOK, DirectoryTyped, RestTyped

-----------------------------------------------------------------------------
(* Positions: the moves of the restore that touch nothing but the journal. *)

\* Moves under a journal that names the pre-restore backup.
Moves(b) ==
  \/ Doing("entered") /\ b \in {"closing", "rolling_back"}
  \/ Doing("staging") /\ b = "staged"
  \/ Doing("installed") /\ b \in {"reopening", "rolling_back"}
  \/ Doing("reopened") /\ b \in {"clearing", "rolling_back"}
  \/ restoring.at \in {"closing", "staging", "staged", "clearing"} /\ b = "rolling_back"
  \/ restoring.at \in {"reconciling", "restarting"} /\ b = "rolling_back"
  \/ Doing("restarting") /\ b = "auditing"
  \/ Doing("rolling_back") /\ b = "excluding"
  \/ Doing("rollback_staging") /\ b = "rollback_staged"
  \/ Doing("reinstalled") /\ b = "rollback_reopening"
  \/ Doing("rollback_reopened") /\ b = "rollback_clearing"
  \/ Doing("rollback_restarting") /\ b = "failing"
  \/ Doing("failed") /\ b = "giving_up"

Replaces(j) == j # None /\ j.phase = "replacing" /\ j.pre = restoring.pre

GuardedInv == GuardInv /\ WritesOK

LEMMA SameFilesSame ==
  ASSUME UNCHANGED <<directory, making>>
  PROVE  /\ \A id \in Ids : Settled(id) => Settled(id)'
         /\ \A id \in Ids : Reliable(id) => Reliable(id)'
         /\ UNCHANGED <<source, copy>>
BY DEF directory, Settled, Reliable, Whole, Verifies

LEMMA MoveKept ==
  ASSUME RInv, NEW b, Moves(b), Goto(b),
         UNCHANGED <<store, directory, making, process, history>>,
         journal' = journal \/ Replaces(journal')
  PROVE  GuardedInv'
<1>1. /\ b \in Forward \cup Rollback /\ restoring.at \in ReplacingAt
      /\ b \in ReplacingAt
  BY DEF Moves, Doing, Forward, Rollback, ReplacingAt, BackedAt
<1>2. /\ restoring'.at = b /\ restoring'.candidate = restoring.candidate
      /\ restoring'.pre = restoring.pre
  BY <1>1, Moved DEF RInv
<1>3. /\ UNCHANGED <<live, pool, exclusive, making, process, acked, source, copy, directory>>
      /\ Current' = Current
  BY DEF store, history, directory, Current
<1>4. Undoable /\ journal.pre = restoring.pre /\ Reliable(restoring.pre)
  BY <1>1 DEF RInv, GuardInv, PositionOK, ReplacingAt
<1>5. journal' # None /\ journal'.phase = "replacing" /\ journal'.pre = restoring.pre
  BY <1>4 DEF Undoable, MustReinstall, Replaces
<1>6. Undoable' BY <1>5 DEF Undoable, MustReinstall
<1>7. Reliable(restoring.pre)'
  BY <1>2, <1>3, <1>4 DEF Reliable, Whole, Verifies, directory
<1>8. LiveOK' /\ JournalOK' /\ CopiesOpen'
  <2>1. JournalOK' BY <1>2, <1>3, <1>5, <1>7 DEF JournalOK, Reliable, Whole, Verifies
  <2>2. CopiesOpen' BY <1>3 DEF RInv, GuardInv, CopiesOpen, Opens
  <2>3. LiveOK' BY <1>3, <1>4, <1>6 DEF RInv, GuardInv, LiveOK, Opens
  <2> QED BY <2>1, <2>2, <2>3
<1>9. ~Doing("idle") /\ process = "up" /\ restoring.candidate \in Ids /\ Settled(restoring.candidate)
  BY <1>1 DEF RInv, GuardInv, PositionOK, Doing, ReplacingAt, BackedAt, Forward, Rollback
<1>10. ProcessOK' BY <1>3, <1>9 DEF ProcessOK
<1>11. PositionOK'
  <2>1. Settled(restoring.candidate)' BY <1>2, <1>3, <1>9 DEF Settled
  <2>2. making # None => making.owner # "restore"
    BY <1>1 DEF RInv, GuardInv, PositionOK, Doing, ReplacingAt, BackedAt
  <2>3. /\ b \in OpenAt => pool = "open"
        /\ b \in ClosedAt => pool = "closed"
        /\ b \in LockedAt => exclusive
    BY DEF Moves, RInv, GuardInv, PositionOK, Doing, OpenAt, ClosedAt, LockedAt
  <2> QED BY <1>1, <1>2, <1>3, <1>5, <1>6, <1>7, <1>9, <2>1, <2>2, <2>3
          DEF PositionOK, Doing, ReplacingAt, BackedAt
<1>12. WritesOK'
  <2>1. /\ HoldsBefore' <=> HoldsBefore
        /\ HoldsWanted' <=> HoldsWanted
        /\ HoldsEither' <=> HoldsEither
        /\ HoldsBack' <=> HoldsBack
        /\ IsWanted' <=> IsWanted
    BY <1>2, <1>3 DEF HoldsBefore, HoldsWanted, HoldsEither, HoldsBack, IsWanted, Wanted, Before
  <2>2. restoring.at \in ClosedAt => pool = "closed"
    BY DEF RInv, GuardInv, PositionOK
  <2>3. /\ b \in BeforeAt => restoring.at \in BeforeAt
        /\ b = "staged" => restoring.at = "staging"
        /\ b \in {"reopening", "clearing"} => restoring.at \in {"installed", "reopened"}
        /\ b = "auditing" => restoring.at = "restarting"
        /\ b \in Reinstalled => restoring.at \in Reinstalled
        /\ b = "excluding" => restoring.at = "rolling_back"
        /\ b \notin {"staging", "installed", "reopened", "reconciling", "restarting",
                     "succeeding", "answering", "rollback_closing", "reinstalled"}
        /\ b = "rolling_back" => restoring.at \in
             {"entered", "closing"} \cup ClosedAt \cup {"reopened", "clearing"} \cup WantedAt
    BY DEF Moves, Doing, BeforeAt, ClosedAt, WantedAt, Reinstalled
  <2>4. WritesOK BY DEF RInv
  <2>5. IsWanted => HoldsEither
    BY DEF IsWanted, HoldsEither, Wanted, Current
  <2>6. HoldsWanted \/ HoldsBefore => HoldsEither BY DEF HoldsWanted, HoldsEither
  <2>7. b = "rolling_back" /\ pool = "open" => HoldsEither
    BY <2>2, <2>3, <2>4, <2>5, <2>6 DEF WritesOK, ClosedAt, BeforeAt, WantedAt
  <2> QED BY <1>2, <1>3, <2>1, <2>2, <2>3, <2>4, <2>7 DEF WritesOK, WantedAt
<1> QED BY <1>8, <1>10, <1>11, <1>12 DEF GuardedInv, GuardInv

\* Folding the log changes nothing of what is read.
LEMMA SameRead ==
  ASSUME live' \in {live, Folded}
  PROVE  Current' = Current /\ live'.foreign = live.foreign
<1>1. CASE live' = live BY <1>1 DEF Current
<1>2. CASE live' = Folded
  <2>1. live'.main = Current /\ live'.wal = None /\ live'.foreign = live.foreign
    BY <1>2 DEF Folded, Current
  <2> QED BY <2>1 DEF Current
<1> QED BY <1>1, <1>2

\* The restore ends, wherever it is.
LEMMA EndedKept ==
  ASSUME RInv, DirectoryStep, ~Doing("idle"), restoring' = Idle, UNCHANGED <<pool, process>>,
         making' = making \/ making' = None,
         making' # None => making.owner # "restore",
         Undoable' => Reliable(journal'.pre),
         live' \in {live, Folded},
         pool = "open" \/ journal' = journal
  PROVE  GuardedInv'
<1>1. restoring'.at = "idle" BY DEF Idle
<1>2. CopiesOpen' /\ \A id \in Ids : Reliable(id) => Reliable(id)'
  BY DEF DirectoryStep, DirectoryKept
<1>3. JournalOK' BY <1>2 DEF JournalOK, Reliable
<1>4. LiveOK'
  <2>1. Opens(Current)' <=> Opens(Current) BY SameRead DEF Opens
  <2> QED BY <2>1, SameRead DEF RInv, GuardInv, LiveOK, Undoable, MustReinstall
<1>5. process = "up" BY DEF RInv, GuardInv, PositionOK
<1>6. ProcessOK' BY <1>5 DEF ProcessOK
<1>7. PositionOK'
  BY <1>1 DEF PositionOK, Doing, OpenAt, ClosedAt, LockedAt, BackedAt, ReplacingAt, Forward, Rollback
<1>8. WritesOK' BY <1>1 DEF WritesOK, BeforeAt, WantedAt, Reinstalled
<1> QED BY <1>2, <1>3, <1>4, <1>6, <1>7, <1>8 DEF GuardedInv, GuardInv

LEMMA EarlyIsNotReplacing ==
  /\ \A p \in {"requested", "candidate_verified", "succeeded"} : Kind(p) # "replacing"
  /\ Kind("pre_restore_backup_verified") = "replacing" /\ Kind("workloads_restarted") = "replacing"
BY PhasesAre

\* At these positions the pool is open, and no creation is the restore's own.
LEMMA AtOpen ==
  ASSUME RInv, restoring.at \in OpenAt \ {"backing_up"}
  PROVE  /\ pool = "open" /\ process = "up" /\ ~Doing("idle")
         /\ making # None => making.owner # "restore"
         /\ Undoable => Reliable(journal.pre)
         /\ restoring.at # "requested" => Reliable(restoring.pre)
BY DEF RInv, GuardInv, PositionOK, JournalOK, Doing, OpenAt, BackedAt, Forward, Rollback

LEMMA GivesUpKept ==
  ASSUME RInv, DirectoryStep,
         NEW a \in {"requested", "backed_up", "quiescing", "giving_up"}, GivesUp(a)
  PROVE  GuardedInv'
<1>1. /\ restoring.at = a /\ journal' \in {None, journal} /\ restoring' = Idle
      /\ UNCHANGED <<live, pool, making, process>>
  BY DEF GivesUp, Doing, Answers
<1>2. /\ pool = "open" /\ ~Doing("idle") /\ (making # None => making.owner # "restore")
      /\ (Undoable => Reliable(journal.pre))
  BY <1>1, AtOpen DEF OpenAt
<1>3. Undoable' => Reliable(journal'.pre) BY <1>1, <1>2 DEF Undoable, MustReinstall
<1> QED BY <1>1, <1>2, <1>3, EndedKept

LEMMA DoneKept == ASSUME RInv, DirectoryStep, Done PROVE GuardedInv'
<1>1. /\ restoring.at = "answering" /\ journal' \in {None, journal} /\ restoring' = Idle
      /\ UNCHANGED <<live, pool, making, process>>
  BY DEF Done, Doing, Answers
<1>2. /\ pool = "open" /\ ~Doing("idle") /\ (making # None => making.owner # "restore")
      /\ (Undoable => Reliable(journal.pre))
  BY <1>1, AtOpen DEF OpenAt
<1>3. Undoable' => Reliable(journal'.pre) BY <1>1, <1>2 DEF Undoable, MustReinstall
<1> QED BY <1>1, <1>2, <1>3, EndedKept

LEMMA AbandonedKept ==
  ASSUME RInv, DirectoryStep,
         \/ Abandoned("requested", "candidate_verified")
         \/ Abandoned("backed_up", "pre_restore_backup_verified")
         \/ Abandoned("restarting", "workloads_restarted")
         \/ Abandoned("succeeding", "succeeded")
  PROVE  GuardedInv'
<1>1. /\ restoring.at \in {"requested", "backed_up", "restarting", "succeeding"}
      /\ restoring' = Idle /\ UNCHANGED <<live, pool, making, process>>
      /\ \/ journal' = journal
         \/ /\ journal' = [phase |-> journal'.phase, pre |-> restoring.pre]
            /\ restoring.at # "requested" \/ journal'.phase # "replacing"
  BY EarlyIsNotReplacing DEF Abandoned, Doing, Answers, Phase
<1>2. /\ pool = "open" /\ ~Doing("idle") /\ (making # None => making.owner # "restore")
      /\ (Undoable => Reliable(journal.pre))
      /\ (restoring.at # "requested" => Reliable(restoring.pre))
  BY <1>1, AtOpen DEF OpenAt
<1>3. Undoable' => Reliable(journal'.pre) BY <1>1, <1>2 DEF Undoable, MustReinstall
<1> QED BY <1>1, <1>2, <1>3, EndedKept

LEMMA SurrendersKept == ASSUME RInv, DirectoryStep, Surrenders PROVE GuardedInv'
<1>1. /\ ~Doing("idle") /\ restoring' = Idle /\ UNCHANGED <<pool, process, journal>>
      /\ making' = IF making # None /\ making.owner = "restore" THEN None ELSE making
      /\ live' \in {live, Folded}
  BY DEF Surrenders, Answers, OpenFailed
<1>2. Undoable' => Reliable(journal'.pre)
  BY <1>1 DEF RInv, GuardInv, JournalOK, Undoable, MustReinstall
<1> QED BY <1>1, <1>2, EndedKept

LEMMA PreRestoreFailedKept ==
  ASSUME RInv, DirectoryStep, PreRestoreFailed PROVE GuardedInv'
<1>1. /\ restoring' = Idle /\ UNCHANGED <<pool, live, process>> /\ journal' \in {None, journal}
      /\ \/ making # None /\ making.owner = "restore" /\ making' = None
         \/ Doing("backing_up") /\ making = None /\ making' = making
  BY DEF PreRestoreFailed, CopyRejected, MakingFailed, backupVars, store
<1>2. restoring.at = "backing_up" /\ pool = "open" /\ ~Doing("idle")
  BY <1>1 DEF RInv, GuardInv, PositionOK, Doing, OpenAt
<1>3. Undoable' => Reliable(journal'.pre)
  BY <1>1 DEF RInv, GuardInv, JournalOK, Undoable, MustReinstall
<1> QED BY <1>1, <1>2, <1>3, EndedKept

-----------------------------------------------------------------------------
(* The surroundings of a restore: clients, creations, reconciliation, audit. *)

LEMMA CommittedEffect ==
  ASSUME BackupTypeOK, Committed
  PROVE  /\ Connected /\ UNCHANGED <<pool, exclusive>>
         /\ live'.main = live.main /\ live'.foreign = live.foreign
         /\ live'.wal = Current' /\ live'.wal # None /\ Written(Current')
         /\ live'.wal.sound = Current.sound
         /\ Current.writes \subseteq Current'.writes
         /\ Current'.writes \subseteq Current.writes \cup acked'
<1>1. PICK c \in Content : /\ Written(c) /\ c.writes \subseteq Current.writes \cup acked'
                           /\ live' = [live EXCEPT !.wal = c]
  BY DEF Committed
<1>2. c # None BY BackupAssumption
<1>3. live'.main = live.main /\ live'.foreign = live.foreign /\ live'.wal = c
  BY <1>1, CurrentTyped
<1>4. Current' = c BY <1>2, <1>3 DEF Current
<1> QED BY <1>1, <1>2, <1>3, <1>4 DEF Committed, Written

\* A reliable backup no longer changes.
LEMMA ReliableSettled ==
  ASSUME FilesInv, NEW id, Reliable(id)
  PROVE  id \in Ids /\ Settled(id)
BY DEF FilesInv, UnusedOK, MakingOK, Reliable, Whole, Settled

\* Moves that commit at the same time.
CommitMoves(b) ==
  \/ b = restoring.at
  \/ Doing("reconciling") /\ b = "restarting"
  \/ Doing("auditing") /\ b = "succeeding"
  \/ Doing("failing") /\ b = "failed"

LEMMA SurroundingsKept ==
  ASSUME RInv, DirectoryStep, UNCHANGED <<pool, exclusive, process, journal>>,
         UNCHANGED live \/ Committed,
         acked \subseteq acked',
         CommitMoves(restoring'.at),
         restoring'.candidate = restoring.candidate, restoring'.pre = restoring.pre,
         making' # None /\ making'.owner = "restore"
           <=> making # None /\ making.owner = "restore",
         making # None /\ making.owner = "restore" => making'.id = making.id,
         restoring.pre # None /\ restoring.at \notin {"idle", "requested"} =>
           \/ copy'[restoring.pre] = copy[restoring.pre]
           \/ copy'[restoring.pre] = Current /\ UNCHANGED live
  PROVE  GuardedInv'
<1> USE DEF RInv, GuardInv
<1> DEFINE b == restoring'.at
<1>1. /\ CopiesOpen' /\ \A id \in Ids : Reliable(id) => Reliable(id)'
      /\ \A id \in Ids : Settled(id) => Settled(id)' /\ copy'[id] = copy[id]
      /\ \A id \in Ids : source[id] # None => source'[id] = source[id]
  BY DEF DirectoryStep, DirectoryKept
<1>2. BackupTypeOK BY DEF TypeOK
<1>3. Undoable' <=> Undoable BY DEF Undoable, MustReinstall
<1>4. JournalOK' BY <1>1, <1>3 DEF JournalOK, Reliable
<1>5. LiveOK'
  <2>1. CASE UNCHANGED live BY <1>3, <2>1 DEF LiveOK, Opens, Current
  <2>2. CASE Committed
    <3>1. pool = "open" /\ Current'.sound = Current.sound
      BY <1>2, <2>2, CommittedEffect DEF Connected
    <3> QED BY <3>1 DEF LiveOK, Opens
  <2> QED BY <2>1, <2>2
<1>6. ProcessOK'
  <2>1. process = "installed" => live' = live
    BY <1>2, CommittedEffect DEF ProcessOK, Connected
  <2>2. process = "installed" => copy'[journal.pre] = copy[journal.pre]
    BY <1>1, ReliableSettled DEF ProcessOK, JournalOK
  <2> QED BY <1>3, <2>1, <2>2 DEF ProcessOK
<1>7. PositionOK'
  <2>1. /\ b \in OpenAt => restoring.at \in OpenAt
        /\ b \in ClosedAt => restoring.at \in ClosedAt
        /\ b \in LockedAt => restoring.at \in LockedAt
        /\ b \in BackedAt => restoring.at \in BackedAt
        /\ b \in ReplacingAt => restoring.at \in ReplacingAt
        /\ b = "idle" <=> restoring.at = "idle"
        /\ b = "requested" <=> restoring.at = "requested"
        /\ b = "backing_up" <=> restoring.at = "backing_up"
    BY DEF CommitMoves, Doing, OpenAt, ClosedAt, LockedAt, BackedAt, ReplacingAt, Forward, Rollback
  <2>2. \A i \in Ids : b # "idle" /\ i = restoring.candidate => Settled(i)'
    BY <1>1, <2>1 DEF PositionOK, Doing
  <2>3. \A i \in Ids : b \in BackedAt /\ i = restoring.pre => Reliable(i)'
    BY <1>1, <2>1 DEF PositionOK
  <2>5. /\ b # "idle" => process = "up" /\ restoring.candidate \in Ids
        /\ b \in BackedAt => restoring.pre \in Ids
    BY <2>1 DEF PositionOK, Doing, Reliable
  <2>4. making # None /\ making.owner = "restore" => source'[making.id] = "pre_restore"
    <3>1. making # None => making.id \in Ids /\ source[making.id] # None
      BY <1>2 DEF FilesInv, MakingOK, BackupTypeOK, Making
    <3> QED BY <1>1, <3>1 DEF PositionOK
  <2> QED BY <1>3, <2>1, <2>2, <2>3, <2>4, <2>5 DEF PositionOK, Doing
<1>8. WritesOK'
  <2>1. /\ Current.writes \subseteq Current'.writes
        /\ Current'.writes \subseteq Current.writes \cup acked'
    BY <1>2, CommittedEffect DEF Current
  <2>2. ~Connected => UNCHANGED live BY <1>2, CommittedEffect
  <2>3. restoring.at # "idle" => copy'[restoring.candidate] = copy[restoring.candidate]
    BY <1>1 DEF PositionOK, Doing
  <2>4. restoring.at # "idle" => Wanted' = Wanted BY <2>3 DEF Wanted
  <2> DEFINE Backs == restoring.at \notin {"idle", "requested"}
  <2>5. restoring.pre # None /\ Backs => Before' \subseteq Before \cup Current'.writes
    <3>1. UNCHANGED live => Current' = Current BY DEF Current
    <3> QED BY <3>1 DEF Before
  <2>6. restoring.at \in BackedAt => Before' = Before
    BY <1>1, ReliableSettled DEF PositionOK, Before
  <2>7. Backs => (HoldsBefore => HoldsBefore') BY <2>1, <2>5 DEF HoldsBefore
  <2>8. Backs => (HoldsWanted => HoldsWanted') /\ (HoldsEither => HoldsEither')
    BY <2>1, <2>4, <2>7 DEF HoldsWanted, HoldsEither
  <2>9. restoring.at \in {"installed", "reopening", "reopened", "clearing"} /\ IsWanted => IsWanted'
    <3>1. restoring.at \in {"installed", "reopening", "reopened", "clearing"} => ~Connected
      BY DEF PositionOK, ClosedAt, LockedAt, Connected
    <3> QED BY <2>2, <2>3, <3>1 DEF IsWanted
  <2>10. Backs => (HoldsBack => HoldsBack')
    <3>1. live'.foreign = live.foreign BY <1>2, CommittedEffect
    <3> QED BY <2>7, <3>1 DEF HoldsBack
  <2>11. restoring.at \in {"staging", "staged"} => live' = live
    BY <2>2 DEF PositionOK, ClosedAt, Connected
  <2>12. /\ b \in BeforeAt => restoring.at \in BeforeAt
         /\ b \in WantedAt => restoring.at \in WantedAt
         /\ b \in Reinstalled => restoring.at \in Reinstalled
         /\ b \notin BeforeAt \cup WantedAt \cup Reinstalled => b = restoring.at
    BY DEF CommitMoves, Doing, BeforeAt, WantedAt, Reinstalled
  <2>13. restoring.at \in BeforeAt \cup WantedAt \cup Reinstalled => Backs
    BY DEF BeforeAt, WantedAt, Reinstalled
  <2> HIDE DEF b
  <2>15. /\ b \in BeforeAt => HoldsBefore'
         /\ b \in WantedAt => HoldsWanted'
         /\ b \in Reinstalled => HoldsBack'
    BY <2>7, <2>8, <2>10, <2>12, <2>13 DEF WritesOK, BeforeAt, WantedAt
  <2>16. b \in {"staging", "staged", "installed", "reopening", "reopened", "clearing",
          "rolling_back", "excluding", "rollback_closing"}
           => b = restoring.at
    BY <2>12 DEF BeforeAt, WantedAt, Reinstalled
  <2>17. b \in {"staging", "staged"} => live'.wal = None
    BY <2>11, <2>16 DEF WritesOK
  <2>18. b \in {"installed", "reopening", "reopened", "clearing"} => IsWanted'
    BY <2>9, <2>16 DEF WritesOK
  <2>19. b \in {"rolling_back", "excluding", "rollback_closing"} /\ pool' = "open" => HoldsEither'
    BY <2>8, <2>16 DEF WritesOK
  <2> QED BY <2>15, <2>17, <2>18, <2>19 DEF WritesOK, b
<1> QED BY <1>1, <1>4, <1>5, <1>6, <1>7, <1>8 DEF GuardedInv

\* A creation keeps its id and its owner from stage to stage.
LEMMA MakingStaysItself ==
  ASSUME BackupTypeOK, FilesInv, CopiesOpen, LiveOK, CataloguesOK, MakingStep
  PROVE  /\ making # None /\ making' # None
         /\ making'.owner = making.owner /\ making'.id = making.id
<1>1. making # None /\ making \in Making
  BY DEF MakingStep, Copied, CopyVerified, FileRenamed, SidecarRenamed, Registered, Selected,
     Expired, FileUnlinked, SidecarUnlinked, At, BackupTypeOK
<1>2. CASE Copied BY <1>1, <1>2, CopiedKept, BackupAssumption
<1>3. CASE CopyVerified \/ FileRenamed \/ SidecarRenamed \/ Registered \/ Expired \/ FileUnlinked
  BY <1>1, <1>3, MakingGoes DEF CopyVerified, FileRenamed, SidecarRenamed, Registered, Expired,
     FileUnlinked
<1>4. CASE Selected BY <1>1, <1>4, SelectedKept, BackupAssumption
<1>5. CASE SidecarUnlinked
  <2>1. making.doomed \ {Victim} \in SUBSET Ids BY <1>1 DEF Making
  <2> QED BY <1>1, <1>5, <2>1, MakingMoved DEF SidecarUnlinked
<1> QED BY <1>1, <1>2, <1>3, <1>4, <1>5 DEF MakingStep

LEMMA MakeKept == ASSUME RInv, DirectoryStep, Make PROVE GuardedInv'
<1>1. /\ MakingStep /\ UNCHANGED <<process, journal, restoring, acked>>
  BY DEF Make, history
<1>2. BackupTypeOK /\ FilesInv /\ CopiesOpen /\ LiveOK /\ CataloguesOK
  BY DEF RInv, GuardInv, TypeOK
<1>3. /\ making # None /\ making' # None
      /\ making'.owner = making.owner /\ making'.id = making.id
  BY <1>1, <1>2, MakingStaysItself
<1>4. (UNCHANGED live \/ Committed) /\ UNCHANGED <<pool, exclusive>>
  BY <1>1, <1>2, MakeLive DEF store, Committed
<1>5. \A i \in Ids : copy'[i] = copy[i] \/ (copy'[i] = Current /\ UNCHANGED live) \/ source[i] = "upload"
  <2>1. CASE Copied
    <3>1. UNCHANGED live BY <2>1 DEF Copied, store
    <3> QED BY <1>2, <2>1, <3>1, CopiedKept
  <2>2. CASE ~Copied
    <3>1. UNCHANGED copy
      BY <1>1, <2>2 DEF MakingStep, CopyVerified, FileRenamed, SidecarRenamed, Registered,
         Selected, Expired, FileUnlinked, SidecarUnlinked, Place, directory
    <3> QED BY <3>1
  <2> QED BY <2>1, <2>2
<1>6. restoring.pre # None /\ restoring.at \notin {"idle", "requested"} =>
        \/ copy'[restoring.pre] = copy[restoring.pre]
        \/ copy'[restoring.pre] = Current /\ UNCHANGED live
  <2>1. restoring.pre # None => restoring.pre \in Ids BY DEF RInv, TypeOK
  <2>2. restoring.pre # None /\ restoring.at \notin {"idle", "requested"}
          => source[restoring.pre] = "pre_restore"
    <3>1. restoring.at \in {"idle", "requested", "backing_up"} \/ restoring.at \in BackedAt
      BY DEF RInv, TypeOK, BackedAt
    <3> QED BY <3>1 DEF RInv, GuardInv, PositionOK, Doing, Reliable
  <2> QED BY <1>5, <2>1, <2>2
<1>7. DirectoryStep /\ acked \subseteq acked' /\ CommitMoves(restoring'.at)
  BY <1>1 DEF CommitMoves
<1> QED BY <1>1, <1>3, <1>4, <1>6, <1>7, SurroundingsKept

\* A creation of an administrator begins or ends.
LEMMA AdminKept ==
  ASSUME RInv, DirectoryStep,
         AdminEnd \/ \E src \in {"manual", "upload"} : AdminBegin(src)
  PROVE  GuardedInv'
<1>1. UNCHANGED <<live, pool, exclusive, process, journal, restoring, acked, copy>>
  BY DEF AdminEnd, AdminBegin, Begin, MadeIt, CopyRejected, MakingFailed, Place, store, directory,
     history
<1>2. /\ ~(making # None /\ making.owner = "restore")
      /\ ~(making' # None /\ making'.owner = "restore")
  <2>1. CASE AdminEnd BY <2>1 DEF AdminEnd, MadeIt, CopyRejected, MakingFailed
  <2>2. ASSUME NEW src \in {"manual", "upload"}, AdminBegin(src)
        PROVE  making = None /\ making'.owner = "admin"
    <3>1. BackupTypeOK /\ FilesInv /\ CopiesOpen BY DEF RInv, GuardInv, TypeOK
    <3>2. Begin("admin", src) /\ making = None BY <2>2 DEF AdminBegin, Begin
    <3> QED BY <3>1, <3>2, BeginKept DEF Evictable
  <2> QED BY <2>1, <2>2
<1>3. CommitMoves(restoring'.at) BY <1>1 DEF CommitMoves
<1> QED BY <1>1, <1>2, <1>3, SurroundingsKept

\* A write of a client, a new setting, an audit event.
LEMMA WritesKept ==
  ASSUME RInv, DirectoryStep, Committed,
         UNCHANGED <<process, journal, making, copy>>, acked \subseteq acked',
         CommitMoves(restoring'.at),
         restoring'.candidate = restoring.candidate, restoring'.pre = restoring.pre
  PROVE  GuardedInv'
<1>1. UNCHANGED <<pool, exclusive>> BY DEF Committed
<1> QED BY <1>1, SurroundingsKept

LEMMA ClientsKept ==
  ASSUME RInv, DirectoryStep,
         \/ \E w \in Writes : ClientWrite(w)
         \/ \E k \in Keeps : SetKeep(k)
  PROVE  GuardedInv'
<1>1. Committed BY ClientCommits, KeepCommits DEF RInv
<1>2. /\ UNCHANGED <<process, journal, making, restoring, copy>> /\ acked \subseteq acked'
  BY DEF ClientWrite, SetKeep, directory
<1>3. CommitMoves(restoring'.at) BY <1>2 DEF CommitMoves
<1> QED BY <1>1, <1>2, <1>3, WritesKept

LEMMA AuditedKept ==
  ASSUME RInv, DirectoryStep, Audited("auditing", "succeeding") \/ Audited("failing", "failed")
  PROVE  GuardedInv'
<1>1. Committed BY AuditCommits DEF Audited, RInv, TypeOK
<1>2. UNCHANGED <<process, journal, making, acked, copy>>
  BY DEF Audited, directory, history
<1>3. \/ restoring.at = "auditing" /\ Goto("succeeding")
      \/ restoring.at = "failing" /\ Goto("failed")
  BY DEF Audited, Doing
<1>4. /\ CommitMoves(restoring'.at)
      /\ restoring'.candidate = restoring.candidate /\ restoring'.pre = restoring.pre
  BY <1>3, Moved DEF RInv, CommitMoves, Doing, Forward, Rollback
<1> QED BY <1>1, <1>2, <1>4, WritesKept

LEMMA ReconcilingKept ==
  ASSUME RInv, DirectoryStep, Reconciling \/ ReconciledAfter PROVE GuardedInv'
<1>1. CASE Reconciling
  <2>1. /\ UNCHANGED live \/ Committed
        /\ UNCHANGED <<pool, exclusive, making, copy, process, journal, restoring, acked>>
    BY <1>1, ReconcilingEffect DEF RInv, TypeOK, history
  <2>2. CommitMoves(restoring'.at) BY <2>1 DEF CommitMoves
  <2> QED BY <2>1, <2>2, SurroundingsKept
<1>2. CASE ReconciledAfter
  <2>1. UNCHANGED <<live, pool, exclusive, making, copy, process, journal, acked>>
    BY <1>2 DEF ReconciledAfter, backupVars, store, directory, history
  <2>2. restoring.at = "reconciling" /\ Goto("restarting")
    BY <1>2 DEF ReconciledAfter, Doing
  <2>3. /\ CommitMoves(restoring'.at)
        /\ restoring'.candidate = restoring.candidate /\ restoring'.pre = restoring.pre
    BY <2>2, Moved DEF RInv, CommitMoves, Doing, Forward
  <2> QED BY <2>1, <2>3, SurroundingsKept
<1> QED BY <1>1, <1>2

-----------------------------------------------------------------------------
(* The steps that close, replace and open the live file. *)

LEMMA ReplacingKept ==
  ASSUME RInv, NEW b \in ReplacingAt, restoring.at \in ReplacingAt, Goto(b),
         UNCHANGED <<directory, making, process, journal>>,
         b \in OpenAt => pool' = "open",
         b \in ClosedAt => pool' = "closed",
         b \in LockedAt => exclusive',
         LiveOK', WritesOK'
  PROVE  GuardedInv'
<1>1. b \in Forward \cup Rollback /\ b \in BackedAt /\ restoring.at \in BackedAt
      /\ b \notin {"idle", "requested", "backing_up"}
      /\ restoring.at \notin {"idle", "requested", "backing_up"}
  BY DEF ReplacingAt, BackedAt, Forward, Rollback
<1>2. /\ restoring'.at = b /\ restoring'.candidate = restoring.candidate
      /\ restoring'.pre = restoring.pre
  BY <1>1, Moved DEF RInv
<1>3. /\ \A id \in Ids : Settled(id) => Settled(id)'
      /\ \A id \in Ids : Reliable(id) => Reliable(id)'
      /\ UNCHANGED <<source, copy>>
  BY SameFilesSame
<1>4. CopiesOpen' BY <1>3 DEF RInv, GuardInv, CopiesOpen, Opens
<1>5. JournalOK' BY <1>3 DEF RInv, GuardInv, JournalOK, Undoable, MustReinstall, Reliable
<1>6. process = "up" /\ restoring.candidate \in Ids /\ Settled(restoring.candidate)
  BY <1>1 DEF RInv, GuardInv, PositionOK, Doing
<1>7. ProcessOK' BY <1>6 DEF ProcessOK
<1>8. PositionOK'
  <2>1. \A i \in Ids : i = restoring.candidate => Settled(i)' BY <1>3, <1>6
  <2>2. restoring.pre \in Ids /\ \A i \in Ids : i = restoring.pre => Reliable(i)'
    BY <1>1, <1>3 DEF RInv, GuardInv, PositionOK, Reliable
  <2>3. Undoable' /\ journal'.pre = restoring.pre
    BY DEF RInv, GuardInv, PositionOK, Undoable, MustReinstall
  <2>4. ~(making # None /\ making.owner = "restore")
    BY <1>1 DEF RInv, GuardInv, PositionOK, Doing
  <2> QED BY <1>1, <1>2, <1>6, <2>1, <2>2, <2>3, <2>4 DEF PositionOK, Doing
<1> QED BY <1>4, <1>5, <1>7, <1>8 DEF GuardedInv, GuardInv

\* At these positions the journal can undo what the restore does, now and after.
LEMMA ReplacingUndoable ==
  ASSUME RInv, restoring.at \in ReplacingAt, UNCHANGED journal
  PROVE  Undoable /\ Undoable'
BY DEF RInv, GuardInv, PositionOK, Undoable, MustReinstall

LEMMA MaintenanceKept ==
  ASSUME RInv,
         \/ MaintenanceBegun("quiescing", "entered")
         \/ MaintenanceBegun("excluding", "rollback_closing")
  PROVE  GuardedInv'
<1>1. /\ exclusive' = TRUE
      /\ UNCHANGED <<live, pool, directory, making, process, journal, acked>>
      /\ \/ restoring.at = "quiescing" /\ Goto("entered")
         \/ restoring.at = "excluding" /\ Goto("rollback_closing")
  BY DEF MaintenanceBegun, Doing, history
<1>2. PICK b \in {"entered", "rollback_closing"} :
        /\ Goto(b)
        /\ \/ restoring.at = "quiescing" /\ b = "entered"
           \/ restoring.at = "excluding" /\ b = "rollback_closing"
  BY <1>1
<1>3. b \in ReplacingAt /\ restoring.at \in ReplacingAt /\ b \in Forward \cup Rollback
  BY <1>2 DEF ReplacingAt, BackedAt, Forward, Rollback
<1>4. /\ restoring'.at = b /\ restoring'.candidate = restoring.candidate
      /\ restoring'.pre = restoring.pre
  BY <1>2, <1>3, Moved DEF RInv
<1>5. UNCHANGED <<source, copy>> BY <1>1 DEF directory
<1>6. Undoable' <=> Undoable BY <1>1 DEF Undoable, MustReinstall
<1>7. LiveOK' BY <1>1, <1>6 DEF RInv, GuardInv, LiveOK, Opens, Current
<1>8. (HoldsBefore' <=> HoldsBefore) /\ (HoldsEither' <=> HoldsEither)
  BY <1>1, <1>4, <1>5 DEF HoldsBefore, HoldsEither, Before, Wanted, Current
<1>9. WritesOK'
  BY <1>1, <1>2, <1>4, <1>8 DEF RInv, WritesOK, BeforeAt, WantedAt, Reinstalled
<1>10. b \in OpenAt => pool = "open"
  BY <1>2 DEF RInv, GuardInv, PositionOK, OpenAt
<1>11. b \notin ClosedAt BY <1>2 DEF ClosedAt
<1> QED BY <1>1, <1>2, <1>3, <1>7, <1>9, <1>10, <1>11, ReplacingKept

LEMMA ClosingKept ==
  ASSUME RInv,
         \/ Closed("closing", "staging") \/ CloseFailed("closing", "rolling_back")
         \/ Closed("rollback_closing", "rollback_staging")
         \/ CloseFailed("rollback_closing", "rollback_staging")
  PROVE  GuardedInv'
<1>1. /\ pool' = "closed" /\ UNCHANGED <<exclusive, directory, making, process, journal>>
      /\ live' = live \/ live' = Folded
      /\ \/ restoring.at = "closing" /\ Goto("staging") /\ live' = Folded
         \/ restoring.at = "closing" /\ Goto("rolling_back")
         \/ restoring.at = "rollback_closing" /\ Goto("rollback_staging")
  BY DEF Closed, CloseFailed, Doing
<1>2. PICK b \in {"staging", "rolling_back", "rollback_staging"} :
        /\ Goto(b)
        /\ \/ restoring.at = "closing" /\ b = "staging" /\ live' = Folded
           \/ restoring.at = "closing" /\ b = "rolling_back"
           \/ restoring.at = "rollback_closing" /\ b = "rollback_staging"
  BY <1>1
<1>3. b \in ReplacingAt /\ restoring.at \in ReplacingAt /\ b \in Forward \cup Rollback
  BY <1>2 DEF ReplacingAt, BackedAt, Forward, Rollback
<1>4. restoring'.at = b BY <1>2, <1>3, Moved DEF RInv
<1>5. Undoable' BY <1>1, <1>3, ReplacingUndoable
<1>6. LiveOK' BY <1>1, <1>5 DEF LiveOK
<1>7. WritesOK'
  <2>1. b = "staging" => live'.wal = None BY <1>2, CurrentTyped DEF RInv, TypeOK, Folded
  <2>2. b \notin BeforeAt \cup WantedAt \cup Reinstalled BY <1>2 DEF BeforeAt, WantedAt, Reinstalled
  <2> QED BY <1>1, <1>2, <1>4, <2>1, <2>2 DEF WritesOK
<1>8. b \notin OpenAt BY <1>2 DEF OpenAt
<1>9. b \in LockedAt => exclusive
  BY <1>2 DEF RInv, GuardInv, PositionOK, LockedAt
<1> QED BY <1>1, <1>2, <1>3, <1>6, <1>7, <1>8, <1>9, ReplacingKept

LEMMA RenamedKept ==
  ASSUME RInv,
         \/ Doing("staged") /\ Renamed("staged", "installed", restoring.candidate)
         \/ Doing("rollback_staged") /\ Renamed("rollback_staged", "reinstalled", restoring.pre)
  PROVE  GuardedInv'
<1>1. /\ UNCHANGED <<pool, exclusive, directory, making, process, journal>>
      /\ \/ /\ restoring.at = "staged" /\ Goto("installed")
            /\ live' \in Installed(copy[restoring.candidate])
         \/ /\ restoring.at = "rollback_staged" /\ Goto("reinstalled")
            /\ live' \in Installed(copy[restoring.pre])
  BY DEF Renamed, Doing
<1>2. PICK b \in {"installed", "reinstalled"} :
        /\ Goto(b)
        /\ \/ /\ restoring.at = "staged" /\ b = "installed"
              /\ live' \in Installed(copy[restoring.candidate])
           \/ /\ restoring.at = "rollback_staged" /\ b = "reinstalled"
              /\ live' \in Installed(copy[restoring.pre])
  BY <1>1
<1>3. b \in ReplacingAt /\ restoring.at \in ReplacingAt /\ b \in Forward \cup Rollback
  BY <1>2 DEF ReplacingAt, BackedAt, Forward, Rollback
<1>4. /\ restoring'.at = b /\ restoring'.candidate = restoring.candidate
      /\ restoring'.pre = restoring.pre
  BY <1>2, <1>3, Moved DEF RInv
<1>5. Undoable' BY <1>1, <1>3, ReplacingUndoable
<1>6. pool' = "closed"
  BY <1>1, <1>2 DEF RInv, GuardInv, PositionOK, ClosedAt
<1>7. BackupTypeOK /\ copy[restoring.candidate] \in Content /\ copy[restoring.pre] \in Content
  <2>1. restoring.candidate \in Ids /\ restoring.pre \in Ids
    BY <1>3 DEF RInv, GuardInv, PositionOK, Doing, Reliable, ReplacingAt, BackedAt, Forward, Rollback
  <2> QED BY <2>1 DEF RInv, TypeOK, BackupTypeOK
<1>8. LiveOK' BY <1>5, <1>6 DEF LiveOK
<1>9. UNCHANGED copy BY <1>1 DEF directory
<1>10. WritesOK'
  <2>1. CASE b = "installed"
    <3>1. live.wal = None BY <1>2, <2>1 DEF RInv, WritesOK
    <3>2. IsWanted' BY <1>2, <1>4, <1>7, <1>9, <2>1, <3>1, InstalledEffect DEF IsWanted
    <3> QED BY <1>4, <2>1, <3>2 DEF WritesOK, BeforeAt, WantedAt, Reinstalled
  <2>2. CASE b = "reinstalled"
    <3>1. ASSUME live.wal = None PROVE HoldsBack'
      <4>1. live'.main = copy[restoring.pre] /\ live'.wal = None
        BY <1>2, <1>7, <2>2, <3>1, InstalledEffect
      <4>2. Current' = copy[restoring.pre] BY <4>1 DEF Current
      <4> QED BY <1>4, <1>9, <4>2 DEF HoldsBefore, HoldsBack, Before
    <3>2. ASSUME live.wal # None PROVE HoldsBack'
      BY <1>2, <1>7, <2>2, <3>2, InstalledEffect DEF HoldsBack
    <3>3. HoldsBack' BY <3>1, <3>2
    <3> QED BY <1>4, <2>2, <3>3 DEF WritesOK, BeforeAt, WantedAt
  <2> QED BY <1>2, <2>1, <2>2
<1>11. b \notin OpenAt BY <1>2 DEF OpenAt
<1>12. b \in LockedAt => exclusive
  BY <1>2 DEF RInv, GuardInv, PositionOK, LockedAt
<1> QED BY <1>1, <1>2, <1>3, <1>6, <1>8, <1>10, <1>11, <1>12, ReplacingKept

LEMMA ReopenedKept ==
  ASSUME RInv,
         \/ Reopened("reopening", "reopened")
         \/ Reopened("rollback_reopening", "rollback_reopened")
  PROVE  GuardedInv'
<1>1. /\ pool' = "open" /\ UNCHANGED <<exclusive, directory, making, process, journal>>
      /\ UNCHANGED live /\ Opens(Current)
      /\ \/ restoring.at = "reopening" /\ Goto("reopened")
         \/ restoring.at = "rollback_reopening" /\ Goto("rollback_reopened")
  BY DEF Reopened, Doing
<1>2. PICK b \in {"reopened", "rollback_reopened"} :
        /\ Goto(b)
        /\ \/ restoring.at = "reopening" /\ b = "reopened"
           \/ restoring.at = "rollback_reopening" /\ b = "rollback_reopened"
  BY <1>1
<1>3. b \in ReplacingAt /\ restoring.at \in ReplacingAt /\ b \in Forward \cup Rollback
  BY <1>2 DEF ReplacingAt, BackedAt, Forward, Rollback
<1>4. /\ restoring'.at = b /\ restoring'.candidate = restoring.candidate
      /\ restoring'.pre = restoring.pre
  BY <1>2, <1>3, Moved DEF RInv
<1>5. Current' = Current BY <1>1 DEF Current
<1>6. LiveOK' BY <1>1, <1>5 DEF LiveOK, Opens
<1>7. UNCHANGED copy BY <1>1 DEF directory
<1>8. (IsWanted' <=> IsWanted) /\ (HoldsBack' <=> HoldsBack)
  BY <1>1, <1>4, <1>5, <1>7 DEF IsWanted, HoldsBack, HoldsBefore, Before
<1>9. WritesOK'
  BY <1>2, <1>4, <1>8 DEF RInv, WritesOK, BeforeAt, WantedAt, Reinstalled
<1>10. b \notin ClosedAt BY <1>2 DEF ClosedAt
<1>11. b \in LockedAt => exclusive
  BY <1>2 DEF RInv, GuardInv, PositionOK, LockedAt
<1> QED BY <1>1, <1>2, <1>3, <1>6, <1>9, <1>10, <1>11, ReplacingKept

LEMMA ClearedKept ==
  ASSUME RInv,
         \/ /\ Cleared("clearing", "reconciling")
            /\ acked' = acked \cap copy[restoring.candidate].writes
         \/ Cleared("rollback_clearing", "rollback_restarting") /\ UNCHANGED acked
  PROVE  GuardedInv'
<1>1. /\ UNCHANGED <<live, pool, directory, making, process, journal>>
      /\ \/ restoring.at = "clearing" /\ Goto("reconciling")
         \/ restoring.at = "rollback_clearing" /\ Goto("rollback_restarting")
  BY DEF Cleared, Doing
<1>2. PICK b \in {"reconciling", "rollback_restarting"} :
        /\ Goto(b)
        /\ \/ restoring.at = "clearing" /\ b = "reconciling"
           \/ restoring.at = "rollback_clearing" /\ b = "rollback_restarting"
  BY <1>1
<1>3. b \in ReplacingAt /\ restoring.at \in ReplacingAt /\ b \in Forward \cup Rollback
  BY <1>2 DEF ReplacingAt, BackedAt, Forward, Rollback
<1>4. /\ restoring'.at = b /\ restoring'.candidate = restoring.candidate
      /\ restoring'.pre = restoring.pre
  BY <1>2, <1>3, Moved DEF RInv
<1>5. Undoable' <=> Undoable BY <1>1 DEF Undoable, MustReinstall
<1>6. LiveOK' BY <1>1, <1>5 DEF RInv, GuardInv, LiveOK, Opens, Current
<1>7. UNCHANGED copy BY <1>1 DEF directory
<1>8. WritesOK'
  <2>1. CASE b = "reconciling"
    <3>1. IsWanted BY <1>2, <2>1 DEF RInv, WritesOK
    <3>2. Current = copy[restoring.candidate] /\ Current' = Current
      BY <1>1, <3>1 DEF IsWanted, Current
    <3>3. HoldsWanted' BY <1>4, <1>7, <3>2 DEF HoldsWanted, Wanted
    <3> QED BY <1>4, <2>1, <3>3 DEF WritesOK, BeforeAt, WantedAt, Reinstalled
  <2>2. CASE b = "rollback_restarting"
    <3>1. HoldsBack BY <1>2, <2>2 DEF RInv, WritesOK, Reinstalled
    <3>2. HoldsBack' BY <1>1, <1>4, <1>7, <3>1 DEF HoldsBack, HoldsBefore, Before, Current
    <3> QED BY <1>4, <2>2, <3>2 DEF WritesOK, BeforeAt, WantedAt
  <2> QED BY <1>2, <2>1, <2>2
<1>9. b \in OpenAt => pool = "open"
  BY <1>2 DEF RInv, GuardInv, PositionOK, OpenAt
<1>10. b \notin ClosedAt /\ b \notin LockedAt BY <1>2 DEF ClosedAt, LockedAt
<1> QED BY <1>1, <1>2, <1>3, <1>6, <1>8, <1>9, <1>10, ReplacingKept

LEMMA GuardedFailedKept == ASSUME RInv, GuardedFailed PROVE GuardedInv'
<1>1. /\ UNCHANGED <<pool, exclusive, directory, making, process, journal, history>>
      /\ Goto("rolling_back")
      /\ live' \in {live, Folded}
  BY DEF GuardedFailed, OpenFailed
<1>2. CASE Doing("reopening")
  <2>2. "rolling_back" \in ReplacingAt /\ restoring.at \in ReplacingAt
    BY <1>2 DEF ReplacingAt, BackedAt, Forward, Rollback, Doing
  <2>3. pool' = "closed" BY <1>1, <1>2 DEF RInv, GuardInv, PositionOK, ClosedAt, Doing
  <2>4. Undoable' BY <1>1, <2>2, ReplacingUndoable
  <2>5. LiveOK' BY <2>3, <2>4 DEF LiveOK
  <2>6. restoring'.at = "rolling_back" BY <1>1, Moved DEF RInv, Rollback
  <2>7. WritesOK' BY <2>3, <2>6 DEF WritesOK, BeforeAt, WantedAt, Reinstalled
  <2>8. "rolling_back" \notin OpenAt \cup ClosedAt \cup LockedAt
    BY DEF OpenAt, ClosedAt, LockedAt
  <2> QED BY <1>1, <2>2, <2>5, <2>7, <2>8, ReplacingKept
<1>3. CASE ~Doing("reopening")
  <2>1. restoring.at \in {"closing", "staging", "staged", "clearing"} /\ UNCHANGED live
    BY <1>3 DEF GuardedFailed, Doing
  <2>2. UNCHANGED <<store, directory, making, process, history>> BY <1>1, <2>1 DEF store
  <2>3. Moves("rolling_back") BY <2>1 DEF Moves
  <2> QED BY <1>1, <2>2, <2>3, MoveKept
<1> QED BY <1>2, <1>3

\* The steps of the restore that only move on, and write the journal or not.
LEMMA JournalMovesKept ==
  ASSUME RInv,
         \/ \E p \in AfterCopy : \E b \in Forward \cup Rollback :
              Moves(b) /\ Lenient(restoring.at, p, b)
         \/ CompletionFailed
         \/ Doing("staging") /\ Staged("staging", "staged", restoring.candidate)
         \/ Doing("rollback_staging") /\ Staged("rollback_staging", "rollback_staged", restoring.pre)
  PROVE  GuardedInv'
<1>1. ASSUME NEW p \in AfterCopy, NEW b \in Forward \cup Rollback,
             Moves(b), Lenient(restoring.at, p, b)
      PROVE  GuardedInv'
  <2>1. /\ Goto(b) /\ JournalOnly /\ (Phase(p) \/ UNCHANGED journal)
    BY <1>1 DEF Lenient, Strict, Failing
  <2>2. Kind(p) = "replacing" BY DEF Kind, AfterCopy, BeforeCopy
  <2>3. Phase(p) => Replaces(journal')
    <3>1. restoring.at \in ReplacingAt
      BY <1>1 DEF Moves, Doing, ReplacingAt, BackedAt, Forward, Rollback
    <3>2. restoring.pre \in Ids \cup {None} BY DEF RInv, TypeOK
    <3>3. ASSUME Phase(p) PROVE journal' \in Journal /\ journal'.phase = "replacing"
                               /\ journal'.pre = restoring.pre
      BY <2>2, <3>2, <3>3, Journalled DEF Phases
    <3>4. None \notin Journal BY RestoreAssumption
    <3> QED BY <3>3, <3>4 DEF Replaces
  <2> QED BY <1>1, <2>1, <2>3, MoveKept DEF JournalOnly, backupVars
<1>2. CASE CompletionFailed
  <2>1. Moves("rolling_back") BY <1>2 DEF CompletionFailed, Moves
  <2> QED BY <1>2, <2>1, MoveKept DEF CompletionFailed
<1>3. CASE Doing("staging") /\ Staged("staging", "staged", restoring.candidate)
  BY <1>3, MoveKept DEF Staged, Moves, Doing, backupVars
<1>4. CASE Doing("rollback_staging") /\ Staged("rollback_staging", "rollback_staged", restoring.pre)
  BY <1>4, MoveKept DEF Staged, Moves, Doing, backupVars
<1> QED BY <1>1, <1>2, <1>3, <1>4

-----------------------------------------------------------------------------
(* The verifications, and the restore's own backup. *)

LEMMA VerifiedKept ==
  ASSUME RInv,
         \/ CandidateVerified \/ PreRestoreVerified
         \/ Strict("succeeding", "succeeded", "answering")
  PROVE  GuardedInv'
<1>1. PICK b \in {"backing_up", "quiescing", "answering"}, p \in Phases :
        /\ Strict(restoring.at, p, b)
        /\ \/ restoring.at = "requested" /\ b = "backing_up" /\ Kind(p) = "early"
           \/ restoring.at = "backed_up" /\ b = "quiescing" /\ Kind(p) = "replacing"
           \/ restoring.at = "succeeding" /\ b = "answering" /\ Kind(p) = "succeeded"
  BY PhasesAre DEF CandidateVerified, PreRestoreVerified, Strict, Doing
<1>2. Goto(b) /\ Phase(p) /\ UNCHANGED <<backupVars, process, history>>
  BY <1>1 DEF Strict, JournalOnly
<1>3. b \in Forward \cup Rollback /\ b \in OpenAt /\ restoring.at \in OpenAt
      /\ b \notin LockedAt \cup ClosedAt
  BY <1>1 DEF Forward, OpenAt, LockedAt, ClosedAt
<1>4. /\ restoring'.at = b /\ restoring'.candidate = restoring.candidate
      /\ restoring'.pre = restoring.pre
  BY <1>2, <1>3, Moved DEF RInv
<1>5. journal' # None /\ journal'.phase = Kind(p) /\ journal'.pre = restoring.pre
  BY <1>2, Journalled, RestoreAssumption DEF RInv, TypeOK
<1>6. /\ UNCHANGED <<live, pool, exclusive, making, process, acked, source, copy, directory>>
      /\ Current' = Current
  BY <1>2 DEF backupVars, store, history, directory, Current
<1>7. pool = "open" /\ process = "up" /\ restoring.candidate \in Ids /\ Settled(restoring.candidate)
  BY <1>3 DEF RInv, GuardInv, PositionOK, Doing, OpenAt
<1>8. CopiesOpen' /\ LiveOK'
  BY <1>6, <1>7 DEF RInv, GuardInv, CopiesOpen, LiveOK, Opens
<1>9. ProcessOK' BY <1>6, <1>7 DEF ProcessOK
<1>10. /\ \A id \in Ids : Settled(id) => Settled(id)'
       /\ \A id \in Ids : Reliable(id) => Reliable(id)'
  BY <1>6, SameFilesSame
<1>11. b \in {"quiescing", "answering"} => Reliable(restoring.pre)
  BY <1>1 DEF RInv, GuardInv, PositionOK, BackedAt, Forward, Rollback
<1>12. Undoable' => b = "quiescing" BY <1>1, <1>5 DEF Undoable, MustReinstall
<1>13. b = "quiescing" => Undoable' BY <1>1, <1>5 DEF Undoable, MustReinstall
<1>14. JournalOK' BY <1>5, <1>10, <1>11, <1>12 DEF JournalOK, Reliable
<1>15. PositionOK'
  <2>1. \A i \in Ids : i = restoring.candidate => Settled(i)' BY <1>7, <1>10
  <2>2. b # "backing_up" =>
          restoring.pre \in Ids /\ \A i \in Ids : i = restoring.pre => Reliable(i)'
    BY <1>1, <1>10, <1>11 DEF Reliable
  <2>3. ~(making # None /\ making.owner = "restore")
    BY <1>1 DEF RInv, GuardInv, PositionOK, Doing
  <2>4. b = "backing_up" => restoring.pre = None
    BY <1>1 DEF RInv, GuardInv, PositionOK, Doing
  <2>5. b \in ReplacingAt => b = "quiescing" BY <1>1 DEF ReplacingAt, BackedAt
  <2>6. b \in BackedAt => b # "backing_up" BY DEF BackedAt
  <2> QED BY <1>1, <1>3, <1>4, <1>5, <1>6, <1>7, <1>13, <2>1, <2>2, <2>3, <2>4, <2>5, <2>6
          DEF PositionOK, Doing
<1>16. WritesOK'
  <2>1. (HoldsBefore' <=> HoldsBefore) /\ (HoldsWanted' <=> HoldsWanted)
    BY <1>4, <1>6 DEF HoldsBefore, HoldsWanted, Before, Wanted
  <2>2. b = "backing_up" => HoldsBefore
    BY <1>1 DEF RInv, GuardInv, PositionOK, Doing, HoldsBefore
  <2>3. b = "quiescing" => HoldsBefore BY <1>1 DEF RInv, WritesOK, BeforeAt
  <2>4. b = "answering" => HoldsWanted BY <1>1 DEF RInv, WritesOK, WantedAt
  <2> QED BY <1>1, <1>4, <2>1, <2>2, <2>3, <2>4 DEF WritesOK, BeforeAt, WantedAt, Reinstalled
<1> QED BY <1>8, <1>9, <1>14, <1>15, <1>16 DEF GuardedInv, GuardInv

LEMMA PreRestoreBegunKept ==
  ASSUME RInv, DirectoryStep, PreRestoreBegun PROVE GuardedInv'
<1>1. BackupTypeOK /\ FilesInv /\ CopiesOpen BY DEF RInv, GuardInv, TypeOK
<1>2. /\ Begin("restore", "pre_restore") /\ restoring.at = "backing_up"
      /\ restoring' = [restoring EXCEPT !.pre = making'.id]
      /\ UNCHANGED <<live, pool, exclusive, process, journal, acked>>
  BY DEF PreRestoreBegun, Begin, Doing, store, history
<1>3. /\ making' # None /\ making'.owner = "restore" /\ making'.id \in Ids
      /\ source'[making'.id] = "pre_restore" /\ copy'[making'.id] = Fresh
  BY <1>1, <1>2, BeginKept
<1>4. /\ restoring'.at = "backing_up" /\ restoring'.candidate = restoring.candidate
      /\ restoring'.pre = making'.id
  BY <1>2 DEF RInv, TypeOK
<1>5. /\ CopiesOpen' /\ \A id \in Ids : Reliable(id) => Reliable(id)'
      /\ \A id \in Ids : Settled(id) => Settled(id)'
  BY DEF DirectoryStep, DirectoryKept
<1>6. JournalOK' BY <1>2, <1>5 DEF RInv, GuardInv, JournalOK, Undoable, MustReinstall, Reliable
<1>7. LiveOK' BY <1>2 DEF RInv, GuardInv, LiveOK, Opens, Current, Undoable, MustReinstall
<1>8. process = "up" /\ pool = "open" /\ restoring.candidate \in Ids /\ Settled(restoring.candidate)
  BY <1>2 DEF RInv, GuardInv, PositionOK, Doing, OpenAt
<1>9. ProcessOK' BY <1>2, <1>8 DEF ProcessOK
<1>10. PositionOK'
  <2>1. \A i \in Ids : i = restoring.candidate => Settled(i)' BY <1>5, <1>8
  <2>2. "backing_up" \notin ClosedAt \cup LockedAt \cup BackedAt \cup ReplacingAt
    BY DEF ClosedAt, LockedAt, BackedAt, ReplacingAt
  <2> QED BY <1>2, <1>3, <1>4, <1>8, <2>1, <2>2 DEF PositionOK, Doing
<1>11. WritesOK'
  <2>1. Before' = {} BY <1>3, <1>4 DEF Before, Fresh
  <2>2. HoldsBefore' BY <2>1 DEF HoldsBefore
  <2> QED BY <1>4, <2>2 DEF WritesOK, WantedAt, Reinstalled
<1> QED BY <1>5, <1>6, <1>7, <1>9, <1>10, <1>11 DEF GuardedInv, GuardInv

LEMMA PreRestoreMadeKept ==
  ASSUME RInv, DirectoryStep, PreRestoreMade PROVE GuardedInv'
<1>1. /\ making # None /\ making.owner = "restore" /\ making.at = "retaining" /\ making' = None
      /\ Goto("backed_up")
      /\ UNCHANGED <<live, pool, exclusive, source, copy, file, sidecar, process, journal, acked>>
  BY DEF PreRestoreMade, MadeIt, At, store, directory, history
<1>2. /\ restoring'.at = "backed_up" /\ restoring'.candidate = restoring.candidate
      /\ restoring'.pre = restoring.pre
  BY <1>1, Moved DEF RInv, Forward
<1>3. restoring.at = "backing_up" /\ restoring.pre = making.id /\ source[making.id] = "pre_restore"
  BY <1>1 DEF RInv, GuardInv, PositionOK, Doing
<1>4. Reliable(restoring.pre)
  <2>1. Whole(making.id) BY <1>1, <1>3 DEF RInv, FilesInv, MakingOK, Evictable
  <2>2. making.id \in Ids BY <1>1 DEF RInv, TypeOK, BackupTypeOK, Making
  <2> QED BY <1>3, <2>1, <2>2 DEF Reliable
<1>5. /\ CopiesOpen' /\ \A id \in Ids : Reliable(id) => Reliable(id)'
      /\ \A id \in Ids : Settled(id) => Settled(id)'
  BY DEF DirectoryStep, DirectoryKept
<1>6. JournalOK' BY <1>1, <1>5 DEF RInv, GuardInv, JournalOK, Undoable, MustReinstall, Reliable
<1>7. LiveOK' BY <1>1 DEF RInv, GuardInv, LiveOK, Opens, Current, Undoable, MustReinstall
<1>8. process = "up" /\ pool = "open" /\ restoring.candidate \in Ids /\ Settled(restoring.candidate)
  BY <1>3 DEF RInv, GuardInv, PositionOK, Doing, OpenAt
<1>9. ProcessOK' BY <1>1, <1>8 DEF ProcessOK
<1>10. PositionOK'
  <2>1. \A i \in Ids : i = restoring.candidate => Settled(i)' BY <1>5, <1>8
  <2>2. restoring.pre \in Ids /\ \A i \in Ids : i = restoring.pre => Reliable(i)'
    BY <1>4, <1>5 DEF Reliable
  <2>3. "backed_up" \notin ClosedAt \cup LockedAt \cup ReplacingAt
    BY DEF ClosedAt, LockedAt, ReplacingAt
  <2> QED BY <1>1, <1>2, <1>8, <2>1, <2>2, <2>3 DEF PositionOK, Doing
<1>11. WritesOK'
  <2>1. HoldsBefore BY <1>3 DEF RInv, WritesOK, BeforeAt
  <2>2. HoldsBefore' BY <1>1, <1>2, <2>1 DEF HoldsBefore, Before, Current
  <2> QED BY <1>2, <2>2 DEF WritesOK, WantedAt, Reinstalled
<1> QED BY <1>5, <1>6, <1>7, <1>9, <1>10, <1>11 DEF GuardedInv, GuardInv

\* A request is taken, or fails and may leave its journal.
LEMMA RequestKept ==
  ASSUME RInv, NEW id \in Ids, Request(id) \/ RequestFailed(id) PROVE GuardedInv'
<1>1. /\ process = "up" /\ Doing("idle") /\ pool = "open" /\ Listed(id)
      /\ journal' = [phase |-> Kind("requested"), pre |-> None]
      /\ UNCHANGED <<live, pool, exclusive, making, process, acked, source, copy, file, sidecar>>
      /\ \/ restoring' = [at |-> "requested", candidate |-> id, pre |-> None]
         \/ restoring' = restoring
  BY DEF Request, RequestFailed, JournalOnly, Connected, backupVars, store, directory, history
<1>2. ~Undoable' BY <1>1, PhasesAre DEF Undoable, MustReinstall
<1>3. Settled(id)
  BY <1>1, CurrentCatalogue DEF RInv, Catalogue, Listed
<1>4. \A i \in Ids : Settled(i) => Settled(i)' BY <1>1 DEF Settled
<1>5. CopiesOpen' /\ JournalOK' BY <1>1, <1>2 DEF RInv, GuardInv, CopiesOpen, JournalOK, Opens
<1>6. LiveOK' BY <1>1 DEF RInv, GuardInv, LiveOK, Opens, Current
<1>7. ProcessOK' BY <1>1 DEF ProcessOK
<1>8. ~(making # None /\ making.owner = "restore")
  BY <1>1 DEF RInv, GuardInv, PositionOK, Doing
<1>9. "idle" \notin OpenAt \cup ClosedAt \cup LockedAt \cup BackedAt \cup ReplacingAt
      /\ "requested" \notin ClosedAt \cup LockedAt \cup BackedAt \cup ReplacingAt
  BY DEF OpenAt, ClosedAt, LockedAt, BackedAt, ReplacingAt, Forward, Rollback
<1>10. PositionOK'
  BY <1>1, <1>3, <1>4, <1>8, <1>9 DEF PositionOK, Doing
<1>11. WritesOK' BY <1>1 DEF WritesOK, WantedAt, BeforeAt, Reinstalled, Doing
<1> QED BY <1>5, <1>6, <1>7, <1>10, <1>11 DEF GuardedInv, GuardInv

-----------------------------------------------------------------------------
(* The start, the stop and the kill: no restore is under way afterwards. *)

LEMMA NoRestoreKept ==
  ASSUME DirectoryStep, restoring'.at = "idle",
         making' # None => making'.owner # "restore",
         LiveOK', JournalOK', ProcessOK'
  PROVE  GuardedInv'
<1>1. CopiesOpen' BY DEF DirectoryStep
<1>2. "idle" \notin OpenAt \cup ClosedAt \cup LockedAt \cup BackedAt \cup ReplacingAt
  BY DEF OpenAt, ClosedAt, LockedAt, BackedAt, ReplacingAt, Forward, Rollback
<1>3. PositionOK' BY <1>2 DEF PositionOK, Doing
<1>4. WritesOK' BY DEF WritesOK, WantedAt, BeforeAt, Reinstalled
<1> QED BY <1>1, <1>3, <1>4 DEF GuardedInv, GuardInv

LEMMA StoppedIdle ==
  ASSUME RInv, process # "up"
  PROVE  restoring.at = "idle" /\ (making # None => making.owner # "restore")
BY DEF RInv, GuardInv, PositionOK, Doing

LEMMA JournalStays ==
  ASSUME RInv, DirectoryStep, journal' = journal \/ journal' = None
  PROVE  JournalOK'
<1>1. \A id \in Ids : Reliable(id) => Reliable(id)' BY DEF DirectoryStep, DirectoryKept
<1> QED BY <1>1 DEF RInv, GuardInv, JournalOK, Undoable, MustReinstall, Reliable

LEMMA StartKept == ASSUME RInv, DirectoryStep, StartStep, ~Reconciling PROVE GuardedInv'
<1> USE DEF RInv, GuardInv
<1>1. BackupTypeOK BY DEF TypeOK
<1>2. process # "up" /\ UNCHANGED <<restoring, making>> /\ (journal' = journal \/ journal' = None)
  BY DEF StartStep, Start, NothingToUndo, PreRestoreReinstalled, RecoveryVerified, Opened, Up,
     StartFailed, backupVars
<1>3. restoring'.at = "idle" /\ (making' # None => making'.owner # "restore")
  BY <1>2, StoppedIdle
<1>4. JournalOK' BY <1>2, JournalStays
<1>5. UNCHANGED live => Current' = Current BY DEF Current
<1>6. LiveOK' /\ ProcessOK'
  <2>1. CASE Start
    <3>1. UNCHANGED <<live, pool, journal>> /\ process = "down" /\ process' = "recovering"
      BY <2>1 DEF Start, backupVars, store
    <3> QED BY <1>5, <3>1 DEF LiveOK, ProcessOK, Undoable, MustReinstall, Opens
  <2>2. CASE NothingToUndo
    <3>1. /\ process = "recovering" /\ process' = "opening" /\ UNCHANGED <<live, pool>>
          /\ journal' = None /\ ~Undoable
      BY <2>2 DEF NothingToUndo, Undoable
    <3> QED BY <1>5, <3>1 DEF LiveOK, ProcessOK, Opens
  <2>3. CASE PreRestoreReinstalled
    <3>1. /\ process = "recovering" /\ process' = "installed" /\ UNCHANGED <<pool, journal, copy>>
          /\ Undoable /\ live' \in Installed(copy[journal.pre])
      BY <2>3 DEF PreRestoreReinstalled, Undoable, directory
    <3>2. copy[journal.pre] \in Content BY <1>1, <3>1 DEF JournalOK, Reliable, BackupTypeOK
    <3>3. live'.main = copy[journal.pre] /\ (live'.wal # None => live'.foreign)
      BY <1>1, <3>1, <3>2, InstalledEffect
    <3>4. Undoable' /\ pool' = "closed" BY <3>1 DEF Undoable, MustReinstall, ProcessOK
    <3>5. LiveOK' BY <3>4 DEF LiveOK
    <3> QED BY <3>1, <3>3, <3>4, <3>5 DEF ProcessOK
  <2>4. CASE RecoveryVerified
    <3>1. /\ process = "installed" /\ process' = "opening" /\ UNCHANGED <<live, pool>>
          /\ journal' = None
      BY <2>4 DEF RecoveryVerified
    <3>2. /\ Undoable /\ live.main = copy[journal.pre] /\ pool = "closed"
          /\ live.wal # None => live.foreign
      BY <3>1 DEF ProcessOK
    <3>3. Opens(live.main) BY <3>2 DEF JournalOK, CopiesOpen, Reliable
    <3>4. Opens(Current) \/ live.foreign BY <3>2, <3>3 DEF Current
    <3>5. LiveOK' BY <1>5, <3>1, <3>2, <3>4 DEF LiveOK, Opens
    <3> QED BY <3>1, <3>5 DEF ProcessOK
  <2>5. CASE Opened
    <3>1. process = "opening" /\ process' = "opening" /\ UNCHANGED <<live, journal>>
          /\ Opens(Current)
      BY <2>5 DEF Opened
    <3>2. journal = None BY <3>1 DEF ProcessOK
    <3> QED BY <1>5, <3>1, <3>2 DEF LiveOK, ProcessOK, Opens
  <2>6. CASE Up
    <3>1. process = "opening" /\ process' = "up" /\ UNCHANGED <<live, journal, pool>>
      BY <2>6 DEF Up, backupVars, store
    <3> QED BY <1>5, <3>1 DEF LiveOK, ProcessOK, Opens, Undoable, MustReinstall
  <2>7. CASE StartFailed
    <3>1. /\ process' = "down" /\ pool' = "closed" /\ UNCHANGED journal
          /\ live' \in {live, Folded}
      BY <2>7 DEF StartFailed, OpenFailed
    <3>2. Current' = Current /\ live'.foreign = live.foreign BY <3>1, SameRead
    <3> QED BY <3>1, <3>2 DEF LiveOK, ProcessOK, Opens, Undoable, MustReinstall
  <2> QED BY <2>1, <2>2, <2>3, <2>4, <2>5, <2>6, <2>7 DEF StartStep
<1> QED BY <1>3, <1>4, <1>6, NoRestoreKept

LEMMA StopKept == ASSUME RInv, DirectoryStep, Killed \/ Shutdown PROVE GuardedInv'
<1>1. /\ restoring'.at = "idle" /\ making' = None
      /\ process' = "down" /\ pool' = "closed" /\ UNCHANGED journal
      /\ live' \in {live, Folded}
  BY DEF Killed, Shutdown, Doing, Idle
<1>2. JournalOK' BY <1>1, JournalStays
<1>3. ProcessOK' BY <1>1 DEF ProcessOK
<1>4. LiveOK'
  <2>1. Current' = Current /\ live'.foreign = live.foreign BY <1>1, SameRead
  <2> QED BY <1>1, <2>1 DEF RInv, GuardInv, LiveOK, Opens, Undoable, MustReinstall
<1> QED BY <1>1, <1>2, <1>3, <1>4, NoRestoreKept

-----------------------------------------------------------------------------
(* The invariant. *)

LEMMA ForwardKept == ASSUME RInv, DirectoryStep, ForwardStep PROVE GuardedInv'
<1>1. ASSUME \/ Strict("entered", "workloads_quiesced", "closing")
             \/ Failing("entered", "workloads_quiesced", "rolling_back")
             \/ Strict("installed", "live_replaced", "reopening")
             \/ Failing("installed", "live_replaced", "rolling_back")
             \/ Strict("reopened", "replacement_verified", "clearing")
             \/ Failing("reopened", "replacement_verified", "rolling_back")
             \/ Strict("restarting", "workloads_restarted", "auditing")
      PROVE  GuardedInv'
  <2>1. \E p \in AfterCopy : \E b \in Forward \cup Rollback :
          Moves(b) /\ Lenient(restoring.at, p, b)
    BY <1>1 DEF Lenient, Strict, Failing, Moves, Doing, AfterCopy, Forward, Rollback
  <2> QED BY <2>1, JournalMovesKept
<1>2. CASE GivesUp("requested") \/ GivesUp("backed_up") \/ GivesUp("quiescing")
  BY <1>2, GivesUpKept
<1> QED BY <1>1, <1>2, VerifiedKept, AbandonedKept, PreRestoreBegunKept, MaintenanceKept,
           ClosingKept, JournalMovesKept, RenamedKept, ReopenedKept, ClearedKept, GuardedFailedKept,
           ReconcilingKept, AuditedKept, DoneKept
        DEF ForwardStep

LEMMA RollbackKept == ASSUME RInv, DirectoryStep, RollbackStep PROVE GuardedInv'
<1>1. ASSUME \/ Lenient("rolling_back", "rollback_started", "excluding")
             \/ Lenient("reinstalled", "pre_restore_reinstalled", "rollback_reopening")
             \/ Lenient("rollback_reopened", "rollback_verified", "rollback_clearing")
             \/ Lenient("rollback_restarting", "workloads_restarted_or_held", "failing")
             \/ Lenient("failed", "failed", "giving_up")
      PROVE  GuardedInv'
  <2>1. \E p \in AfterCopy : \E b \in Forward \cup Rollback :
          Moves(b) /\ Lenient(restoring.at, p, b)
    BY <1>1 DEF Lenient, Strict, Failing, Moves, Doing, AfterCopy, Forward, Rollback
  <2> QED BY <2>1, JournalMovesKept
<1>2. CASE GivesUp("giving_up") BY <1>2, GivesUpKept
<1> QED BY <1>1, <1>2, MaintenanceKept, ClosingKept, JournalMovesKept, RenamedKept, ReopenedKept,
           ClearedKept, AuditedKept
        DEF RollbackStep

LEMMA InvStep == ASSUME RInv, Next PROVE RInv'
<1>1. DirectoryStep
  <2>1. BackupTypeOK /\ FilesInv /\ CopiesOpen /\ LiveOK /\ CataloguesOK
    BY DEF RInv, GuardInv, TypeOK
  <2> QED BY <2>1, DirectoryInv
<1>2. TypeOK' BY TypesInv
<1>3. CataloguesOK' /\ FoundOK' BY <1>1, CataloguesInv, FoundInv
<1>4. GuardedInv'
  BY <1>1, RequestKept, ForwardKept, RollbackKept, SurrendersKept, PreRestoreMadeKept,
     PreRestoreFailedKept, MakeKept, AdminKept, StartKept, ReconcilingKept, StopKept, ClientsKept
     DEF Next, RestoreStep
<1> QED BY <1>1, <1>2, <1>3, <1>4 DEF RInv, DirectoryStep, GuardedInv

LEMMA InvInit == Init => RInv
<1> SUFFICES ASSUME Init PROVE RInv OBVIOUS
<1> USE DEF Init, BackupInit
<1>1. Fresh \in Content /\ Opens(Fresh) BY FreshTyped DEF Fresh, Opens
<1>2. TypeOK
  <2>1. live \in Live BY <1>1 DEF Live
  <2>2. crashes \in 0 .. MaxCrashes BY RestoreAssumption
  <2> QED BY <1>1, <2>1, <2>2, IdleTyped DEF TypeOK, BackupTypeOK
<1>3. FilesInv /\ FoundOK BY DEF FilesInv, UnusedOK, MakingOK, DoomedOK, FoundOK
<1>4. CataloguesOK
  <2>1. Catalogue(Fresh.rows) BY DEF Catalogue, Fresh
  <2> QED BY <2>1 DEF CataloguesOK
<1>5. CopiesOpen /\ LiveOK /\ JournalOK /\ ProcessOK
  BY <1>1 DEF CopiesOpen, LiveOK, JournalOK, ProcessOK, Undoable, Current
<1>6. restoring.at = "idle" BY DEF Idle
<1>7. PositionOK
  BY <1>6 DEF PositionOK, Doing, OpenAt, ClosedAt, LockedAt, BackedAt, ReplacingAt, Forward, Rollback
<1>8. WritesOK BY <1>6 DEF WritesOK, WantedAt, BeforeAt, Reinstalled
<1> QED BY <1>2, <1>3, <1>4, <1>5, <1>7, <1>8 DEF RInv, GuardInv


LEMMA InvStutters == ASSUME RInv, UNCHANGED vars PROVE RInv'
<1> USE DEF vars, backupVars, store, directory, history
<1>1. TypeOK' BY DEF RInv, TypeOK, BackupTypeOK
<1>2. FilesInv' /\ FoundOK'
  BY DEF RInv, FilesInv, UnusedOK, MakingOK, DoomedOK, FoundOK, Settled, Outlived, Stands, Whole,
     Verifies
<1>3. CataloguesOK'
  BY DEF RInv, CataloguesOK, Catalogue, Settled, Stands, Whole, Verifies
<1>4. CopiesOpen' /\ LiveOK' /\ JournalOK' /\ ProcessOK'
  BY DEF RInv, GuardInv, CopiesOpen, LiveOK, JournalOK, ProcessOK, Undoable, MustReinstall,
     Opens, Current, Reliable, Whole, Verifies
<1>5. PositionOK'
  BY DEF RInv, GuardInv, PositionOK, Doing, Settled, Reliable, Whole, Verifies, Undoable,
     MustReinstall
<1>6. WritesOK'
  BY DEF RInv, WritesOK, HoldsBefore, HoldsWanted, HoldsEither, HoldsBack, IsWanted, Before,
     Wanted, Current
<1> QED BY <1>1, <1>2, <1>3, <1>4, <1>5, <1>6 DEF RInv, GuardInv

\* The files, the catalogues, the live database and every position of a restore
\* stay consistent, whatever is interleaved or killed (admin/backup.rs, main.rs).
THEOREM RestoreSound == Spec => []RInv
<1>1. RInv /\ [Next]_vars => RInv' BY InvStep, InvStutters
<1> QED BY <1>1, InvInit, PTL DEF Spec

\* Every variable keeps its type.
THEOREM TypesKept == Spec => []TypeOK
<1>1. RInv => TypeOK BY DEF RInv
<1> QED BY <1>1, RestoreSound, PTL

\* The next start finds the pre-restore backup its journal names, whole
\* (recover_interrupted).
THEOREM RecoverySafe == Spec => []RecoveryHasItsCopy
<1>1. RInv => RecoveryHasItsCopy
  BY DEF RInv, GuardInv, JournalOK, Undoable, Reliable, RecoveryHasItsCopy
<1> QED BY <1>1, RestoreSound, PTL

\* Wherever the program is killed, what it finds opens, or the journal has the next
\* start replace it, or it is one that another database's log was mixed into.
THEOREM MainStaysWhole == Spec => []MainWhole
<1>1. RInv => MainWhole
  BY DEF RInv, GuardInv, LiveOK, Undoable, MainWhole
<1> QED BY <1>1, RestoreSound, PTL

-----------------------------------------------------------------------------
(* What a step may never do. *)

LEMMA StepEffect ==
  ASSUME RInv, Next PROVE BackupTypeOK /\ LiveCases
<1>1. TypeOK /\ FilesInv /\ FoundOK /\ JournalOK /\ ProcessOK /\ PositionOK
  BY DEF RInv, GuardInv
<1> QED BY <1>1, StepLive DEF TypeOK

\* The live database loses a write only under a journal that can undo the loss:
\* only a rename can lose one, and every rename happens between the journal's
\* phases (restore, rollback, recover_interrupted).
THEOREM LossUnderJournal == Spec => ReplacedUnderJournal
<1> DEFINE A == ~(Current.writes \subseteq Current'.writes)
                  => journal # None /\ journal.phase = "replacing"
<1>1. ASSUME RInv, Next PROVE A
  <2>1. BackupTypeOK /\ LiveCases BY <1>1, StepEffect
  <2>2. CASE live' \in {live, Folded}
    <3>1. Current' = Current BY <2>2, SameRead
    <3> QED BY <3>1
  <2>3. CASE Committed BY <2>1, <2>3, CommittedEffect
  <2> QED BY <2>1, <2>2, <2>3 DEF LiveCases, Undoable, MustReinstall
<1>2. UNCHANGED vars => A BY DEF vars, backupVars, store, Current
<1>3. RInv /\ [Next]_vars => A BY <1>1, <1>2
<1> QED BY <1>3, RestoreSound, PTL DEF Spec, ReplacedUnderJournal

\* A row enters the catalogue of an open database only for a whole pair of files,
\* or for the pair reconciliation verified before retention took it, while a newer
\* one stands (reconcile and apply_retention, interleaved).
THEOREM RowsHaveFiles == Spec => CataloguedFromFiles
<1> DEFINE A == pool = "open" /\ pool' = "open" =>
       \A id \in Ids : Current.rows[id] = "absent" /\ Current'.rows[id] = "ready" =>
         \/ Whole(id)
         \/ /\ id = found /\ source[id] \in Evictable
            /\ \E j \in Newer(id, Ids) : source[j] \in Evictable /\ Whole(j)
<1>1. ASSUME RInv, Next PROVE A
  <2>1. BackupTypeOK /\ LiveCases BY <1>1, StepEffect
  <2>2. CASE live' \in {live, Folded}
    <3>1. Current' = Current BY <2>2, SameRead
    <3> QED BY <3>1
  <2>3. CASE Committed
    <3>1. Written(Current') BY <2>1, <2>3, CommittedEffect
    <3> QED BY <3>1 DEF Written, Outlived, Stands, Newer
  <2> QED BY <2>1, <2>2, <2>3 DEF LiveCases
<1>2. UNCHANGED vars => A BY DEF vars, backupVars, store, Current
<1>3. RInv /\ [Next]_vars => A BY <1>1, <1>2
<1> QED BY <1>3, RestoreSound, PTL DEF Spec, CataloguedFromFiles

\* Retention removes an evictable backup only while a newer whole one stands:
\* apply_retention selects from the catalogue, and every catalogue a restore can
\* bring back counts standing files only.
THEOREM NewestSpared == Spec => RetentionSparesNewest
<1> DEFINE A == \A id \in Ids : file[id] = "final" /\ file'[id] # "final" =>
                  /\ source[id] \in Evictable
                  /\ \E j \in Newer(id, Ids) : source[j] \in Evictable /\ Whole(j)
<1>1. ASSUME RInv, Next PROVE A
  <2>1. DirectoryCases BY <1>1, StepDirectory
  <2>2. BackupTypeOK /\ FilesInv BY <1>1 DEF RInv, TypeOK
  <2>3. CASE FileUnlinked
    <3>1. making # None /\ making \in Making /\ making.doomed # {}
      BY <2>2, <2>3 DEF FileUnlinked, At, BackupTypeOK, FilesInv, MakingOK
    <3>2. Victim \in making.doomed /\ Victim \in Ids BY <3>1, VictimIsDoomed
    <3>3. \A i \in Ids : file'[i] # file[i] => i = Victim
      BY <2>2, <2>3, <3>2, Placed DEF FileUnlinked
    <3>4. /\ source[Victim] \in Evictable
          /\ \E k \in Ids : k > Victim /\ Stands(k)
      BY <2>2, <3>1, <3>2 DEF FilesInv, DoomedOK
    <3> HIDE DEF Victim
    <3> QED BY <3>3, <3>4 DEF Newer, Stands
  <2>4. CASE ~FileUnlinked
    <3>1. \A i \in Ids : file[i] = "final" => file'[i] = "final"
      <4>1. CASE Copied \/ CopyRejected
        <5>1. making # None /\ making.at \in {"begun", "copied"} /\ making.id \in Ids
          BY <2>2, <4>1 DEF Copied, CopyRejected, At, BackupTypeOK, Making
        <5>2. file[making.id] # "final" BY <2>2, <5>1 DEF FilesInv, MakingOK
        <5>3. Copied => \A i \in Ids : i # making.id => file'[i] = file[i]
          BY <2>2, <5>1 DEF Copied, BackupTypeOK
        <5>4. CopyRejected => \A i \in Ids : i # making.id => file'[i] = file[i]
          BY <2>2, <5>1, Placed DEF CopyRejected
        <5> QED BY <4>1, <5>2, <5>3, <5>4
      <4>2. CASE CopyVerified \/ FileRenamed \/ SidecarRenamed
        <5>1. making.id \in Ids
          BY <2>2, <4>2 DEF CopyVerified, FileRenamed, SidecarRenamed, At, BackupTypeOK, Making
        <5> QED BY <2>2, <4>2, <5>1, Placed DEF CopyVerified, FileRenamed, SidecarRenamed
      <4>3. CASE SidecarUnlinked
        <5>1. Victim \in Ids
          BY <2>2, <4>3, VictimIsDoomed DEF SidecarUnlinked, At, BackupTypeOK, FilesInv, MakingOK
        <5> QED BY <2>2, <4>3, <5>1, Placed DEF SidecarUnlinked
      <4>4. ASSUME NEW id \in Ids, Discarded(id)
            PROVE  \A i \in Ids : file[i] = "final" => file'[i] = "final"
        BY <2>2, <4>4, Placed DEF Discarded
      <4>5. CASE \/ Untouched \/ Begin("restore", "pre_restore") \/ Begin("admin", "manual")
                 \/ Begin("admin", "upload") \/ Registered \/ Selected \/ Expired
        BY <4>5 DEF Untouched, Begin, Registered, Selected, Expired, directory
      <4> QED BY <2>1, <2>4, <4>1, <4>2, <4>3, <4>4, <4>5 DEF DirectoryCases
    <3> QED BY <3>1
  <2> QED BY <2>3, <2>4
<1>2. UNCHANGED vars => A BY DEF vars, backupVars, directory
<1>3. RInv /\ [Next]_vars => A BY <1>1, <1>2
<1> QED BY <1>3, RestoreSound, PTL DEF Spec, RetentionSparesNewest

\* A restore that ends while the program runs leaves what is read of the live
\* database as it is.
LEMMA AnswersKeepLive ==
  ASSUME RInv, Next, restoring.at # "idle", restoring'.at = "idle", process' = "up"
  PROVE  UNCHANGED <<Current, pool>>
<1> DEFINE G == UNCHANGED pool /\ live' \in {live, Folded}
<1>1. ASSUME NEW b \in Forward \cup Rollback, Goto(b) PROVE FALSE
  <2>1. restoring'.at = b BY <1>1, Moved DEF RInv
  <2>2. "idle" \notin Forward \cup Rollback BY DEF Forward, Rollback
  <2> QED BY <2>1, <2>2
<1>2. UNCHANGED restoring => FALSE OBVIOUS
<1>3. ASSUME NEW id \in Ids, Request(id) \/ RequestFailed(id) PROVE FALSE
  BY <1>3 DEF Request, RequestFailed, Doing
<1>4. Surrenders => G BY DEF Surrenders, OpenFailed
<1>5. PreRestoreMade => FALSE BY <1>1 DEF PreRestoreMade, Forward
<1>6. PreRestoreFailed => G
  BY DEF PreRestoreFailed, CopyRejected, MakingFailed, backupVars, store
<1>7. ForwardStep => G
  <2>1. PreRestoreBegun => FALSE
    <3>1. PreRestoreBegun => restoring'.at = restoring.at
      BY DEF PreRestoreBegun, RInv, TypeOK
    <3> QED BY <3>1
  <2>2. ASSUME ForwardStep, ~PreRestoreBegun
        PROVE  G \/ \E b \in Forward \cup Rollback : Goto(b)
    BY <2>2 DEF ForwardStep, CandidateVerified, GivesUp, Abandoned, PreRestoreVerified,
       MaintenanceBegun, Strict, Failing, Closed, CloseFailed, Staged, Renamed, Reopened, Cleared,
       GuardedFailed, ReconciledAfter, CompletionFailed, Audited, Done, Forward, Rollback
  <2> QED BY <1>1, <2>1, <2>2
<1>8. RollbackStep => G
  <2>1. ASSUME RollbackStep PROVE G \/ \E b \in Rollback : Goto(b)
    BY <2>1 DEF RollbackStep, Lenient, Strict, Failing, GivesUp, MaintenanceBegun, Closed,
       CloseFailed, Staged, Renamed, Reopened, Cleared, Audited, Rollback
  <2> QED BY <1>1, <2>1
<1>9. ASSUME \/ Make \/ AdminEnd \/ \E src \in {"manual", "upload"} : AdminBegin(src)
             \/ \E w \in Writes : ClientWrite(w)
             \/ \E k \in Keeps : SetKeep(k)
      PROVE  FALSE
  BY <1>2, <1>9 DEF Make, AdminEnd, AdminBegin, ClientWrite, SetKeep
<1>10. StartStep => FALSE
  BY <1>2 DEF StartStep, Start, NothingToUndo, PreRestoreReinstalled, RecoveryVerified, Opened, Up,
     Reconciling, StartFailed
<1>11. Killed \/ Shutdown => FALSE BY DEF Killed, Shutdown
<1>12. G BY <1>3, <1>4, <1>5, <1>6, <1>7, <1>8, <1>9, <1>10, <1>11 DEF Next, RestoreStep
<1> QED BY <1>12, SameRead

\* A restore that answers Ok leaves the candidate and what was written since; one
\* that fails after its own backup leaves the original or the replacement, or no
\* open database (SPEC 7, Recovery), or what its rollback put back beside a log that
\* a failed checkpoint left.
THEOREM AnswersAreTrue == Spec => AnswerIsTrue
<1> DEFINE A ==
      restoring.at # "idle" /\ restoring'.at = "idle" /\ process' = "up" =>
       LET cand == copy[restoring.candidate].writes
           live_now == Current'.writes
       IN  IF Doing("answering")
           THEN cand \subseteq live_now /\ live_now \subseteq cand \cup acked
           ELSE \/ pool' = "closed"
                \/ restoring.pre = None
                \/ restoring.at \in Reinstalled /\ live.foreign
                \/ cand \subseteq live_now
                \/ copy[restoring.pre].writes \subseteq live_now
<1>1. ASSUME RInv, Next, restoring.at # "idle", restoring'.at = "idle", process' = "up"
      PROVE  IF Doing("answering")
             THEN Wanted \subseteq Current'.writes /\ Current'.writes \subseteq Wanted \cup acked
             ELSE \/ pool' = "closed"
                  \/ restoring.pre = None
                  \/ restoring.at \in Reinstalled /\ live.foreign
                  \/ Wanted \subseteq Current'.writes
                  \/ Before \subseteq Current'.writes
  <2>1. UNCHANGED <<Current, pool>> BY <1>1, AnswersKeepLive
  <2>2. WritesOK BY <1>1 DEF RInv
  <2>3. CASE Doing("answering")
    <3>1. HoldsWanted BY <2>2, <2>3 DEF WritesOK, WantedAt, Doing
    <3> QED BY <2>1, <2>3, <3>1 DEF HoldsWanted
  <2>4. CASE ~Doing("answering") /\ pool # "closed"
    <3>1. restoring.at \in Forward \cup Rollback BY <1>1 DEF RInv, TypeOK
    <3>2. restoring.at \notin ClosedAt
      BY <1>1, <2>4 DEF RInv, GuardInv, PositionOK
    <3>3. pool = "open" BY <1>1, <2>4 DEF RInv, TypeOK, BackupTypeOK
    <3>4. \/ restoring.at = "requested"
          \/ restoring.at \in BeforeAt
          \/ restoring.at \in {"reopened", "clearing"}
          \/ restoring.at \in WantedAt
          \/ restoring.at \in {"rolling_back", "excluding", "rollback_closing"}
          \/ restoring.at \in Reinstalled
      BY <3>1, <3>2 DEF Forward, Rollback, ClosedAt, BeforeAt, WantedAt, Reinstalled
    <3>5. CASE restoring.at = "requested"
      BY <1>1, <2>4, <3>5 DEF RInv, GuardInv, PositionOK, Doing
    <3>6. CASE restoring.at \in Reinstalled
      BY <2>1, <2>2, <2>4, <3>6 DEF WritesOK, HoldsBack, HoldsBefore
    <3>7. restoring.at \notin {"requested"} \cup Reinstalled => HoldsEither
      <4>1. IsWanted => HoldsEither BY DEF IsWanted, HoldsEither, Wanted, Current
      <4>2. HoldsWanted \/ HoldsBefore => HoldsEither BY DEF HoldsWanted, HoldsEither
      <4> QED BY <2>2, <3>3, <3>4, <4>1, <4>2 DEF WritesOK
    <3> QED BY <2>1, <2>4, <3>5, <3>6, <3>7 DEF HoldsEither, HoldsBefore
  <2> QED BY <2>1, <2>3, <2>4
<1>2. RInv /\ Next => A BY <1>1 DEF Wanted, Before
<1>3. UNCHANGED vars => A BY DEF vars
<1>4. RInv /\ [Next]_vars => A BY <1>2, <1>3
<1> QED BY <1>4, RestoreSound, PTL DEF Spec, AnswerIsTrue
=============================================================================
