--------------------------- MODULE WebApiStateProofs ---------------------------
(***************************************************************************)
(* Proofs about WebApi for any handlers, adapters, settings, capacities    *)
(* and lifetimes: every part of the state is well formed and bounded, no   *)
(* window sees more password checks than the limit, and the audit trail    *)
(* counts the versions of the tables.                                      *)
(*                                                                         *)
(* The argument builds on AdminInv and TokensInv.  What a handler carries  *)
(* from step to step stays usable (FieldsOK), so the rows and the maps it  *)
(* writes are well formed (StoreOK, MapsOK).  The attempts kept are the    *)
(* last of those admitted, and the ones given up are a window old, so      *)
(* admissions MaxAttempts apart are nearly a window apart (RateInv).       *)
(***************************************************************************)
EXTENDS WebApiProofs, SequenceTheorems, FiniteSetTheorems, WellFoundedInduction

Snapshots == [Keys.adapters -> Buildable]

\* What a handler of each kind carries, ids up to n and clock readings up to c.
Carried(q, n, c) ==
  /\ q.op = "logout" => q.cred \in 1 .. n
  /\ q.op \in {"login", "reauthenticate"} =>
       /\ q.at \in {"consume", "limit", "finish"} /\ q.right \in BOOLEAN
       /\ q.cred \in 0 .. n
       /\ q.now \in Nat /\ q.now <= c /\ c <= q.now + MaxLag
  /\ q.op \in Tables =>
       /\ q.key \in Keys[q.op] /\ q.value \in Offered(q.op, q.key) /\ q.expected \in Nat \ {0}
       /\ IF q.op = "adapters" /\ q.at # "waiting" THEN q.built \in Snapshots ELSE q.built = None

FieldsOK == \A r \in Requests : Carried(request[r], issued, clock)

CountersOK ==
  /\ clock \in Times
  /\ begun \in 0 .. MaxRequests
  /\ raced \in BOOLEAN /\ drifted \in BOOLEAN

WellMapped(entries, capacity, Entry) ==
  /\ entries = [i \in DOMAIN entries |-> entries[i]]
  /\ \A i \in DOMAIN entries : entries[i] \in Entry
  /\ IsFiniteSet(DOMAIN entries) /\ Cardinality(DOMAIN entries) <= capacity

Tokens == [expires : Nat]
Sessions == [expires : Nat, proved : Nat]

MapsOK ==
  /\ mode \in Modes
  /\ WellMapped(tokens, MaxTokens, Tokens)
  /\ WellMapped(sessions, MaxSessions, Sessions)
  /\ DOMAIN tokens \cap DOMAIN sessions = {}

StoreOK == AdminTypeOK

\* How many of the admitted ones check_rate_limit has given up.
GivenUp == Len(admitted) - Len(attempts)

RateInv ==
  /\ attempts \in Seq(Nat) /\ admitted \in Seq(Nat)
  /\ Len(attempts) <= MaxAttempts /\ Len(attempts) <= Len(admitted)
  /\ \A i \in 1 .. Len(attempts) : attempts[i] = admitted[GivenUp + i]
  /\ \A k \in 1 .. GivenUp : admitted[k] + Window <= clock
  /\ \A k, j \in 1 .. Len(admitted) :
       k + MaxAttempts <= j => admitted[k] + Window <= admitted[j] + MaxLag

Counts(d) == IsFiniteSet(Reached(d)) /\ d.audit["succeeded"] = Cardinality(Reached(d))
AuditInv == Counts(db) /\ Counts(saved)

StateInv == CountersOK /\ FieldsOK /\ MapsOK /\ StoreOK /\ RateInv /\ AuditInv

-----------------------------------------------------------------------------
(* The maps of the session manager. *)

\* Removing entries keeps a map well formed (retain, remove).
LEMMA RestrictionKeeps ==
  ASSUME NEW entries, NEW capacity \in Nat, NEW Entry, WellMapped(entries, capacity, Entry),
         NEW S \in SUBSET DOMAIN entries
  PROVE  WellMapped(Restrict(entries, S), capacity, Entry) /\ DOMAIN Restrict(entries, S) = S
<1>1. Restrict(entries, S) = [i \in S |-> entries[i]]
  BY DEF Restrict
<1>2. IsFiniteSet(S) /\ Cardinality(S) <= Cardinality(DOMAIN entries)
  BY FS_Subset DEF WellMapped
<1>3. Cardinality(S) \in Nat /\ Cardinality(DOMAIN entries) \in Nat
  BY <1>2, FS_CardinalityType DEF WellMapped
<1>4. Cardinality(S) <= capacity
  BY <1>2, <1>3 DEF WellMapped
<1>5. \A i \in S : entries[i] \in Entry
  BY DEF WellMapped
<1> QED
  BY <1>1, <1>2, <1>4, <1>5 DEF WellMapped

LEMMA RemovalsKeep ==
  ASSUME NEW entries, NEW capacity \in Nat, NEW Entry, WellMapped(entries, capacity, Entry),
         NEW now, NEW i
  PROVE  /\ WellMapped(Unexpired(entries, now), capacity, Entry)
         /\ WellMapped(Without(entries, i), capacity, Entry)
         /\ DOMAIN Without(entries, i) = DOMAIN entries \ {i}
<1>1. {j \in DOMAIN entries : entries[j].expires > now} \in SUBSET DOMAIN entries
  OBVIOUS
<1>2. DOMAIN entries \ {i} \in SUBSET DOMAIN entries
  OBVIOUS
<1>3. WellMapped(Unexpired(entries, now), capacity, Entry)
  BY <1>1, RestrictionKeeps DEF Unexpired
<1> QED
  BY <1>2, <1>3, RestrictionKeeps DEF Without

\* Eviction leaves room for one more (evict_one_at_capacity).
LEMMA EvictionMakesRoom ==
  ASSUME NEW entries, NEW capacity \in Nat \ {0}, NEW Entry, WellMapped(entries, capacity, Entry),
         NEW kept \in Evicted(entries, capacity)
  PROVE  WellMapped(kept, capacity, Entry) /\ Cardinality(DOMAIN kept) < capacity
<1>0. /\ IsFiniteSet(DOMAIN entries) /\ Cardinality(DOMAIN entries) \in Nat
      /\ Cardinality(DOMAIN entries) <= capacity
  BY FS_CardinalityType DEF WellMapped
<1>1. CASE Cardinality(DOMAIN entries) >= capacity
  <2>1. PICK i \in DOMAIN entries : kept = Without(entries, i)
    BY <1>1 DEF Evicted
  <2>2. WellMapped(kept, capacity, Entry) /\ DOMAIN kept = DOMAIN entries \ {i}
    BY <2>1, RemovalsKeep
  <2>3. Cardinality(DOMAIN kept) = Cardinality(DOMAIN entries) - 1
    BY <1>0, <2>2, FS_RemoveElement
  <2> QED
    BY <1>0, <2>2, <2>3
<1>2. CASE ~(Cardinality(DOMAIN entries) >= capacity)
  <2>1. kept = entries
    BY <1>2 DEF Evicted
  <2> QED
    BY <1>0, <1>2, <2>1
<1> QED
  BY <1>1, <1>2

\* Into that room an entry fits.
LEMMA InsertionKeeps ==
  ASSUME NEW kept, NEW capacity \in Nat \ {0}, NEW Entry, WellMapped(kept, capacity, Entry),
         Cardinality(DOMAIN kept) < capacity, NEW i, NEW v \in Entry
  PROVE  WellMapped(With(kept, i, v), capacity, Entry)
<1>1. With(kept, i, v) = [j \in DOMAIN kept \cup {i} |-> IF j = i THEN v ELSE kept[j]]
  BY DEF With
<1>2. IsFiniteSet(DOMAIN kept) /\ Cardinality(DOMAIN kept) \in Nat
  BY FS_CardinalityType DEF WellMapped
<1>3. /\ IsFiniteSet(DOMAIN kept \cup {i})
      /\ Cardinality(DOMAIN kept \cup {i}) \in {Cardinality(DOMAIN kept), Cardinality(DOMAIN kept) + 1}
  BY <1>2, FS_AddElement
<1>4. Cardinality(DOMAIN kept \cup {i}) <= capacity
  BY <1>2, <1>3
<1>5. \A j \in DOMAIN kept : kept[j] \in Entry
  BY DEF WellMapped
<1> QED
  BY <1>1, <1>3, <1>4, <1>5 DEF WellMapped

\* The whole insertion (issue_pre_session_token, login).
LEMMA AdmissionKeeps ==
  ASSUME NEW entries, NEW capacity \in Nat \ {0}, NEW Entry, WellMapped(entries, capacity, Entry),
         NEW now, NEW kept \in Evicted(Unexpired(entries, now), capacity), NEW i, NEW v \in Entry
  PROVE  WellMapped(With(kept, i, v), capacity, Entry)
<1>1. WellMapped(Unexpired(entries, now), capacity, Entry)
  BY RemovalsKeep
<1>2. WellMapped(kept, capacity, Entry) /\ Cardinality(DOMAIN kept) < capacity
  <2> DEFINE live == Unexpired(entries, now)
  <2> HIDE DEF live
  <2>1. WellMapped(live, capacity, Entry) /\ kept \in Evicted(live, capacity)
    BY <1>1 DEF live
  <2> QED
    BY <2>1, EvictionMakesRoom
<1> QED
  BY <1>2, InsertionKeeps

\* No entries are well formed, too (a start).
LEMMA EmptyMap ==
  ASSUME NEW capacity \in Nat, NEW Entry
  PROVE  WellMapped(NoEntry, capacity, Entry) /\ DOMAIN NoEntry = {}
  BY FS_EmptySet DEF WellMapped, NoEntry

\* The limits are natural numbers (SessionAssumption, ApiAssumption).
LEMMA Limits ==
  /\ MaxTokens \in Nat \ {0} /\ MaxSessions \in Nat \ {0} /\ MaxAttempts \in Nat \ {0}
  /\ Window \in Nat \ {0} /\ TokenTTL \in Nat \ {0} /\ SessionTTL \in Nat \ {0}
  /\ MaxRequests \in Nat /\ MaxTime \in Nat /\ MaxLag \in Nat /\ MaxLag < Window
  BY SessionAssumption, ApiAssumption

\* Both maps together, as a step may leave them.
BothMapped(t, s) ==
  /\ WellMapped(t, MaxTokens, Tokens)
  /\ WellMapped(s, MaxSessions, Sessions)
  /\ DOMAIN t \cap DOMAIN s = {}

\* Fewer entries than before stay well formed and apart.
LEMMA Noticing ==
  ASSUME MapsOK, NEW s, NEW now, Noticed(s, now)
  PROVE  WellMapped(sessions', MaxSessions, Sessions) /\ DOMAIN sessions' \subseteq DOMAIN sessions
<1>1. WellMapped(sessions, MaxSessions, Sessions) /\ MaxSessions \in Nat
  BY Limits DEF MapsOK
<1>2. CASE sessions' = Without(sessions, s)
  BY <1>1, <1>2, RemovalsKeep
<1>3. CASE sessions' = sessions
  BY <1>1, <1>3
<1> QED
  BY <1>2, <1>3 DEF Noticed

\* A token handed out (issue_pre_session_token).
LEMMA Issuing ==
  ASSUME MapsOK, TokensInv, NEW s, NEW now \in Nat, Noticed(s, now), Issue(now)
  PROVE  BothMapped(tokens', sessions')
<1>1. WellMapped(tokens, MaxTokens, Tokens) /\ MaxTokens \in Nat \ {0} /\ TokenTTL \in Nat
  BY Limits DEF MapsOK
<1>2. PICK kept \in Evicted(Unexpired(tokens, now), MaxTokens) :
        tokens' = With(kept, issued + 1, [expires |-> now + TokenTTL])
  BY DEF Issue
<1>3. [expires |-> now + TokenTTL] \in Tokens
  BY <1>1 DEF Tokens
<1>4. WellMapped(tokens', MaxTokens, Tokens)
  BY <1>1, <1>2, <1>3, AdmissionKeeps
<1>5. DOMAIN tokens' \subseteq DOMAIN tokens \cup {issued + 1}
  <2>1. DOMAIN Unexpired(tokens, now) \subseteq DOMAIN tokens
    BY Narrows
  <2>2. DOMAIN kept \subseteq DOMAIN Unexpired(tokens, now)
    BY EvictionNarrows
  <2>3. DOMAIN tokens' = DOMAIN kept \cup {issued + 1}
    BY <1>2, Inserts
  <2> QED
    BY <2>1, <2>2, <2>3
<1>6. issued + 1 \notin DOMAIN sessions
  BY DEF TokensInv, Ids
<1>7. WellMapped(sessions', MaxSessions, Sessions) /\ DOMAIN sessions' \subseteq DOMAIN sessions
  BY Noticing
<1> QED
  BY <1>4, <1>5, <1>6, <1>7 DEF BothMapped, MapsOK

\* A session opened (login).
LEMMA Opening ==
  ASSUME MapsOK, TokensInv, NEW now \in Nat, Open(now), tokens' = tokens
  PROVE  BothMapped(tokens', sessions')
<1>1. /\ WellMapped(sessions, MaxSessions, Sessions)
      /\ MaxSessions \in Nat \ {0} /\ SessionTTL \in Nat
  BY Limits DEF MapsOK
<1>2. PICK kept \in Evicted(Unexpired(sessions, now), MaxSessions) :
        sessions' = With(kept, issued + 1, [expires |-> now + SessionTTL, proved |-> now])
  BY DEF Open
<1>3. [expires |-> now + SessionTTL, proved |-> now] \in Sessions
  BY <1>1 DEF Sessions
<1>4. WellMapped(sessions', MaxSessions, Sessions)
  BY <1>1, <1>2, <1>3, AdmissionKeeps
<1>5. DOMAIN sessions' \subseteq DOMAIN sessions \cup {issued + 1}
  <2>1. DOMAIN Unexpired(sessions, now) \subseteq DOMAIN sessions
    BY Narrows
  <2>2. DOMAIN kept \subseteq DOMAIN Unexpired(sessions, now)
    BY EvictionNarrows
  <2>3. DOMAIN sessions' = DOMAIN kept \cup {issued + 1}
    BY <1>2, Inserts
  <2> QED
    BY <2>1, <2>2, <2>3
<1>6. issued + 1 \notin DOMAIN tokens
  BY DEF TokensInv, Ids
<1> QED
  BY <1>4, <1>5, <1>6 DEF BothMapped, MapsOK

\* A session whose password was checked again (reauthenticate).
LEMMA Proving ==
  ASSUME MapsOK, NEW s, NEW now \in Nat, Prove(s, now)
  PROVE  WellMapped(sessions', MaxSessions, Sessions) /\ DOMAIN sessions' = DOMAIN sessions
<1>1. CASE sessions' = sessions
  BY <1>1 DEF MapsOK
<1>2. CASE Live(s, now) /\ sessions' = [sessions EXCEPT ![s].proved = now]
  <2>1. s \in DOMAIN sessions /\ sessions[s] \in Sessions
    BY <1>2 DEF Live, MapsOK, WellMapped
  <2>2. [sessions[s] EXCEPT !.proved = now] \in Sessions
    BY <2>1 DEF Sessions
  <2>3. /\ sessions' = [i \in DOMAIN sessions |-> sessions'[i]]
        /\ DOMAIN sessions' = DOMAIN sessions
        /\ \A i \in DOMAIN sessions : sessions'[i] = IF i = s THEN [sessions[s] EXCEPT !.proved = now]
                                                     ELSE sessions[i]
    BY <1>2, <2>1
  <2> QED
    BY <2>2, <2>3 DEF MapsOK, WellMapped
<1> QED
  BY <1>1, <1>2 DEF Prove

\* Every step keeps the maps well formed and within their capacity.
LEMMA MapsStep ==
  ASSUME CountersOK, FieldsOK, MapsOK, TokensInv, [Next]_vars
  PROVE  MapsOK'
<1>0. MaxTokens \in Nat /\ MaxSessions \in Nat /\ clock \in Nat
  BY Limits DEF CountersOK, Times
<1>1. ASSUME mode' = mode, BothMapped(tokens', sessions') PROVE MapsOK'
  BY <1>1 DEF MapsOK, BothMapped
<1>2. ASSUME UNCHANGED <<mode, tokens, sessions>> PROVE MapsOK'
  BY <1>2 DEF MapsOK
<1>3. ASSUME NEW r \in Requests, Handler(r) PROVE MapsOK'
  <2>1. CASE TokenConsumed(r)
    <3>1. /\ WellMapped(tokens', MaxTokens, Tokens) /\ DOMAIN tokens' \subseteq DOMAIN tokens
          /\ UNCHANGED <<mode, sessions>>
      BY <1>0, <2>1, RemovalsKeep DEF TokenConsumed, Consume, MapsOK
    <3> QED
      BY <3>1 DEF MapsOK
  <2>2. CASE PasswordAccepted(r)
    <3>0. CheckAt(r, "finish") /\ request[r].now \in Nat
      BY <2>2 DEF PasswordAccepted, CheckAt, FieldsOK, Carried
    <3>1. CASE Open(request[r].now)
      BY <1>1, <2>2, <3>0, <3>1, Opening DEF PasswordAccepted
    <3>2. CASE Prove(request[r].cred, request[r].now)
      <4>1. WellMapped(sessions', MaxSessions, Sessions) /\ DOMAIN sessions' = DOMAIN sessions
        BY <3>0, <3>2, Proving
      <4> QED
        BY <2>2, <4>1 DEF PasswordAccepted, MapsOK
    <3> QED
      BY <2>2, <3>1, <3>2 DEF PasswordAccepted
  <2>3. CASE LoggedOut(r)
    <3>1. /\ WellMapped(sessions', MaxSessions, Sessions) /\ DOMAIN sessions' \subseteq DOMAIN sessions
          /\ UNCHANGED <<mode, tokens>>
      BY <1>0, <2>3, RemovalsKeep DEF LoggedOut, Logout, MapsOK
    <3> QED
      BY <3>1 DEF MapsOK
  <2> QED
    BY <1>2, <1>3, <2>1, <2>2, <2>3
    DEF Handler, LoginBegun, ReauthenticationBegun, RateChecked, PasswordRefused, LogoutBegun,
        UpdateBegun, UpdateChecked, UpdateWritten, UpdateFailed, Published, RestoreBegun,
        Restored, Dropped, KeepSessions, sessionVars
<1>4. CASE SessionAsked
  BY <1>0, <1>1, <1>4, Issuing DEF SessionAsked
<1>5. CASE ExpiryNoticed
  <2>1. /\ WellMapped(sessions', MaxSessions, Sessions) /\ DOMAIN sessions' \subseteq DOMAIN sessions
        /\ UNCHANGED <<mode, tokens>>
    BY <1>5, Noticing DEF ExpiryNoticed
  <2> QED
    BY <2>1 DEF MapsOK
<1>6. CASE Restarted
  <2>1. tokens' = NoEntry /\ sessions' = NoEntry /\ mode' = mode
    BY <1>6 DEF Restarted, Forget
  <2> QED
    BY <1>0, <1>1, <2>1, EmptyMap DEF BothMapped
<1>7. CASE BackupCreated \/ Tick \/ UNCHANGED vars
  BY <1>2, <1>7 DEF BackupCreated, Tick, KeepSessions, sessionVars, vars
<1> QED
  BY <1>3, <1>4, <1>5, <1>6, <1>7 DEF Next

-----------------------------------------------------------------------------
(* What the handlers carry. *)

\* Handlers take no time, and those that begin are counted.
LEMMA HandlersStand ==
  ASSUME NEW r \in Requests, Handler(r)
  PROVE  UNCHANGED clock /\ (begun' = begun \/ Counted)
<1>1. CASE \/ LoginBegun(r) \/ ReauthenticationBegun(r) \/ LogoutBegun(r) \/ UpdateBegun(r)
           \/ RestoreBegun(r)
  BY <1>1 DEF LoginBegun, ReauthenticationBegun, LogoutBegun, UpdateBegun, RestoreBegun, Begin
<1>2. CASE \/ TokenConsumed(r) \/ RateChecked(r) \/ PasswordRefused(r) \/ PasswordAccepted(r)
           \/ LoggedOut(r)
  BY <1>2 DEF TokenConsumed, RateChecked, PasswordRefused, PasswordAccepted, LoggedOut
<1>3. CASE \/ UpdateChecked(r) \/ UpdateWritten(r) \/ UpdateFailed(r) \/ Published(r)
           \/ Restored(r) \/ Dropped(r)
  BY <1>3 DEF UpdateChecked, UpdateWritten, UpdateFailed, Published, Restored, Dropped
<1> QED
  BY <1>1, <1>2, <1>3 DEF Handler

\* The clock, the bound on requests and the history flags.
LEMMA CountersStep ==
  ASSUME CountersOK, [Next]_vars
  PROVE  CountersOK' /\ clock' \in {clock, clock + 1}
<1>0. clock \in 0 .. MaxTime /\ begun \in 0 .. MaxRequests /\ MaxTime \in Nat /\ MaxRequests \in Nat
  BY Limits DEF CountersOK, Times
<1>2. /\ clock' \in {clock, clock + 1} /\ clock' \in 0 .. MaxTime
      /\ begun' \in 0 .. MaxRequests
  <2> DEFINE Standing == UNCHANGED clock /\ (begun' = begun \/ Counted)
  <2>1. CASE Standing
    BY <1>0, <2>1 DEF Counted
  <2>2. CASE Tick
    BY <1>0, <2>2 DEF Tick
  <2> HIDE DEF Standing
  <2>3. SessionAsked \/ ExpiryNoticed \/ BackupCreated \/ Restarted \/ UNCHANGED vars => Standing
    BY DEF SessionAsked, ExpiryNoticed, BackupCreated, Restarted, vars, Standing
  <2>4. \A r \in Requests : Handler(r) => Standing
    BY HandlersStand DEF Standing
  <2> QED
    BY <2>1, <2>2, <2>3, <2>4 DEF Next
<1>3. raced' \in BOOLEAN /\ drifted' \in BOOLEAN
  <2>1. ASSUME UNCHANGED <<raced, drifted>> PROVE raced' \in BOOLEAN /\ drifted' \in BOOLEAN
    BY <2>1 DEF CountersOK
  <2>2. ASSUME NEW r \in Requests, Handler(r) PROVE raced' \in BOOLEAN /\ drifted' \in BOOLEAN
    <3>1. CASE Published(r) \/ Dropped(r)
      <4>1. raced' = raced
        BY <3>1 DEF Published, Dropped
      <4>2. drifted' \in BOOLEAN
        BY <3>1, Zenon DEF Published, Dropped
      <4> QED
        BY <4>1, <4>2 DEF CountersOK
    <3>2. CASE Restored(r)
      <4>1. raced' \in BOOLEAN
        BY <3>2, Zenon DEF Restored
      <4>2. drifted' = TRUE
        BY <3>2 DEF Restored
      <4> QED
        BY <4>1, <4>2
    <3> QED
      BY <2>1, <2>2, <3>1, <3>2
      DEF Handler, LoginBegun, TokenConsumed, ReauthenticationBegun, RateChecked, PasswordRefused,
          PasswordAccepted, LogoutBegun, LoggedOut, UpdateBegun, UpdateChecked, UpdateWritten,
          UpdateFailed, RestoreBegun, KeepAdmin
  <2>3. CASE Restarted
    BY <2>3 DEF Restarted, CountersOK
  <2> QED
    BY <2>1, <2>2, <2>3 DEF Next, SessionAsked, ExpiryNoticed, BackupCreated, Tick, KeepAdmin, vars
<1> QED
  BY <1>2, <1>3 DEF CountersOK, Times

\* A handler that has ended carries nothing.
LEMMA NothingCarried == \A n, c : Carried(Done, n, c) /\ Carried(Restoring, n, c)
  BY TableNames DEF Carried, Done, Restoring

\* What was carried stays usable while ids are only added and the clock stands.
LEMMA FieldsKept ==
  ASSUME FieldsOK, issued \in Nat, issued' \in Nat, issued <= issued', clock' = clock,
         NEW r \in Requests
  PROVE  Carried(request[r], issued', clock')
<1>1. Carried(request[r], issued, clock)
  BY DEF FieldsOK
<1> QED
  BY <1>1 DEF Carried

\* One handler moves on with what it may carry.
LEMMA FieldsMove ==
  ASSUME RequestsFormed, FieldsOK, issued \in Nat, issued' \in Nat, issued <= issued',
         clock' = clock, NEW r \in Requests, NEW q, Carried(q, issued', clock'),
         request' = [request EXCEPT ![r] = q]
  PROVE  FieldsOK'
<1>1. request'[r] = q /\ \A p \in Requests \ {r} : request'[p] = request[p]
  BY DEF RequestsFormed
<1>2. \A p \in Requests : Carried(request[p], issued', clock')
  BY FieldsKept
<1>3. \A p \in Requests : Carried(request'[p], issued', clock')
  BY <1>1, <1>2
<1> QED
  BY <1>3 DEF FieldsOK

\* A password check moves to its next stage, with what it carried.
LEMMA ChecksMove ==
  ASSUME RequestsFormed, FieldsOK, issued \in Nat, issued' \in Nat, issued <= issued',
         clock' = clock, NEW r \in Requests, request[r].op \in {"login", "reauthenticate"},
         NEW at \in {"limit", "finish"}, Become(r, at)
  PROVE  FieldsOK'
<1> DEFINE q == [request[r] EXCEPT !.at = at]
<1>1. request[r] = [op |-> request[r].op, at |-> request[r].at, now |-> request[r].now,
                    cred |-> request[r].cred, right |-> request[r].right]
  BY DEF RequestsFormed, Formed, Done, Restoring
<1>2. /\ q.op = request[r].op /\ q.at = at /\ q.now = request[r].now
      /\ q.cred = request[r].cred /\ q.right = request[r].right
  BY <1>1
<1>3. Carried(request[r], issued', clock')
  BY FieldsKept
<1>4. request' = [request EXCEPT ![r] = q]
  BY DEF Become, RequestsFormed
<1> HIDE DEF q
<1>5. Carried(q, issued', clock')
  BY <1>2, <1>3, TableNames DEF Carried
<1> QED
  BY <1>4, <1>5, FieldsMove

\* What a check of an adapter update builds is of buildable configurations.
LEMMA SnapshotBuildable ==
  ASSUME NEW rows, Sound(rows)
  PROVE  Snapshot(rows) \in Snapshots
  BY DEF Sound, Snapshot, Snapshots

\* A row's candidate: its key has the value and the next version, the others stay.
LEMMA CandidateRows ==
  ASSUME NEW table \in Tables, NEW rows \in Rows(table), NEW key \in Keys[table], NEW value
  PROVE  /\ Candidate(rows, key, value)[key] = [value |-> value, version |-> rows[key].version + 1]
         /\ \A k \in Keys[table] \ {key} : Candidate(rows, key, value)[k] = rows[k]
         /\ Candidate(rows, key, value) = [k \in Keys[table] |-> Candidate(rows, key, value)[k]]
  BY DEF Candidate, Rows

\* A candidate with an offered value is a table of rows.
LEMMA CandidateTyped ==
  ASSUME NEW table \in Tables, NEW rows \in Rows(table), NEW key \in Keys[table],
         NEW value \in Offered(table, key)
  PROVE  Candidate(rows, key, value) \in Rows(table)
<1> DEFINE Row == [value : UNION {Offered(table, k) : k \in Keys[table]}, version : Nat]
           e == Candidate(rows, key, value)
<1>1. \A k \in Keys[table] : rows[k] \in Row
  BY DEF Rows
<1>2. [value |-> value, version |-> rows[key].version + 1] \in Row
  BY <1>1
<1>3. /\ e[key] = [value |-> value, version |-> rows[key].version + 1]
      /\ \A k \in Keys[table] \ {key} : e[k] = rows[k]
      /\ e = [k \in Keys[table] |-> e[k]]
  BY CandidateRows
<1> HIDE DEF e
<1>4. \A k \in Keys[table] : e[k] \in Row
  BY <1>1, <1>2, <1>3
<1>5. e \in Rows(table)
  BY <1>3, <1>4 DEF Rows
<1> QED
  BY <1>5 DEF e

\* An update that passed its check carries the snapshot it built (build_snapshot).
LEMMA CheckedCarries ==
  ASSUME RequestsFormed, FieldsOK, StoreOK, issued \in Nat, UNCHANGED <<issued, clock>>,
         NEW r \in Requests, UpdateChecked(r)
  PROVE  FieldsOK'
<1> DEFINE table == request[r].op
           rows == Candidate(db[table], request[r].key, request[r].value)
           built == IF table = "adapters" THEN Snapshot(rows) ELSE None
           q == [request[r] EXCEPT !.at = "writing", !.built = built]
<1>0. IsUpdate(r) /\ issued <= issued'
  BY DEF UpdateChecked, UpdateAt
<1>1. CASE End(r)
  BY <1>0, <1>1, NothingCarried, FieldsMove DEF End
<1>2. CASE /\ request' = [request EXCEPT ![r].at = "writing", ![r].built = built]
           /\ Valid(table, rows)
  <2>1. /\ request[r] = [op |-> request[r].op, at |-> request[r].at, key |-> request[r].key,
                         value |-> request[r].value, expected |-> request[r].expected,
                         built |-> request[r].built]
        /\ table \in Tables
    BY <1>0, HandFormed DEF IsUpdate
  <2>2. request' = [request EXCEPT ![r] = q]
    BY <1>2 DEF RequestsFormed
  <2>3. /\ q.op = table /\ q.at = "writing" /\ q.key = request[r].key
        /\ q.value = request[r].value /\ q.expected = request[r].expected /\ q.built = built
    BY <2>1
  <2>4. table = "adapters" => built \in Snapshots
    BY <1>2, SnapshotBuildable DEF Valid
  <2>5. Carried(request[r], issued', clock')
    BY <1>0, FieldsKept
  <2>6. table # "adapters" => built = None
    OBVIOUS
  <2>7. table \notin {"login", "reauthenticate", "logout"}
    BY <2>1, TableNames
  <2> HIDE DEF q, rows, built
  <2>8. Carried(q, issued', clock')
    BY <2>1, <2>3, <2>4, <2>5, <2>6, <2>7 DEF Carried
  <2> QED
    BY <1>0, <2>2, <2>8, FieldsMove
<1> QED
  BY <1>1, <1>2 DEF UpdateChecked

\* An adapter update that has committed goes on to publish what it built.
LEMMA WrittenCarries ==
  ASSUME RequestsFormed, FieldsOK, issued \in Nat, UNCHANGED <<issued, clock>>,
         NEW r \in Requests, UpdateWritten(r)
  PROVE  FieldsOK'
<1> DEFINE q == [request[r] EXCEPT !.at = "publishing"]
<1>0. IsUpdate(r) /\ issued <= issued' /\ request[r].at = "writing"
  BY DEF UpdateWritten, UpdateAt
<1>1. CASE End(r)
  BY <1>0, <1>1, NothingCarried, FieldsMove DEF End
<1>2. CASE Is(r, "adapters") /\ Become(r, "publishing")
  <2>1. /\ request[r] = [op |-> request[r].op, at |-> request[r].at, key |-> request[r].key,
                         value |-> request[r].value, expected |-> request[r].expected,
                         built |-> request[r].built]
        /\ request[r].op = "adapters"
    BY <1>0, <1>2, HandFormed DEF Is
  <2>2. request' = [request EXCEPT ![r] = q]
    BY <1>2 DEF RequestsFormed, Become
  <2>3. /\ q.op = request[r].op /\ q.at = "publishing" /\ q.key = request[r].key
        /\ q.value = request[r].value /\ q.expected = request[r].expected /\ q.built = request[r].built
    BY <2>1
  <2>4. Carried(request[r], issued', clock')
    BY <1>0, FieldsKept
  <2> HIDE DEF q
  <2>5. Carried(q, issued', clock')
    BY <1>0, <2>1, <2>3, <2>4, TableNames DEF Carried
  <2> QED
    BY <1>0, <2>2, <2>5, FieldsMove
<1> QED
  BY <1>1, <1>2 DEF UpdateWritten

\* What a request carries from its start is well formed.
LEMMA Beginnings ==
  ASSUME RequestsFormed, FieldsOK, StoreOK, CountersOK, TokensInv, NEW r \in Requests,
         UNCHANGED <<issued, clock>>,
         \/ LoginBegun(r) \/ ReauthenticationBegun(r) \/ LogoutBegun(r) \/ UpdateBegun(r)
         \/ RestoreBegun(r)
  PROVE  FieldsOK'
<1>0. /\ issued \in Nat /\ issued <= issued' /\ issued' \in Nat /\ clock \in Nat /\ MaxLag \in Nat
      /\ clock' = clock /\ DOMAIN sessions \subseteq 1 .. issued
  BY Limits DEF TokensInv, CountersOK, Times, Ids
<1>1. ASSUME NEW q, Carried(q, issued', clock'), Begin(r, q) PROVE FieldsOK'
  BY <1>0, <1>1, FieldsMove DEF Begin
<1>2. ASSUME NEW op \in {"login", "reauthenticate"}, NEW at \in {"consume", "limit"},
             NEW cred \in 0 .. issued, NEW right \in BOOLEAN, Begin(r, Check(op, at, cred, right))
      PROVE  FieldsOK'
  <2>1. Carried(Check(op, at, cred, right), issued', clock')
    BY <1>0, TableNames DEF Carried, Check
  <2> QED
    BY <1>1, <1>2, <2>1
<1>3. CASE LoginBegun(r)
  BY <1>0, <1>2, <1>3 DEF LoginBegun
<1>4. CASE ReauthenticationBegun(r)
  BY <1>0, <1>2, <1>4 DEF ReauthenticationBegun
<1>5. CASE LogoutBegun(r)
  <2>1. PICK s \in DOMAIN sessions : Begin(r, Logging(s))
    BY <1>5 DEF LogoutBegun
  <2>2. Carried(Logging(s), issued', clock')
    BY <1>0, TableNames DEF Carried, Logging
  <2> QED
    BY <1>1, <2>1, <2>2
<1>6. CASE UpdateBegun(r)
  <2>1. PICK table \in Tables : \E key \in Keys[table] :
           \E value \in Offered(table, key), expected \in 1 .. db[table][key].version :
             Begin(r, Update(table, key, value, expected))
    BY <1>6 DEF UpdateBegun
  <2>2. PICK key \in Keys[table] :
           \E value \in Offered(table, key), expected \in 1 .. db[table][key].version :
             Begin(r, Update(table, key, value, expected))
    BY <2>1
  <2>3. PICK value \in Offered(table, key), expected \in 1 .. db[table][key].version :
           Begin(r, Update(table, key, value, expected))
    BY <2>2
  <2>4. expected \in Nat \ {0}
    <3>1. db[table] \in Rows(table)
      BY TableNames DEF StoreOK, AdminTypeOK
    <3>2. db[table][key].version \in Nat
      BY <3>1 DEF Rows
    <3> QED
      BY <3>2
  <2>5. Carried(Update(table, key, value, expected), issued', clock')
    BY <2>4, TableNames DEF Carried, Update
  <2> QED
    BY <1>1, <2>3, <2>5
<1>7. CASE RestoreBegun(r)
  BY <1>1, <1>7, NothingCarried DEF RestoreBegun
<1> QED
  BY <1>3, <1>4, <1>5, <1>6, <1>7

\* Every step leaves what the handlers carry usable.
LEMMA FieldsStep ==
  ASSUME RequestsFormed, FieldsOK, StoreOK, CountersOK, TokensInv, [Next]_vars
  PROVE  FieldsOK'
<1>0. issued \in Nat /\ issued' \in Nat /\ issued <= issued' /\ clock \in Nat /\ MaxLag \in Nat
  BY IdSteps, Limits DEF IdStep, TokensInv, CountersOK, Times
<1>1. ASSUME NEW r \in Requests, Handler(r) PROVE FieldsOK'
  <2>0. clock' = clock
    BY <1>1, HandlersStand
  <2>1. ASSUME End(r) PROVE FieldsOK'
    BY <1>0, <2>0, <2>1, NothingCarried, FieldsMove DEF End
  <2>2. CASE \/ LoginBegun(r) \/ ReauthenticationBegun(r) \/ LogoutBegun(r) \/ UpdateBegun(r)
             \/ RestoreBegun(r)
    <3>1. issued' = issued
      BY <2>2 DEF LoginBegun, ReauthenticationBegun, LogoutBegun, UpdateBegun, RestoreBegun,
                  KeepSessions, sessionVars
    <3> QED
      BY <2>0, <2>2, <3>1, Beginnings
  <2>3. CASE TokenConsumed(r) \/ RateChecked(r)
    <3>1. request[r].op \in {"login", "reauthenticate"}
      BY <2>3 DEF TokenConsumed, RateChecked, CheckAt
    <3>2. Become(r, "limit") \/ Become(r, "finish") \/ End(r)
      BY <2>3 DEF TokenConsumed, RateChecked
    <3> QED
      BY <1>0, <2>0, <2>1, <3>1, <3>2, ChecksMove
  <2>4. CASE UpdateChecked(r)
    <3>1. issued' = issued
      BY <2>4 DEF UpdateChecked, KeepSessions, sessionVars
    <3> QED
      BY <1>0, <2>0, <2>4, <3>1, CheckedCarries
  <2>5. CASE UpdateWritten(r)
    <3>1. issued' = issued
      BY <2>5 DEF UpdateWritten, KeepSessions, sessionVars
    <3> QED
      BY <1>0, <2>0, <2>5, <3>1, WrittenCarries
  <2> QED
    BY <1>1, <2>1, <2>2, <2>3, <2>4, <2>5
    DEF Handler, PasswordRefused, PasswordAccepted, LoggedOut, UpdateFailed, Published, Restored,
        Dropped
<1>2. CASE Tick
  <2>1. request' = request /\ issued' = issued /\ clock' = clock + 1
    BY <1>2 DEF Tick, KeepSessions, sessionVars
  <2>2. ASSUME NEW r \in Requests PROVE Carried(request[r], issued, clock + 1)
    <3>1. Carried(request[r], issued, clock)
      BY DEF FieldsOK
    <3>2. CASE request[r].op \in {"login", "reauthenticate"}
      <4>1. request[r].at \in {"consume", "limit", "finish"} /\ request[r].now \in Nat
            /\ request[r].now <= clock
        BY <3>1, <3>2 DEF Carried
      <4>2. clock < request[r].now + MaxLag
        BY <1>2, <3>2, <4>1 DEF Tick, Punctual, CheckAt
      <4>3. request[r].now <= clock + 1 /\ clock + 1 <= request[r].now + MaxLag
        BY <1>0, <4>1, <4>2
      <4> QED
        BY <3>1, <3>2, <4>3 DEF Carried
    <3>3. CASE request[r].op \notin {"login", "reauthenticate"}
      BY <3>1, <3>3 DEF Carried
    <3> QED
      BY <3>2, <3>3
  <2> QED
    BY <2>1, <2>2 DEF FieldsOK
<1>3. CASE Restarted
  <2>1. \A r \in Requests : request'[r] = Done
    BY <1>3 DEF Restarted
  <2> QED
    BY <2>1, NothingCarried DEF FieldsOK
<1>4. CASE SessionAsked \/ ExpiryNoticed \/ BackupCreated \/ UNCHANGED vars
  <2>1. request' = request /\ clock' = clock
    BY <1>4 DEF SessionAsked, ExpiryNoticed, BackupCreated, vars
  <2> QED
    BY <1>0, <2>1, FieldsKept DEF FieldsOK
<1> QED
  BY <1>1, <1>2, <1>3, <1>4 DEF Next

-----------------------------------------------------------------------------
(* The tables and their audit trail. *)

Databases == [settings : Rows("settings"), adapters : Rows("adapters"), audit : [Outcomes -> Nat]]

LEMMA StoreTyped ==
  StoreOK <=> db \in Databases /\ saved \in Databases /\ published \in Snapshots
  BY DEF StoreOK, AdminTypeOK, Databases, Snapshots

\* The versions reached, row by row.
LEMMA ReachedRows ==
  \A d, w : w \in Reached(d) <=>
    \E t \in Tables : \E k \in Keys[t] : \E v \in 2 .. d[t][k].version : w = <<t, k, v>>
  BY DEF Reached

\* An event changes the count of its outcome only.
LEMMA RecordedTyped ==
  ASSUME NEW d \in Databases, NEW outcome \in Outcomes
  PROVE  /\ Recorded(d, outcome) \in Databases
         /\ \A t \in Tables : Recorded(d, outcome)[t] = d[t]
         /\ Recorded(d, outcome).audit[outcome] = d.audit[outcome] + 1
         /\ \A o \in Outcomes \ {outcome} : Recorded(d, outcome).audit[o] = d.audit[o]
<1> DEFINE e == Recorded(d, outcome)
<1>1. d.audit \in [Outcomes -> Nat] /\ Tabled(d)
  BY DEF Databases, Tabled
<1>2. e = [settings |-> d.settings, adapters |-> d.adapters,
           audit |-> [d.audit EXCEPT ![outcome] = @ + 1]]
  BY <1>1 DEF Recorded, Tabled
<1>3. [d.audit EXCEPT ![outcome] = @ + 1] \in [Outcomes -> Nat]
  BY <1>1
<1> HIDE DEF e
<1>4. e \in Databases /\ \A t \in Tables : e[t] = d[t]
  BY <1>2, <1>3, TableNames DEF Databases
<1>5. e.audit[outcome] = d.audit[outcome] + 1 /\ \A o \in Outcomes \ {outcome} : e.audit[o] = d.audit[o]
  BY <1>1, <1>2
<1> QED
  BY <1>4, <1>5 DEF e

\* A table's rows are replaced by other rows.
LEMMA StoredTyped ==
  ASSUME NEW d \in Databases, NEW table \in Tables, NEW rows \in Rows(table)
  PROVE  /\ [d EXCEPT ![table] = rows] \in Databases
         /\ [d EXCEPT ![table] = rows][table] = rows
         /\ \A t \in Tables \ {table} : [d EXCEPT ![table] = rows][t] = d[t]
         /\ [d EXCEPT ![table] = rows].audit = d.audit
<1> DEFINE e == [d EXCEPT ![table] = rows]
<1>1. Tabled(d) /\ DOMAIN d = {"settings", "adapters", "audit"} /\ table \in {"settings", "adapters"}
  BY TableNames DEF Databases, Tabled
<1>2. /\ e = [f \in {"settings", "adapters", "audit"} |-> e[f]]
      /\ e[table] = rows /\ \A f \in {"settings", "adapters", "audit"} \ {table} : e[f] = d[f]
  BY <1>1
<1> HIDE DEF e
<1>3. e = [settings |-> e.settings, adapters |-> e.adapters, audit |-> e.audit]
  BY <1>2
<1>4. e.settings \in Rows("settings") /\ e.adapters \in Rows("adapters") /\ e.audit = d.audit
  BY <1>1, <1>2 DEF Databases
<1>5. e \in Databases
  BY <1>3, <1>4 DEF Databases
<1>6. \A t \in Tables \ {table} : e[t] = d[t]
  BY <1>2, TableNames
<1> QED
  BY <1>2, <1>4, <1>5, <1>6 DEF e

\* What an update commits: the next version of its row, and one event for it.
LEMMA Commits ==
  ASSUME NEW table \in Tables, NEW key \in Keys[table], NEW value \in Offered(table, key),
         db \in Databases, Committed(table, key, value)
  PROVE  /\ db' \in Databases
         /\ db'[table] = Candidate(db[table], key, value)
         /\ \A t \in Tables \ {table} : db'[t] = db[t]
         /\ db'.audit["succeeded"] = db.audit["succeeded"] + 1
<1> DEFINE rows == Candidate(db[table], key, value)
           stored == [db EXCEPT ![table] = rows]
<1>1. db[table] \in Rows(table)
  BY TableNames DEF Databases
<1>2. rows \in Rows(table)
  BY <1>1, CandidateTyped
<1> HIDE DEF rows
<1>3. /\ stored \in Databases /\ stored[table] = rows /\ stored.audit = db.audit
      /\ \A t \in Tables \ {table} : stored[t] = db[t]
  BY <1>2, StoredTyped
<1>4. db' = Recorded(stored, "succeeded")
  BY DEF Committed, rows
<1> HIDE DEF stored
<1>5. /\ db' \in Databases /\ \A t \in Tables : db'[t] = stored[t]
      /\ db'.audit["succeeded"] = stored.audit["succeeded"] + 1
  BY <1>3, <1>4, RecordedTyped DEF Outcomes
<1> QED
  BY <1>3, <1>5 DEF rows

\* Rows left alone have reached what they had.
LEMMA ReachedKept ==
  ASSUME NEW d, NEW e, \A t \in Tables : e[t] = d[t]
  PROVE  Reached(e) = Reached(d)
<1>1. \A w : w \in Reached(e) <=> w \in Reached(d)
  BY ReachedRows
<1> QED
  BY <1>1

\* A committed update reaches exactly one version more.
LEMMA ReachedGrows ==
  ASSUME NEW table \in Tables, NEW key \in Keys[table], NEW value \in Offered(table, key),
         db \in Databases, Committed(table, key, value), db[table][key].version >= 1
  PROVE  \E w : w \notin Reached(db) /\ Reached(db') = Reached(db) \cup {w}
<1> DEFINE n == db[table][key].version
           x == <<table, key, n + 1>>
<1>1. /\ db[table] \in Rows(table) /\ db[table][key].version \in Nat
      /\ db'[table] = Candidate(db[table], key, value)
      /\ \A t \in Tables \ {table} : db'[t] = db[t]
  <2>1. db[table] \in Rows(table)
    BY TableNames DEF Databases
  <2>2. db[table][key].version \in Nat
    BY <2>1 DEF Rows
  <2> QED
    BY <2>1, <2>2, Commits
<1>2. db'[table][key].version = n + 1 /\ \A k \in Keys[table] \ {key} : db'[table][k] = db[table][k]
  <2>1. /\ Candidate(db[table], key, value)[key] = [value |-> value, version |-> n + 1]
        /\ \A k \in Keys[table] \ {key} : Candidate(db[table], key, value)[k] = db[table][k]
    BY <1>1, CandidateRows
  <2>2. [value |-> value, version |-> n + 1].version = n + 1
    OBVIOUS
  <2>3. db'[table][key] = [value |-> value, version |-> n + 1]
    BY <1>1, <2>1, Zenon
  <2>4. \A k \in Keys[table] \ {key} : db'[table][k] = db[table][k]
    BY <1>1, <2>1, Zenon
  <2> QED
    BY <2>2, <2>3, <2>4
<1>3. x \notin Reached(db)
  <2>1. SUFFICES ASSUME NEW t \in Tables, NEW k \in Keys[t], NEW v \in 2 .. db[t][k].version,
                        x = <<t, k, v>>
                 PROVE  FALSE
    BY ReachedRows
  <2>2. t = table /\ k = key /\ v = n + 1
    BY <2>1
  <2> QED
    BY <1>1, <2>2
<1>4. ASSUME NEW w \in Reached(db') PROVE w \in Reached(db) \cup {x}
  <2>1. PICK t \in Tables : \E k \in Keys[t] : \E v \in 2 .. db'[t][k].version : w = <<t, k, v>>
    BY <1>4, ReachedRows
  <2>2. PICK k \in Keys[t] : \E v \in 2 .. db'[t][k].version : w = <<t, k, v>>
    BY <2>1
  <2>3. PICK v \in 2 .. db'[t][k].version : w = <<t, k, v>>
    BY <2>2
  <2>4. CASE t = table /\ k = key
    <3>1. v \in 2 .. n \/ v = n + 1
      BY <1>1, <1>2, <2>3, <2>4
    <3>2. v \in 2 .. n => w \in Reached(db)
      BY <2>3, <2>4, ReachedRows
    <3> QED
      BY <2>3, <2>4, <3>1, <3>2
  <2>5. CASE ~(t = table /\ k = key)
    <3>1. db'[t][k] = db[t][k]
      BY <1>1, <1>2, <2>5
    <3> QED
      BY <2>3, <3>1, ReachedRows
  <2> QED
    BY <2>4, <2>5
<1>5. ASSUME NEW w \in Reached(db) \cup {x} PROVE w \in Reached(db')
  <2>1. CASE w = x
    <3>1. n + 1 \in 2 .. db'[table][key].version
      BY <1>1, <1>2
    <3> QED
      BY <2>1, <3>1, ReachedRows
  <2>2. CASE w \in Reached(db)
    <3>1. PICK t \in Tables : \E k \in Keys[t] : \E v \in 2 .. db[t][k].version : w = <<t, k, v>>
      BY <2>2, ReachedRows
    <3>2. PICK k \in Keys[t] : \E v \in 2 .. db[t][k].version : w = <<t, k, v>>
      BY <3>1
    <3>3. PICK v \in 2 .. db[t][k].version : w = <<t, k, v>>
      BY <3>2
    <3>4. v \in 2 .. db'[t][k].version
      BY <1>1, <1>2, <3>3
    <3> QED
      BY <3>3, <3>4, ReachedRows
  <2> QED
    BY <1>5, <2>1, <2>2
<1> HIDE DEF x
<1>6. Reached(db') = Reached(db) \cup {x}
  BY <1>4, <1>5
<1> QED
  BY <1>3, <1>6

\* Without a new version there is no new event of success.
LEMMA CountsKept ==
  ASSUME NEW d, NEW e, Counts(d), \A t \in Tables : e[t] = d[t],
         e.audit["succeeded"] = d.audit["succeeded"]
  PROVE  Counts(e)
<1>1. Reached(e) = Reached(d)
  BY ReachedKept
<1> QED
  BY <1>1 DEF Counts

\* An event of another outcome leaves the tables and the count as they are.
LEMMA Appending ==
  ASSUME db \in Databases, Counts(db), NEW outcome \in {"rejected", "failed"}, Appended(outcome)
  PROVE  db' \in Databases /\ Counts(db')
<1>1. /\ db' \in Databases /\ \A t \in Tables : db'[t] = db[t]
      /\ db'.audit["succeeded"] = db.audit["succeeded"]
  BY RecordedTyped DEF Appended, Outcomes
<1> QED
  BY <1>1, CountsKept

\* A committed update counts one version and one event more.
LEMMA Committing ==
  ASSUME FieldsOK, db \in Databases, Counts(db), NEW r \in Requests, IsUpdate(r), Matching(r),
         Committed(request[r].op, request[r].key, request[r].value)
  PROVE  db' \in Databases /\ Counts(db')
<1> DEFINE table == request[r].op
           key == request[r].key
           value == request[r].value
<1>1. /\ table \in Tables /\ key \in Keys[table] /\ value \in Offered(table, key)
      /\ request[r].expected \in Nat \ {0}
  BY DEF FieldsOK, Carried, IsUpdate
<1>2. db[table][key].version \in Nat \ {0}
  BY <1>1 DEF Matching
<1>3. db[table][key].version >= 1
  BY <1>2
<1> HIDE DEF table, key, value
<1>4. Committed(table, key, value)
  BY DEF table, key, value
<1>5. db' \in Databases /\ db'.audit["succeeded"] = db.audit["succeeded"] + 1
  BY <1>1, <1>4, Commits
<1>6. PICK w : w \notin Reached(db) /\ Reached(db') = Reached(db) \cup {w}
  BY <1>1, <1>3, <1>4, ReachedGrows
<1>7. IsFiniteSet(Reached(db)) /\ db.audit["succeeded"] = Cardinality(Reached(db))
  BY DEF Counts
<1>8. /\ IsFiniteSet(Reached(db) \cup {w})
      /\ Cardinality(Reached(db) \cup {w}) = Cardinality(Reached(db)) + 1
  BY <1>6, <1>7, FS_AddElement
<1>9. Counts(db')
  BY <1>5, <1>6, <1>7, <1>8 DEF Counts
<1> QED
  BY <1>5, <1>9

\* Every step keeps the tables well formed and their trail complete.
LEMMA StoreStep ==
  ASSUME RequestsFormed, FieldsOK, StoreOK, AuditInv, [Next]_vars
  PROVE  StoreOK' /\ AuditInv'
<1>0. /\ db \in Databases /\ saved \in Databases /\ published \in Snapshots
      /\ Counts(db) /\ Counts(saved)
  BY StoreTyped DEF AuditInv
<1>1. ASSUME db' \in Databases, saved' \in Databases, published' \in Snapshots,
             Counts(db'), Counts(saved')
      PROVE  StoreOK' /\ AuditInv'
  BY <1>1 DEF AuditInv, Counts, Reached, StoreOK, AdminTypeOK, Databases, Snapshots
<1>2. ASSUME UNCHANGED adminVars PROVE StoreOK' /\ AuditInv'
  BY <1>0, <1>1, <1>2 DEF adminVars
<1>3. ASSUME NEW r \in Requests, Handler(r) PROVE StoreOK' /\ AuditInv'
  <2>1. ASSUME NEW outcome \in {"rejected", "failed"}, Appended(outcome), UNCHANGED <<saved, published>>
        PROVE  StoreOK' /\ AuditInv'
    <3>1. db' \in Databases /\ Counts(db')
      BY <1>0, <2>1, Appending
    <3> QED
      BY <1>0, <1>1, <2>1, <3>1
  <2>2. CASE UpdateChecked(r)
    BY <1>2, <2>1, <2>2 DEF UpdateChecked, adminVars
  <2>3. CASE UpdateWritten(r)
    <3>1. UNCHANGED <<saved, published>> /\ IsUpdate(r)
      BY <2>3 DEF UpdateWritten, UpdateAt
    <3>2. CASE Matching(r) /\ Committed(request[r].op, request[r].key, request[r].value)
      <4>1. db' \in Databases /\ Counts(db')
        BY <1>0, <3>1, <3>2, Committing
      <4> QED
        BY <1>0, <1>1, <3>1, <4>1
    <3>3. CASE Appended("rejected")
      BY <2>1, <3>1, <3>3
    <3> QED
      BY <2>3, <3>2, <3>3 DEF UpdateWritten
  <2>4. CASE UpdateFailed(r)
    BY <1>2, <2>1, <2>4 DEF UpdateFailed, adminVars
  <2>5. CASE Published(r)
    <3>1. IsUpdate(r) /\ request[r].at = "publishing"
      BY <2>5 DEF Published, UpdateAt
    <3>2. Is(r, "adapters")
      BY <3>1, HandFormed
    <3>3. request[r].built \in Snapshots
      BY <3>1, <3>2 DEF FieldsOK, Carried, Is, IsUpdate
    <3>4. published' = request[r].built /\ UNCHANGED <<db, saved>>
      BY <2>5 DEF Published
    <3> QED
      BY <1>0, <1>1, <3>3, <3>4
  <2>6. CASE Restored(r)
    <3>1. db' = saved /\ UNCHANGED <<saved, published>>
      BY <2>6 DEF Restored
    <3> QED
      BY <1>0, <1>1, <3>1
  <2> QED
    BY <1>2, <1>3, <2>2, <2>3, <2>4, <2>5, <2>6
    DEF Handler, LoginBegun, TokenConsumed, ReauthenticationBegun, RateChecked, PasswordRefused,
        PasswordAccepted, LogoutBegun, LoggedOut, UpdateBegun, RestoreBegun, Dropped, KeepAdmin
<1>4. CASE BackupCreated
  <2>1. saved' = db /\ UNCHANGED <<db, published>>
    BY <1>4 DEF BackupCreated
  <2> QED
    BY <1>0, <1>1, <2>1
<1>5. CASE Restarted
  <2>1. Sound(db.adapters) /\ published' = Snapshot(db.adapters) /\ UNCHANGED <<db, saved>>
    BY <1>5 DEF Restarted, Load, Loadable
  <2> QED
    BY <1>0, <1>1, <2>1, SnapshotBuildable
<1>6. CASE SessionAsked \/ ExpiryNoticed \/ Tick \/ UNCHANGED vars
  BY <1>2, <1>6 DEF SessionAsked, ExpiryNoticed, Tick, KeepAdmin, vars
<1> QED
  BY <1>3, <1>4, <1>5, <1>6 DEF Next

-----------------------------------------------------------------------------
(* The limit on password checks. *)

\* What is left of the attempts after d of them were given up (check_rate_limit).
LeftAfter(p, d, now) ==
  /\ p \in Seq(Nat) /\ Len(p) = Len(attempts) - d
  /\ \A i \in 1 .. Len(p) : p[i] = attempts[d + i]
  /\ \A i \in 1 .. d : attempts[i] + Window <= now

\* Pruning gives up old attempts from the front, and no others.
LEMMA PruningGivesUp ==
  ASSUME attempts \in Seq(Nat), NEW now \in Nat
  PROVE  \E d \in 0 .. Len(attempts) : LeftAfter(Pruned(now), d, now)
<1> DEFINE recent == {i \in DOMAIN attempts : attempts[i] > now - Window}
           n == Len(attempts)
<1>0. /\ n \in Nat /\ DOMAIN attempts = 1 .. n /\ \A i \in 1 .. n : attempts[i] \in Nat
      /\ Window \in Nat
  BY LenProperties, Limits
<1>1. CASE recent = {}
  <2>1. Pruned(now) = <<>>
    BY <1>1 DEF Pruned
  <2>2. \A i \in 1 .. n : attempts[i] + Window <= now
    <3> SUFFICES ASSUME NEW i \in 1 .. n PROVE attempts[i] + Window <= now
      OBVIOUS
    <3>1. attempts[i] \in Nat /\ ~(attempts[i] > now - Window)
      BY <1>0, <1>1
    <3> QED
      BY <1>0, <3>1
  <2>3. LeftAfter(<<>>, n, now)
    BY <1>0, <2>2, EmptySeq DEF LeftAfter
  <2> QED
    BY <1>0, <2>1, <2>3
<1>2. CASE recent # {}
  <2> DEFINE least(i) == \A j \in recent : i <= j
             m == CHOOSE i \in recent : \A j \in recent : i <= j
  <2>1. \E i \in recent : least(i)
    <3>1. recent \subseteq Nat
      BY <1>0
    <3>2. IsWellFoundedOn(OpToRel(<, Nat), Nat)
      BY NatLessThanWellFounded
    <3> HIDE DEF recent
    <3>3. PICK i \in recent : \A j \in recent : ~(<<j, i>> \in OpToRel(<, Nat))
      BY <1>2, <3>1, <3>2, WFMin
    <3>4. \A j \in recent : ~(j < i)
      BY <3>1, <3>3 DEF OpToRel
    <3>5. least(i)
      BY <3>1, <3>4
    <3> QED
      BY <3>5
  <2>2. m \in recent /\ \A j \in recent : m <= j
    BY <2>1
  <2>3. Pruned(now) = SubSeq(attempts, m, n)
    BY <1>2 DEF Pruned
  <2> HIDE DEF m
  <2>4. m \in 1 .. n
    BY <1>0, <2>2
  <2>5. \A i \in 1 .. m - 1 : attempts[i] + Window <= now
    <3> SUFFICES ASSUME NEW i \in 1 .. m - 1 PROVE attempts[i] + Window <= now
      OBVIOUS
    <3>1. i \in 1 .. n /\ ~(m <= i)
      BY <1>0, <2>4
    <3>2. attempts[i] \in Nat /\ ~(attempts[i] > now - Window)
      BY <1>0, <2>2, <3>1
    <3> HIDE DEF n
    <3> QED
      BY <1>0, <3>2
  <2>6. /\ SubSeq(attempts, m, n) \in Seq(Nat)
        /\ Len(SubSeq(attempts, m, n)) = n - m + 1
        /\ \A i \in 1 .. n - m + 1 : SubSeq(attempts, m, n)[i] = attempts[m + i - 1]
    <3>1. m \in Int /\ n \in Int /\ m <= n /\ \A i \in m .. n : attempts[i] \in Nat
      BY <1>0, <2>4
    <3> HIDE DEF n
    <3> QED
      BY <3>1, SubSeqProperties
  <2>7. LeftAfter(Pruned(now), m - 1, now)
    BY <1>0, <2>3, <2>4, <2>5, <2>6 DEF LeftAfter
  <2> QED
    BY <1>0, <2>4, <2>7
<1> QED
  BY <1>1, <1>2

\* Attempts that are given up, old and new, are a window old.
LEMMA GivenUpAreOld ==
  ASSUME RateInv, clock \in Nat, NEW now \in Nat, now <= clock,
         NEW d \in 0 .. Len(attempts), NEW p, LeftAfter(p, d, now)
  PROVE  /\ \A k \in 1 .. GivenUp + d : admitted[k] + Window <= clock
         /\ \A i \in 1 .. Len(p) : p[i] = admitted[GivenUp + d + i]
         /\ GivenUp \in Nat /\ GivenUp + d <= Len(admitted) /\ Len(p) = Len(admitted) - (GivenUp + d)
<1>0. /\ Len(attempts) \in Nat /\ Len(admitted) \in Nat /\ Len(attempts) <= Len(admitted)
      /\ \A k \in 1 .. Len(admitted) : admitted[k] \in Nat
      /\ Window \in Nat
  BY LenProperties, Limits DEF RateInv
<1>1. GivenUp \in Nat /\ GivenUp = Len(admitted) - Len(attempts)
  BY <1>0 DEF GivenUp
<1>2. Len(p) = Len(attempts) - d /\ \A i \in 1 .. Len(p) : p[i] = attempts[d + i]
  BY DEF LeftAfter
<1>3. ASSUME NEW k \in 1 .. GivenUp + d PROVE admitted[k] + Window <= clock
  <2>1. CASE k \in 1 .. GivenUp
    BY <2>1 DEF RateInv
  <2>2. CASE k \notin 1 .. GivenUp
    <3> DEFINE i == k - GivenUp
    <3>1. i \in 1 .. d /\ i \in 1 .. Len(attempts) /\ k = GivenUp + i /\ k \in 1 .. Len(admitted)
      BY <1>0, <1>1, <2>2
    <3> HIDE DEF i
    <3>2. attempts[i] = admitted[k]
      BY <3>1 DEF RateInv
    <3>3. attempts[i] + Window <= now
      BY <3>1 DEF LeftAfter
    <3>4. admitted[k] \in Nat
      BY <1>0, <3>1
    <3> QED
      BY <1>0, <3>2, <3>3, <3>4
  <2> QED
    BY <2>1, <2>2
<1>4. ASSUME NEW i \in 1 .. Len(p) PROVE p[i] = admitted[GivenUp + d + i]
  <2>1. d + i \in 1 .. Len(attempts) /\ GivenUp + (d + i) = GivenUp + d + i
    BY <1>0, <1>1, <1>2
  <2>2. attempts[d + i] = admitted[GivenUp + (d + i)]
    BY <2>1 DEF RateInv
  <2> QED
    BY <1>2, <2>1, <2>2
<1>5. GivenUp + d <= Len(admitted) /\ Len(p) = Len(admitted) - (GivenUp + d)
  BY <1>0, <1>1, <1>2
<1> QED
  BY <1>1, <1>3, <1>4, <1>5

\* A check that is refused only prunes.
LEMMA Refusing ==
  ASSUME RateInv, clock \in Nat, UNCHANGED clock, NEW now \in Nat, now <= clock,
         attempts' = Pruned(now), admitted' = admitted
  PROVE  RateInv'
<1>1. PICK d \in 0 .. Len(attempts) : LeftAfter(Pruned(now), d, now)
  BY PruningGivesUp DEF RateInv
<1>2. LeftAfter(attempts', d, now)
  BY <1>1
<1>3. /\ \A k \in 1 .. GivenUp + d : admitted[k] + Window <= clock
      /\ \A i \in 1 .. Len(attempts') : attempts'[i] = admitted[GivenUp + d + i]
      /\ GivenUp \in Nat /\ GivenUp + d <= Len(admitted)
      /\ Len(attempts') = Len(admitted) - (GivenUp + d)
  BY <1>2, GivenUpAreOld
<1>4. /\ attempts' \in Seq(Nat) /\ Len(attempts') = Len(attempts) - d
      /\ Len(attempts) \in Nat /\ Len(admitted) \in Nat /\ Len(attempts) <= MaxAttempts
      /\ MaxAttempts \in Nat
  BY <1>2, LenProperties, Limits DEF LeftAfter, RateInv
<1>5. GivenUp' = GivenUp + d /\ Len(attempts') <= MaxAttempts /\ Len(attempts') <= Len(admitted)
  BY <1>3, <1>4 DEF GivenUp
<1> QED
  BY <1>3, <1>4, <1>5 DEF RateInv

\* A check that is let through finds fewer than MaxAttempts not given up.
LEMMA Admitting ==
  ASSUME RateInv, clock \in Nat, UNCHANGED clock, NEW now \in Nat, now <= clock,
         clock <= now + MaxLag, RateAllows(now),
         attempts' = Append(Pruned(now), now), admitted' = Append(admitted, now)
  PROVE  RateInv'
<1> DEFINE p == Pruned(now)
           n == Len(admitted)
<1>1. PICK d \in 0 .. Len(attempts) : LeftAfter(p, d, now)
  BY PruningGivesUp DEF RateInv
<1>2. Len(p) < MaxAttempts
  BY DEF RateAllows
<1>3. attempts' = Append(p, now)
  OBVIOUS
<1> HIDE DEF p
<1>4. /\ \A k \in 1 .. GivenUp + d : admitted[k] + Window <= clock
      /\ \A i \in 1 .. Len(p) : p[i] = admitted[GivenUp + d + i]
      /\ GivenUp \in Nat /\ GivenUp + d <= n /\ Len(p) = n - (GivenUp + d)
  BY <1>1, GivenUpAreOld
<1>5. /\ p \in Seq(Nat) /\ Len(p) \in Nat /\ admitted \in Seq(Nat) /\ n \in Nat
      /\ MaxAttempts \in Nat /\ Window \in Nat /\ MaxLag \in Nat
      /\ \A k \in 1 .. n : admitted[k] \in Nat
  BY <1>1, LenProperties, Limits DEF LeftAfter, RateInv
<1>6. /\ attempts' \in Seq(Nat) /\ Len(attempts') = Len(p) + 1
      /\ \A i \in 1 .. Len(p) : attempts'[i] = p[i]
      /\ attempts'[Len(p) + 1] = now
  BY <1>3, <1>5, AppendProperties
<1>7. /\ admitted' \in Seq(Nat) /\ Len(admitted') = n + 1
      /\ \A k \in 1 .. n : admitted'[k] = admitted[k]
      /\ admitted'[n + 1] = now
  BY <1>5, AppendProperties
<1> HIDE DEF n
<1>8. GivenUp' = GivenUp + d /\ Len(attempts') <= MaxAttempts /\ Len(attempts') <= Len(admitted')
  BY <1>2, <1>4, <1>5, <1>6, <1>7 DEF GivenUp
<1>9. ASSUME NEW k \in 1 .. GivenUp + d PROVE k \in 1 .. n /\ admitted'[k] + Window <= clock
  <2>1. k \in 1 .. n
    BY <1>4, <1>5
  <2> QED
    BY <1>4, <1>7, <2>1
<1>10. ASSUME NEW i \in 1 .. Len(attempts') PROVE attempts'[i] = admitted'[GivenUp + d + i]
  <2>1. CASE i = Len(p) + 1
    <3>1. GivenUp + d + i = n + 1
      BY <1>4, <1>5, <2>1
    <3> QED
      BY <1>6, <1>7, <2>1, <3>1
  <2>2. CASE i # Len(p) + 1
    <3>1. i \in 1 .. Len(p) /\ GivenUp + d + i \in 1 .. n
      BY <1>4, <1>5, <1>6, <2>2
    <3> QED
      BY <1>4, <1>6, <1>7, <3>1
  <2> QED
    BY <2>1, <2>2
<1>11. ASSUME NEW k \in 1 .. n + 1, NEW j \in 1 .. n + 1, k + MaxAttempts <= j
       PROVE  admitted'[k] + Window <= admitted'[j] + MaxLag
  <2>1. CASE j = n + 1
    <3>1. k \in 1 .. GivenUp + d
      BY <1>2, <1>4, <1>5, <1>11, <2>1
    <3>2. admitted'[k] + Window <= clock /\ admitted'[k] = admitted[k] /\ admitted[k] \in Nat
      BY <1>5, <1>7, <1>9, <3>1
    <3> QED
      BY <1>5, <1>7, <2>1, <3>2
  <2>2. CASE j # n + 1
    <3>1. k \in 1 .. n /\ j \in 1 .. n
      BY <1>5, <1>11, <2>2, Limits
    <3>2. admitted[k] + Window <= admitted[j] + MaxLag
      BY <1>11, <3>1 DEF RateInv, n
    <3> QED
      BY <1>7, <3>1, <3>2
  <2> QED
    BY <2>1, <2>2
<1> QED
  BY <1>6, <1>7, <1>8, <1>9, <1>10, <1>11 DEF RateInv

\* Every step keeps the spacing of the admitted checks.
LEMMA RateStep ==
  ASSUME CountersOK, FieldsOK, RateInv, [Next]_vars
  PROVE  RateInv'
<1>0. clock \in Nat /\ clock' \in {clock, clock + 1} /\ Window \in Nat
  BY CountersStep, Limits DEF CountersOK, Times
<1>1. ASSUME UNCHANGED <<attempts, admitted>> PROVE RateInv'
  <2>1. ASSUME NEW k \in 1 .. GivenUp PROVE admitted[k] + Window <= clock'
    <3>1. admitted[k] + Window <= clock
      BY <2>1 DEF RateInv
    <3>2. admitted[k] \in Nat
      <4>1. Len(attempts) \in Nat /\ Len(admitted) \in Nat
        BY LenProperties DEF RateInv
      <4>2. k \in 1 .. Len(admitted)
        BY <4>1 DEF GivenUp
      <4> QED
        BY <4>2, LenProperties DEF RateInv
    <3> QED
      BY <1>0, <3>1, <3>2
  <2> QED
    BY <1>1, <2>1 DEF RateInv, GivenUp
<1>2. ASSUME NEW r \in Requests, Handler(r) PROVE RateInv'
  <2>1. CASE RateChecked(r)
    <3> DEFINE now == request[r].now
    <3>1. now \in Nat /\ now <= clock /\ clock <= now + MaxLag /\ clock' = clock
      BY <2>1 DEF RateChecked, CheckAt, FieldsOK, Carried
    <3>2. RateNoted(now)
      BY <2>1 DEF RateChecked
    <3> HIDE DEF now
    <3>3. CASE RateAllows(now)
      BY <1>0, <3>1, <3>2, <3>3, Admitting DEF RateNoted
    <3>4. CASE ~RateAllows(now)
      BY <1>0, <3>1, <3>2, <3>4, Refusing DEF RateNoted
    <3> QED
      BY <3>3, <3>4
  <2>2. CASE \/ LoginBegun(r) \/ ReauthenticationBegun(r) \/ LogoutBegun(r) \/ UpdateBegun(r)
             \/ RestoreBegun(r) \/ TokenConsumed(r) \/ PasswordRefused(r)
    BY <1>1, <2>2
    DEF LoginBegun, ReauthenticationBegun, LogoutBegun, UpdateBegun, RestoreBegun, TokenConsumed,
        PasswordRefused, KeepSessions, sessionVars, Consume
  <2>3. CASE \/ PasswordAccepted(r) \/ LoggedOut(r)
    BY <1>1, <2>3 DEF PasswordAccepted, LoggedOut
  <2>4. CASE \/ UpdateChecked(r) \/ UpdateWritten(r) \/ UpdateFailed(r) \/ Published(r)
             \/ Restored(r) \/ Dropped(r)
    BY <1>1, <2>4
    DEF UpdateChecked, UpdateWritten, UpdateFailed, Published, Restored, Dropped, KeepSessions,
        sessionVars
  <2> QED
    BY <1>2, <2>1, <2>2, <2>3, <2>4 DEF Handler
<1>3. CASE Restarted
  <2>1. attempts' = <<>> /\ admitted' = <<>>
    BY <1>3 DEF Restarted, Forget
  <2>2. <<>> \in Seq(Nat) /\ Len(<<>>) = 0 /\ MaxAttempts \in Nat
    BY EmptySeq, Limits
  <2> QED
    BY <2>1, <2>2 DEF RateInv, GivenUp
<1>4. CASE SessionAsked \/ ExpiryNoticed
  BY <1>1, <1>4 DEF SessionAsked, ExpiryNoticed
<1>5. CASE BackupCreated \/ Tick \/ UNCHANGED vars
  BY <1>1, <1>5 DEF BackupCreated, Tick, KeepSessions, vars, sessionVars
<1> QED
  BY <1>2, <1>3, <1>4, <1>5 DEF Next

-----------------------------------------------------------------------------
(* The results. *)

\* The program starts with the seeded rows, no events and nothing admitted.
LEMMA StateStart == Init => StateInv
<1> SUFFICES ASSUME Init PROVE StateInv
  OBVIOUS
<1>1. CountersOK
  <2>1. clock = 0 /\ begun = 0 /\ raced = FALSE /\ drifted = FALSE
    BY DEF Init
  <2>2. clock \in Times /\ begun \in 0 .. MaxRequests
    BY <2>1, Limits DEF Times
  <2> QED
    BY <2>1, <2>2 DEF CountersOK
<1>2. FieldsOK
  BY NothingCarried DEF Init, FieldsOK
<1>3. MapsOK
  BY EmptyMap, Limits DEF Init, SessionInit, MapsOK
<1> DEFINE Row(table) == [value : UNION {Offered(table, k) : k \in Keys[table]}, version : Nat]
           settings == [k \in Keys.settings |->
                          [value |-> IF k = "poll" THEN SeededPoll ELSE SeededLease, version |-> 1]]
           adapters == [a \in Adapters |-> [value |-> SeededAdapter, version |-> 1]]
           audit == [o \in Outcomes |-> 0]
<1>4. /\ db = [settings |-> settings, adapters |-> adapters, audit |-> audit]
      /\ saved = db /\ published = Snapshot(db.adapters)
  BY DEF Init, AdminInit
<1>5. Keys.settings = {"poll", "lease"} /\ Keys.adapters = Adapters
  BY DEF Keys
<1>6. settings \in Rows("settings")
  <2>1. SeededPoll \in Offered("settings", "poll") /\ SeededLease \in Offered("settings", "lease")
    BY AdminAssumption DEF Offered
  <2>2. \A k \in Keys["settings"] : settings[k] \in Row("settings")
    <3>1. settings["poll"] = [value |-> SeededPoll, version |-> 1]
          /\ settings["lease"] = [value |-> SeededLease, version |-> 1]
      BY <1>5
    <3>2. settings["poll"] \in Row("settings") /\ settings["lease"] \in Row("settings")
      BY <1>5, <2>1, <3>1
    <3> HIDE DEF settings, Row
    <3> QED
      BY <1>5, <3>2
  <2>3. settings \in [Keys["settings"] -> Row("settings")]
    <3> HIDE DEF Row
    <3> QED BY <2>2
  <2> QED
    BY <2>3 DEF Rows
<1>7. adapters \in Rows("adapters")
  <2>1. \A a \in Adapters : SeededAdapter \in Offered("adapters", a)
    BY AdminAssumption DEF Offered
  <2>2. \A a \in Adapters : adapters[a] \in Row("adapters")
    BY <1>5, <2>1
  <2>3. adapters \in [Keys["adapters"] -> Row("adapters")]
    <3> HIDE DEF Row
    <3> QED BY <1>5, <2>2
  <2> QED
    BY <2>3 DEF Rows
<1>8. audit \in [Outcomes -> Nat] /\ audit["succeeded"] = 0
  BY DEF Outcomes
<1>9. \A t \in Tables : \A k \in Keys[t] : db[t][k].version = 1
  <2>1. \A k \in Keys.settings : settings[k].version = 1
    OBVIOUS
  <2>2. \A a \in Adapters : adapters[a].version = 1
    OBVIOUS
  <2> HIDE DEF settings, adapters, audit
  <2> QED
    BY <1>4, <1>5, <2>1, <2>2, TableNames
<1>10. published \in Snapshots
  <2>1. \A a \in Adapters : adapters[a].value = SeededAdapter /\ SeededAdapter \in Buildable
    BY AdminAssumption
  <2> HIDE DEF settings, adapters, audit
  <2>2. Sound(db.adapters)
    BY <1>4, <1>5, <2>1 DEF Sound
  <2> QED
    BY <1>4, <2>2, SnapshotBuildable
<1> HIDE DEF settings, adapters, audit
<1>11. db \in Databases
  BY <1>4, <1>6, <1>7, <1>8 DEF Databases
<1>12. StoreOK
  BY <1>4, <1>10, <1>11, StoreTyped
<1>13. Reached(db) = {}
  BY <1>9 DEF Reached
<1>14. AuditInv
  BY <1>4, <1>8, <1>13, FS_EmptySet DEF AuditInv, Counts
<1>15. RateInv
  <2>1. attempts = <<>> /\ admitted = <<>> /\ clock = 0
    BY DEF Init, SessionInit
  <2>2. <<>> \in Seq(Nat) /\ Len(<<>>) = 0 /\ MaxAttempts \in Nat
    BY EmptySeq, Limits
  <2> QED
    BY <2>1, <2>2 DEF RateInv, GivenUp
<1> QED
  BY <1>1, <1>2, <1>3, <1>12, <1>14, <1>15 DEF StateInv

\* The state invariant holds through every interleaving of handlers, restores,
\* departures and restarts.
THEOREM StateSound == Spec => []StateInv
<1>1. AdminInv /\ TokensInv /\ StateInv /\ [Next]_vars => StateInv'
  <2> SUFFICES ASSUME AdminInv, TokensInv, StateInv, [Next]_vars PROVE StateInv'
    OBVIOUS
  <2>0. RequestsFormed /\ CountersOK /\ FieldsOK /\ MapsOK /\ StoreOK /\ RateInv /\ AuditInv
    BY DEF AdminInv, StateInv
  <2>1. CountersOK'
    BY <2>0, CountersStep
  <2>2. FieldsOK'
    BY <2>0, FieldsStep
  <2>3. MapsOK'
    BY <2>0, MapsStep
  <2>4. StoreOK' /\ AuditInv'
    BY <2>0, StoreStep
  <2>5. RateInv'
    BY <2>0, RateStep
  <2> QED
    BY <2>1, <2>2, <2>3, <2>4, <2>5 DEF StateInv
<1> QED
  BY <1>1, StateStart, AdminSoundness, TokensSound, PTL DEF Spec

\* A handler's record, from its fields and what it carries.
LEMMA RequestTyped ==
  ASSUME RequestsFormed, FieldsOK, CountersOK, NEW r \in Requests
  PROVE  request[r] \in
           {Done, Restoring}
             \cup [op : {"login", "reauthenticate"}, at : {"consume", "limit", "finish"},
                   now : Times, cred : 0 .. issued, right : BOOLEAN]
             \cup [op : {"logout"}, cred : 1 .. issued]
             \cup [op : Tables, at : {"waiting", "writing", "publishing"},
                   key : UNION {Keys[t] : t \in Tables},
                   value : UNION {Offered(t, k) : t \in Tables, k \in UNION {Keys[u] : u \in Tables}},
                   expected : Nat, built : [Keys.adapters -> Buildable] \cup {None}]
<1> DEFINE q == request[r]
<1>0. Formed(q) /\ Carried(q, issued, clock)
  BY DEF RequestsFormed, FieldsOK
<1> HIDE DEF q
<1>1. CASE q = [op |-> "logout", cred |-> q.cred]
  <2>1. q.op = "logout"
    BY <1>1
  <2>2. q.cred \in 1 .. issued
    BY <1>0, <2>1 DEF Carried
  <2>3. q \in [op : {"logout"}, cred : 1 .. issued]
    BY <1>1, <2>2
  <2> QED
    BY <2>3 DEF q
<1>2. CASE /\ q = [op |-> q.op, at |-> q.at, now |-> q.now, cred |-> q.cred, right |-> q.right]
           /\ q.op \in {"login", "reauthenticate"}
  <2>1. /\ q.at \in {"consume", "limit", "finish"} /\ q.right \in BOOLEAN
        /\ q.cred \in 0 .. issued /\ q.now \in Nat /\ q.now <= clock
    BY <1>0, <1>2 DEF Carried
  <2>2. q.now \in Times
    BY <2>1, Limits DEF CountersOK, Times
  <2>3. q \in [op : {"login", "reauthenticate"}, at : {"consume", "limit", "finish"},
               now : Times, cred : 0 .. issued, right : BOOLEAN]
    BY <1>2, <2>1, <2>2
  <2> QED
    BY <2>3 DEF q
<1>3. CASE /\ q = [op |-> q.op, at |-> q.at, key |-> q.key, value |-> q.value,
                   expected |-> q.expected, built |-> q.built]
           /\ \/ q.op = "settings" /\ q.at \in {"waiting", "writing"}
              \/ q.op = "adapters" /\ q.at \in {"waiting", "writing", "publishing"}
  <2> DEFINE AnyKey == UNION {Keys[t] : t \in Tables}
             AnyValue == UNION {Offered(t, k) : t \in Tables, k \in UNION {Keys[u] : u \in Tables}}
  <2>1. q.op \in Tables /\ q.at \in {"waiting", "writing", "publishing"}
    BY <1>3, TableNames
  <2>2. /\ q.key \in Keys[q.op] /\ q.value \in Offered(q.op, q.key) /\ q.expected \in Nat
        /\ q.built \in Snapshots \cup {None}
    BY <1>0, <2>1 DEF Carried
  <2>3. q.key \in AnyKey
    BY <2>1, <2>2
  <2>4. q.value \in AnyValue
    BY <2>1, <2>2, <2>3
  <2> HIDE DEF AnyKey, AnyValue
  <2>5. q \in [op : Tables, at : {"waiting", "writing", "publishing"}, key : AnyKey,
               value : AnyValue, expected : Nat, built : [Keys.adapters -> Buildable] \cup {None}]
    BY <1>3, <2>1, <2>2, <2>3, <2>4 DEF Snapshots
  <2> QED
    BY <2>5 DEF q, AnyKey, AnyValue
<1>4. CASE q = Done \/ q = Restoring
  BY <1>4 DEF q
<1> QED
  BY <1>0, <1>1, <1>2, <1>3, <1>4 DEF Formed

\* The session manager, the tables and every handler stay well formed, and the
\* maps within their capacity (evict_one_at_capacity).
THEOREM StateTyped == Spec => []TypeOK
<1>1. AdminInv /\ TokensInv /\ StateInv => TypeOK
  <2> SUFFICES ASSUME AdminInv, TokensInv, StateInv PROVE TypeOK
    OBVIOUS
  <2>0. RequestsFormed /\ CountersOK /\ FieldsOK /\ MapsOK /\ StoreOK /\ RateInv
    BY DEF AdminInv, StateInv
  <2>1. SessionTypeOK
    <3>1. Len(attempts) <= MaxAttempts /\ \A i \in DOMAIN attempts : attempts[i] \in Nat
      BY <2>0, LenProperties DEF RateInv
    <3> QED
      BY <2>0, <3>1 DEF SessionTypeOK, TokensInv, Ids, MapsOK, WellMapped, Tokens, Sessions
  <2>2. AdminTypeOK
    BY <2>0 DEF StoreOK
  <2> QED
    BY <2>0, <2>1, <2>2, RequestTyped DEF TypeOK, CountersOK
<1> QED
  BY <1>1, StateSound, AdminSoundness, TokensSound, PTL

\* A set of positions has a last one.
LEMMA LastPosition ==
  ASSUME NEW n \in Nat, NEW S \in SUBSET (1 .. n), S # {}
  PROVE  \E i \in S : \A j \in S : j <= i
<1> DEFINE T == {n - i : i \in S}
<1>1. T \in SUBSET Nat /\ T # {}
  OBVIOUS
<1> HIDE DEF T
<1>2. PICK m \in T : \A k \in T : m <= k
  <2>1. IsWellFoundedOn(OpToRel(<, Nat), Nat)
    BY NatLessThanWellFounded
  <2>2. PICK m \in T : \A k \in T : ~(<<k, m>> \in OpToRel(<, Nat))
    BY <1>1, <2>1, WFMin
  <2>3. \A k \in T : ~(k < m)
    BY <1>1, <2>2 DEF OpToRel
  <2>4. \A k \in T : m \in Nat /\ k \in Nat
    BY <1>1, <2>2
  <2>5. \A k \in T : m <= k
    BY <2>3, <2>4
  <2> QED
    BY <2>2, <2>5
<1>3. PICK i \in S : m = n - i
  BY <1>2 DEF T
<1>4. \A j \in S : n - i <= n - j
  BY <1>2, <1>3 DEF T
<1> QED
  BY <1>4

\* No span shorter than the window less the longest wait sees more password
\* checks than the limit (check_rate_limit).
THEOREM ChecksLimited == Spec => []RateBounded
<1>1. RateInv => RateBounded
  <2> SUFFICES ASSUME RateInv, NEW i \in DOMAIN admitted
               PROVE  Cardinality({j \in DOMAIN admitted :
                                     /\ admitted[i] <= admitted[j]
                                     /\ admitted[j] < admitted[i] + Window - MaxLag}) <= MaxAttempts
    BY DEF RateBounded
  <2> DEFINE n == Len(admitted)
             S == {j \in DOMAIN admitted : /\ admitted[i] <= admitted[j]
                                           /\ admitted[j] < admitted[i] + Window - MaxLag}
  <2>1. /\ n \in Nat /\ DOMAIN admitted = 1 .. n /\ \A k \in 1 .. n : admitted[k] \in Nat
        /\ MaxAttempts \in Nat /\ Window \in Nat /\ MaxLag \in Nat
    BY LenProperties, Limits DEF RateInv
  <2>2. CASE S = {}
    <3>1. Cardinality(S) = 0
      BY <2>2, FS_EmptySet
    <3> QED
      BY <2>1, <3>1
  <2>3. CASE S # {}
    <3>1. PICK last \in S : \A j \in S : j <= last
      BY <2>1, <2>3, LastPosition
    <3>2. last \in 1 .. n /\ admitted[last] < admitted[i] + Window - MaxLag
      BY <2>1, <3>1
    <3>3. ASSUME NEW k \in S PROVE k \in last - MaxAttempts + 1 .. last
      <4>1. k \in 1 .. n /\ k <= last /\ admitted[i] <= admitted[k]
        BY <2>1, <3>1, <3>3
      <4>2. CASE k + MaxAttempts <= last
        <5>1. admitted[k] + Window <= admitted[last] + MaxLag
          BY <3>2, <4>1, <4>2 DEF RateInv
        <5>2. admitted[k] \in Nat /\ admitted[i] \in Nat /\ admitted[last] \in Nat
          BY <2>1, <3>2, <4>1
        <5> QED
          BY <2>1, <3>2, <4>1, <5>1, <5>2
      <4>3. CASE ~(k + MaxAttempts <= last)
        BY <2>1, <3>2, <4>1, <4>3
      <4> QED
        BY <4>2, <4>3
    <3>4. /\ IsFiniteSet(last - MaxAttempts + 1 .. last)
          /\ Cardinality(last - MaxAttempts + 1 .. last) <= MaxAttempts
      <4> DEFINE first == last - MaxAttempts + 1
      <4>1. first \in Int /\ last \in Int /\ last - first + 1 = MaxAttempts
        BY <2>1, <3>2
      <4> HIDE DEF first
      <4>2. /\ IsFiniteSet(first .. last)
            /\ Cardinality(first .. last) = IF first > last THEN 0 ELSE last - first + 1
        BY <4>1, FS_Interval
      <4>3. Cardinality(first .. last) <= MaxAttempts
        BY <2>1, <4>1, <4>2
      <4> QED
        BY <4>2, <4>3 DEF first
    <3> HIDE DEF S
    <3>5. S \in SUBSET (last - MaxAttempts + 1 .. last)
      BY <3>3
    <3>6. /\ IsFiniteSet(S)
          /\ Cardinality(S) <= Cardinality(last - MaxAttempts + 1 .. last)
      BY <3>4, <3>5, FS_Subset
    <3>7. Cardinality(S) \in Nat /\ Cardinality(last - MaxAttempts + 1 .. last) \in Nat
      BY <3>4, <3>6, FS_CardinalityType
    <3>8. Cardinality(S) <= MaxAttempts
      BY <2>1, <3>4, <3>6, <3>7
    <3> QED
      BY <3>8 DEF S
  <2> QED
    BY <2>2, <2>3
<1> QED
  BY <1>1, StateSound, PTL DEF StateInv

\* Every version a row has reached has its one succeeded event beside it, also
\* after a restore (update_runtime_setting, update_adapter, audit::append).
THEOREM ChangesAudited == Spec => []EveryChangeAudited
<1>1. StateInv => EveryChangeAudited
  BY DEF StateInv, AuditInv, Counts, EveryChangeAudited
<1> QED
  BY <1>1, StateSound, PTL
=============================================================================
