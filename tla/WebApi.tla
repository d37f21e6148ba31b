-------------------------------- MODULE WebApi --------------------------------
(***************************************************************************)
(* The administrative half of the web API (http/api/mod.rs, http/api/      *)
(* admin.rs): concurrent requests pass the session manager and change      *)
(* settings and adapters, while a restore replaces the database under      *)
(* them, a client's departure drops a handler at an await, and the program *)
(* may restart.                                                            *)
(***************************************************************************)
EXTENDS WebSessions, Administration

CONSTANTS
  Requests,     \* handlers that may be running at once
  Fresh,        \* how recent a password check a restore asks for
  MaxRequests,  \* bound: requests and restarts in a behaviour
  MaxTime,      \* bound on the clock
  MaxLag        \* bound: ticks between a request's reading of the clock and its last use

ASSUME ApiAssumption ==
  /\ {Fresh, MaxRequests, MaxTime, MaxLag} \subseteq Nat
  /\ MaxLag < Window

VARIABLES
  clock,     \* the wall clock
  request,   \* each handler's progress
  begun,     \* how many requests and restarts so far
  raced,     \* history: a restore came between a setting's check and its write
  drifted    \* history: a restore or a dropped handler parted adapters and snapshot

vars == <<sessionVars, adminVars, clock, request, begun, raced, drifted>>

Done == [op |-> "done"]
Times == 0 .. MaxTime

\* A password check: login with a token, reauthenticate with a session.
Check(op, at, cred, right) == [op |-> op, at |-> at, now |-> clock, cred |-> cred, right |-> right]
\* built: the candidate snapshot of an adapter update.
Update(op, key, value, expected) ==
  [op |-> op, at |-> "waiting", key |-> key, value |-> value, expected |-> expected, built |-> None]
Logging(s) == [op |-> "logout", cred |-> s]
Restoring == [op |-> "restore"]

Cookies == 0 .. issued    \* the ids a browser may hold; 0 for none
Is(r, op) == request[r].op = op
IsUpdate(r) == request[r].op \in Tables
CheckAt(r, at) == request[r].op \in {"login", "reauthenticate"} /\ request[r].at = at
UpdateAt(r, at) == IsUpdate(r) /\ request[r].at = at

Counted == begun < MaxRequests /\ begun' = begun + 1
Begin(r, req) ==
  /\ Is(r, "done")
  /\ Counted
  /\ request' = [request EXCEPT ![r] = req]
Become(r, at) == request' = [request EXCEPT ![r].at = at]
End(r) == request' = [request EXCEPT ![r] = Done]

KeepSessions == UNCHANGED sessionVars
KeepAdmin == UNCHANGED <<adminVars, raced, drifted>>

-----------------------------------------------------------------------------
(* Sessions. *)

\* GET /session without a live session hands out a token.
SessionAsked ==
  \E s \in Cookies :
    /\ mode = "authenticated" /\ ~Live(s, clock)
    /\ Counted
    /\ Noticed(s, clock)
    /\ Issue(clock)
    /\ KeepAdmin /\ UNCHANGED <<mode, attempts, admitted, clock, request>>
    /\ History

\* Any other request of an expired session only removes it.
ExpiryNoticed ==
  \E s \in DOMAIN sessions :
    /\ ~Live(s, clock)
    /\ Counted
    /\ Noticed(s, clock)
    /\ KeepAdmin /\ UNCHANGED <<mode, tokens, attempts, issued, admitted, clock, request>>
    /\ History

LoginBegun(r) ==
  \E t \in 1 .. issued, right \in BOOLEAN :
    /\ mode = "authenticated"
    /\ Begin(r, Check("login", "consume", t, right))
    /\ KeepSessions /\ KeepAdmin /\ UNCHANGED clock

TokenConsumed(r) ==
  /\ CheckAt(r, "consume")
  /\ Consume(request[r].cred)
  /\ IF Accepts(request[r].cred, request[r].now) THEN Become(r, "limit") ELSE End(r)
  /\ KeepAdmin /\ UNCHANGED <<mode, sessions, attempts, issued, admitted, clock, begun>>
  /\ History

ReauthenticationBegun(r) ==
  \E s \in DOMAIN sessions \cup {0}, right \in BOOLEAN :
    /\ IF mode = "unauthenticated" THEN s = 0 ELSE Live(s, clock)
    /\ Begin(r, Check("reauthenticate", "limit", s, right))
    /\ KeepSessions /\ KeepAdmin /\ UNCHANGED clock

RateChecked(r) ==
  /\ CheckAt(r, "limit")
  /\ RateNoted(request[r].now)
  /\ IF RateAllows(request[r].now) THEN Become(r, "finish") ELSE End(r)
  /\ KeepAdmin /\ UNCHANGED <<mode, tokens, sessions, issued, ended, clock, begun>>

PasswordRefused(r) ==
  /\ CheckAt(r, "finish")
  /\ ~request[r].right
  /\ End(r)
  /\ KeepSessions /\ KeepAdmin /\ UNCHANGED <<clock, begun>>

PasswordAccepted(r) ==
  /\ CheckAt(r, "finish")
  /\ request[r].right
  /\ IF Is(r, "login") \/ mode = "unauthenticated"
     THEN Open(request[r].now)
     ELSE Prove(request[r].cred, request[r].now) /\ UNCHANGED issued
  /\ End(r)
  /\ KeepAdmin /\ UNCHANGED <<mode, tokens, attempts, admitted, clock, begun>>
  /\ History

\* logout authorises the request first and removes the session later.
LogoutBegun(r) ==
  \E s \in DOMAIN sessions :
    /\ Authentic(s, clock)
    /\ Begin(r, Logging(s))
    /\ KeepSessions /\ KeepAdmin /\ UNCHANGED clock

LoggedOut(r) ==
  /\ Is(r, "logout")
  /\ Logout(request[r].cred)
  /\ End(r)
  /\ KeepAdmin /\ UNCHANGED <<mode, tokens, attempts, issued, admitted, clock, begun>>
  /\ History

-----------------------------------------------------------------------------
(* Settings and adapters. *)

UpdateBegun(r) ==
  \E s \in Cookies, table \in Tables :
    \E key \in Keys[table] :
      \E value \in Offered(table, key), expected \in 1 .. db[table][key].version :
        /\ Authentic(s, clock)
        /\ Begin(r, Update(table, key, value, expected))
        /\ KeepSessions /\ KeepAdmin /\ UNCHANGED clock

\* Mutant: no lock over the table's updates.
FreeUnlocked(table) == TRUE

\* setting_mutation, adapter_mutation: held from the read to the answer.
Free(table) == ~\E q \in Requests : Is(q, table) /\ request[q].at # "waiting"

Matching(r) == db[request[r].op][request[r].key].version = request[r].expected

UpdateChecked(r) ==
  /\ UpdateAt(r, "waiting")
  /\ LET table == request[r].op
         rows == Candidate(db[table], request[r].key, request[r].value)
     IN  /\ Free(table)
         /\ IF Valid(table, rows) /\ Matching(r)
            THEN /\ request' = [request EXCEPT ![r].at = "writing",
                                               ![r].built = IF table = "adapters" THEN Snapshot(rows) ELSE None]
                 /\ UNCHANGED db
            ELSE Appended("rejected") /\ End(r)
  /\ KeepSessions /\ UNCHANGED <<saved, published, clock, begun, raced, drifted>>

UpdateWritten(r) ==
  /\ UpdateAt(r, "writing")
  /\ IF Matching(r)
     THEN /\ Committed(request[r].op, request[r].key, request[r].value)
          /\ IF Is(r, "adapters") THEN Become(r, "publishing") ELSE End(r)
     ELSE Appended("rejected") /\ End(r)
  /\ KeepSessions /\ UNCHANGED <<saved, published, clock, begun, raced, drifted>>

\* The write fails and is rolled back; its own event may fail as well.
UpdateFailed(r) ==
  /\ UpdateAt(r, "writing")
  /\ Appended("failed") \/ UNCHANGED db
  /\ End(r)
  /\ KeepSessions /\ UNCHANGED <<saved, published, clock, begun, raced, drifted>>

Published(r) ==
  /\ UpdateAt(r, "publishing")
  /\ published' = request[r].built
  /\ drifted' = (drifted /\ published' # Snapshot(db.adapters))
  /\ End(r)
  /\ KeepSessions /\ UNCHANGED <<db, saved, clock, begun, raced>>

-----------------------------------------------------------------------------
(* Backups, restores, clients that leave, and restarts. *)

BackupCreated ==
  /\ \E s \in Cookies : Authentic(s, clock)
  /\ Counted
  /\ saved' = db
  /\ KeepSessions /\ UNCHANGED <<db, published, clock, request, raced, drifted>>

\* recently_reauthenticated
Recent(s) ==
  /\ Live(s, clock)
  /\ sessions[s].proved <= clock
  /\ clock - sessions[s].proved <= Fresh

RestoreBegun(r) ==
  /\ \E s \in DOMAIN sessions : Recent(s)
  /\ Begin(r, Restoring)
  /\ KeepSessions /\ KeepAdmin /\ UNCHANGED clock

\* The rows come back as they were saved; nothing is published.
Restored(r) ==
  /\ Is(r, "restore")
  /\ db' = saved
  /\ raced' = (raced \/ \E q \in Requests : Is(q, "settings") /\ request[q].at = "writing")
  /\ drifted' = TRUE
  /\ End(r)
  /\ KeepSessions /\ UNCHANGED <<saved, published, clock, begun>>

\* A handler is dropped at an await, also after its commit took effect.
Dropped(r) ==
  /\ IsUpdate(r) \/ Is(r, "restore")
  /\ drifted' = (drifted \/ UpdateAt(r, "publishing"))
  /\ End(r)
  /\ KeepSessions /\ UNCHANGED <<adminVars, clock, begun, raced>>

\* The program ends at any point and starts again.
Restarted ==
  /\ Counted
  /\ Load
  /\ Forget
  /\ request' = [r \in Requests |-> Done]
  /\ drifted' = FALSE
  /\ UNCHANGED <<clock, raced>>
  /\ History

Punctual(r) == CheckAt(r, "consume") \/ CheckAt(r, "limit") \/ CheckAt(r, "finish")
                 => clock < request[r].now + MaxLag
Tick ==
  /\ clock < MaxTime
  /\ \A r \in Requests : Punctual(r)
  /\ clock' = clock + 1
  /\ KeepSessions /\ KeepAdmin /\ UNCHANGED <<request, begun>>

Init ==
  /\ SessionInit /\ AdminInit
  /\ clock = 0
  /\ request = [r \in Requests |-> Done]
  /\ begun = 0
  /\ raced = FALSE /\ drifted = FALSE

Handler(r) ==
  \/ LoginBegun(r) \/ TokenConsumed(r) \/ ReauthenticationBegun(r) \/ RateChecked(r)
  \/ PasswordRefused(r) \/ PasswordAccepted(r) \/ LogoutBegun(r) \/ LoggedOut(r)
  \/ UpdateBegun(r) \/ UpdateChecked(r) \/ UpdateWritten(r) \/ UpdateFailed(r) \/ Published(r)
  \/ RestoreBegun(r) \/ Restored(r) \/ Dropped(r)

Next ==
  \/ \E r \in Requests : Handler(r)
  \/ SessionAsked \/ ExpiryNoticed \/ BackupCreated \/ Restarted \/ Tick

Spec == Init /\ [][Next]_vars

-----------------------------------------------------------------------------
(* Properties *)

\* The state of the session manager, of the tables and of every handler is
\* well formed; both maps stay within their capacity.
TypeOK ==
  /\ SessionTypeOK
  /\ AdminTypeOK
  /\ clock \in Times
  /\ begun \in 0 .. MaxRequests
  /\ {raced, drifted} \subseteq BOOLEAN
  /\ \A r \in Requests : request[r] \in
       {Done, Restoring}
         \cup [op : {"login", "reauthenticate"}, at : {"consume", "limit", "finish"},
               now : Times, cred : 0 .. issued, right : BOOLEAN]
         \cup [op : {"logout"}, cred : 1 .. issued]
         \cup [op : Tables, at : {"waiting", "writing", "publishing"}, key : UNION {Keys[t] : t \in Tables},
               value : UNION {Offered(t, k) : t \in Tables, k \in UNION {Keys[u] : u \in Tables}},
               expected : Nat, built : [Keys.adapters -> Buildable] \cup {None}]

\* However logins and reauthentications interleave, and with clock readings
\* that wait at the locks, no span shorter than the window less the longest
\* wait sees more password checks than the limit (check_rate_limit).
RateBounded ==
  \A i \in DOMAIN admitted :
    Cardinality({j \in DOMAIN admitted :
                   /\ admitted[i] <= admitted[j]
                   /\ admitted[j] < admitted[i] + Window - MaxLag}) <= MaxAttempts

\* A token that was consumed or evicted, and a session that was logged out,
\* evicted, expired or lost in a restart, never comes back, not even through
\* a reauthentication that was already past its checks.
EndedStaysEnded == (DOMAIN tokens \cup DOMAIN sessions) \cap ended = {}

\* Two settings checked apart stay coherent together (update_runtime_setting
\* holds its lock from the read to the write), so the next start loads them;
\* only a restore between a check and its write can break that.
SettingsCoherent == raced \/ Coherent(db.settings)

\* Whenever no adapter update is in hand, the scheduler evaluates with the
\* adapters the table holds, unless a restore replaced the table or a handler
\* was dropped between commit and publication.
PublishedIsConfigured ==
  \/ \E r \in Requests : Is(r, "adapters") /\ request[r].at # "waiting"
  \/ drifted
  \/ published = Snapshot(db.adapters)

\* The versions the rows of a database have reached beyond the seeded one.
Reached(d) ==
  UNION {UNION {{<<t, k, v>> : v \in 2 .. d[t][k].version} : k \in Keys[t]} : t \in Tables}

\* Through stale versions, failures, restores and restarts, every version a
\* row has reached has its one succeeded event beside it.
EveryChangeAudited == db.audit["succeeded"] = Cardinality(Reached(db))
=============================================================================
