----------------------------- MODULE WebSessions -----------------------------
(***************************************************************************)
(* WebSessionManager (auth/web_session.rs): one-time pre-session tokens,   *)
(* browser sessions and the shared limit on password checks, all in memory *)
(* and each behind a lock of its own.  A request reads the clock once and  *)
(* takes the locks later, so every operator is given the request's `now`.  *)
(***************************************************************************)
EXTENDS Integers, Sequences, FiniteSets, SequencesExt

CONSTANTS
  None,
  MaxSessions,  \* MAX_SESSIONS
  MaxTokens,    \* MAX_PRE_SESSION_TOKENS
  MaxAttempts,  \* MAX_LOGIN_ATTEMPTS
  Window,       \* LOGIN_WINDOW
  TokenTTL,     \* PRE_SESSION_TTL
  SessionTTL    \* REMINDI_WEBUI_SESSION_TTL_SECONDS

ASSUME SessionAssumption ==
  /\ {MaxSessions, MaxTokens, MaxAttempts, Window, TokenTTL, SessionTTL} \subseteq Nat \ {0}

VARIABLES
  mode,      \* WebMode; a disabled UI has no routes
  tokens,    \* pre_session: a token to its expiry
  sessions,  \* a session id to its expiry and its last password check
  attempts,  \* login_attempts
  issued,    \* history: tokens and ids drawn so far; random, so never twice
  ended,     \* history: those consumed, evicted, expired, logged out or lost
  admitted   \* history: request times of the password checks let through

sessionVars == <<mode, tokens, sessions, attempts, issued, ended, admitted>>

Modes == {"authenticated", "unauthenticated"}
NoEntry == [i \in {} |-> None]

Unexpired(entries, now) == Restrict(entries, {i \in DOMAIN entries : entries[i].expires > now})
Without(entries, i) == Restrict(entries, DOMAIN entries \ {i})
With(entries, i, v) == [j \in DOMAIN entries \cup {i} |-> IF j = i THEN v ELSE entries[j]]

\* Mutant: room is made only once the map is over its capacity.
EvictedLate(entries, capacity) ==
  IF Cardinality(DOMAIN entries) > capacity
  THEN {Without(entries, i) : i \in DOMAIN entries}
  ELSE {entries}

\* evict_one_at_capacity: the first key of a hash map, so any of them.
Evicted(entries, capacity) ==
  IF Cardinality(DOMAIN entries) >= capacity
  THEN {Without(entries, i) : i \in DOMAIN entries}
  ELSE {entries}

\* issue_pre_session_token
Issue(now) ==
  /\ issued' = issued + 1
  /\ \E kept \in Evicted(Unexpired(tokens, now), MaxTokens) :
       tokens' = With(kept, issued + 1, [expires |-> now + TokenTTL])

\* consume_pre_session: the token goes whether or not it is still good.
Accepts(t, now) == t \in DOMAIN tokens /\ tokens[t].expires > now
Consume(t) == tokens' = Without(tokens, t)

\* Mutant: an attempt leaves the window a tick early.
PrunedEarly(now) ==
  LET recent == {i \in DOMAIN attempts : attempts[i] > now - Window + 1}
  IN  IF recent = {} THEN <<>>
      ELSE SubSeq(attempts, CHOOSE i \in recent : \A j \in recent : i <= j, Len(attempts))

\* check_rate_limit takes attempts off the front only.
Pruned(now) ==
  LET recent == {i \in DOMAIN attempts : attempts[i] > now - Window}
  IN  IF recent = {} THEN <<>>
      ELSE SubSeq(attempts, CHOOSE i \in recent : \A j \in recent : i <= j, Len(attempts))

RateAllows(now) == Len(Pruned(now)) < MaxAttempts
RateNoted(now) ==
  /\ attempts' = IF RateAllows(now) THEN Append(Pruned(now), now) ELSE Pruned(now)
  /\ admitted' = IF RateAllows(now) THEN Append(admitted, now) ELSE admitted

\* The insertion shared by login and an unauthenticated UI's reauthenticate.
Open(now) ==
  /\ issued' = issued + 1
  /\ \E kept \in Evicted(Unexpired(sessions, now), MaxSessions) :
       sessions' = With(kept, issued + 1, [expires |-> now + SessionTTL, proved |-> now])

\* authenticate
Live(s, now) == s \in DOMAIN sessions /\ sessions[s].expires > now
Authentic(s, now) == mode = "unauthenticated" \/ Live(s, now)
Noticed(s, now) ==
  sessions' = IF s \in DOMAIN sessions /\ ~Live(s, now) THEN Without(sessions, s) ELSE sessions

\* Mutant: the session is copied before the check and written back after it.
ProveCopied(s, now) ==
  sessions' = With(sessions, s, [expires |-> now + SessionTTL, proved |-> now])

\* reauthenticate, for a session that is still there.
Prove(s, now) ==
  sessions' = IF Live(s, now) THEN [sessions EXCEPT ![s].proved = now] ELSE sessions

Logout(s) == sessions' = Without(sessions, s)

\* Whatever left either map has ended.
History == ended' = ended \cup ((DOMAIN tokens \cup DOMAIN sessions)
                                  \ (DOMAIN tokens' \cup DOMAIN sessions'))

SessionInit ==
  /\ mode \in Modes
  /\ tokens = NoEntry /\ sessions = NoEntry /\ attempts = <<>>
  /\ issued = 0 /\ ended = {} /\ admitted = <<>>

\* A restart forgets everything the manager kept.
Forget ==
  /\ tokens' = NoEntry /\ sessions' = NoEntry /\ attempts' = <<>> /\ admitted' = <<>>
  /\ UNCHANGED <<mode, issued>>

SessionTypeOK ==
  /\ mode \in Modes
  /\ issued \in Nat
  /\ ended \subseteq 1 .. issued
  /\ DOMAIN tokens \cup DOMAIN sessions \subseteq 1 .. issued
  /\ DOMAIN tokens \cap DOMAIN sessions = {}
  /\ Cardinality(DOMAIN tokens) <= MaxTokens
  /\ Cardinality(DOMAIN sessions) <= MaxSessions
  /\ \A t \in DOMAIN tokens : tokens[t] \in [expires : Nat]
  /\ \A s \in DOMAIN sessions : sessions[s] \in [expires : Nat, proved : Nat]
  /\ Len(attempts) <= MaxAttempts
  /\ \A i \in DOMAIN attempts : attempts[i] \in Nat
=============================================================================
