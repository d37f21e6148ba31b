SPECIFICATION Spec
CONSTANTS
  None = None
  r1 = r1
  r2 = r2
  a1 = a1
  a2 = a2
  plain = plain
  altered = altered
  broken = broken
  Requests = {r1, r2}
  MaxSessions = 1
  MaxTokens = 2
  MaxAttempts = 2
  Window = 3
  TokenTTL = 2
  SessionTTL = 3
  Polls = {1, 2}
  Leases = {3, 5}
  Configurations = {plain, altered, broken}
  Buildable = {plain, altered}
  Adapters = {a1, a2}
  SeededPoll = 1
  SeededLease = 3
  SeededAdapter = plain
  Fresh = 1
  MaxRequests = 4
  MaxTime = 4
  MaxLag = 1
SYMMETRY Alike
CHECK_DEADLOCK FALSE
INVARIANTS TypeOK RateBounded EndedStaysEnded SettingsCoherent PublishedIsConfigured EveryChangeAudited
