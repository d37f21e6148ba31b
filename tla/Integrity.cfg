SPECIFICATION Spec
CONSTANTS
  goal = goal
  home = home
  away = away
  thread = thread
  None = None
  Goals = {goal}
  Sessions = {home, away}
  Lineages = {thread}
  Ids = {r1}
  Actors = {a1}
  Keys = {k1, k2}
  Checkers = {c1}
  Schedulers = {s1}
  AddArgs <- IntegrityAdds
  UpdateArgs <- IntegrityUpdates
  SnoozeUntils = {2}
  CheckContexts <- SameSession
  BatchSize = 1
  PageLimit = 1
  MaxTime = 2
  MaxLag = 1
  MaxVersion = 4
INVARIANTS TypeOK RowsConsistent EvidenceIffCompleted GoalLinked AuditChain AtMostOnce RetryAnswered
PROPERTIES TerminalFrozen ImplementsLifecycle
