SPECIFICATION Spec
CONSTANTS
  goal = goal
  home = home
  away = away
  thread = thread
  None = None
  Goals = {goal}
  Sessions = {home, away}
  Lineages = {thread}
  Ids = {r1}
  Actors = {a1}
  Keys = {k1}
  Checkers = {c1}
  Schedulers = {s1}
  AddArgs <- ProgressAdds
  UpdateArgs = {}
  SnoozeUntils = {2}
  CheckContexts <- TwoSessions
  BatchSize = 1
  PageLimit = 1
  MaxTime = 3
  MaxLag = 1
  MaxVersion = 4
INVARIANT ManualReadinessRetained
