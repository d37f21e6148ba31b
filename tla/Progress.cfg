SPECIFICATION FairSpec
CONSTANTS
  goal = goal
  home = home
  away = away
  thread = thread
  None = None
  Goals = {goal}
  Sessions = {home, away}
  Lineages = {thread}
  Ids = {r1, r2}
  Actors = {a1}
  Keys = {k1, k2}
  Checkers = {}
  Schedulers = {s1}
  AddArgs <- ProgressAdds
  UpdateArgs = {}
  SnoozeUntils = {2}
  CheckContexts <- SameSession
  BatchSize = 1
  PageLimit = 1
  MaxTime = 2
  MaxLag = 0
  MaxVersion = 3
PROPERTY Surfaces
CHECK_DEADLOCK FALSE
