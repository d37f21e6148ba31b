SPECIFICATION FairSpec
CONSTANTS
  None = None
  Processes = {p1, p2}
  LeaseDuration = 3
  PollInterval = 1
  MaxApply = 2
  MaxTime = 3
  MaxEvaluation = 0
PROPERTIES StopCompletes ImplementsRuntime
