SPECIFICATION Spec
CONSTANTS
  None = None
  Processes = {p1, p2}
  LeaseDuration = 3
  PollInterval = 1
  MaxApply = 2
  MaxTime = 6
  MaxEvaluation = 0
SYMMETRY Holders
INVARIANTS TypeOK OneBeliever OneApplying
PROPERTIES LiveLeaseUntouched CleanStopReleases
