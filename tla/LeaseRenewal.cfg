SPECIFICATION PunctualSpec
CONSTANTS
  None = None
  Processes = {p1}
  LeaseDuration = 6
  PollInterval = 2
  MaxApply = 1
  MaxTime = 9
  MaxEvaluation = 2
INVARIANTS RenewedBeforeHalf
