SPECIFICATION Spec
CONSTANTS
  None = None
  Writes = {w1}
  MaxBackups = 2
  Keeps = {1}
  MaxCrashes = 1
CHECK_DEADLOCK FALSE
INVARIANTS NeverPartlyReplaced
