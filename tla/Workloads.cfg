SPECIFICATION FairSpec
CONSTANTS
  None = None
  Slots = {t1, t2}
CHECK_DEADLOCK FALSE
INVARIANTS TypeOK MaintenanceQuiet SettledTrue StoppedMeansStopped
PROPERTIES RestoreHonoursIntent OperationsEnd
