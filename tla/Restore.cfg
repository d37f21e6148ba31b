SPECIFICATION Spec
CONSTANTS
  None = None
  Writes = {w1}
  MaxBackups = 3
  Keeps = {1, 2}
  MaxCrashes = 1
CHECK_DEADLOCK FALSE
INVARIANTS TypeOK RecoveryHasItsCopy MainWhole
PROPERTIES ReplacedUnderJournal AnswerIsTrue CataloguedFromFiles RetentionSparesNewest
