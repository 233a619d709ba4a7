SPECIFICATION Spec
CONSTANTS
  t1 = t1  t2 = t2
  Turns = {t1, t2}
  Target = t1
  PageSize = 2
  MaxPages = 2
  MaxItems = 5
INVARIANTS
  TypeOK
  StopSparesRunningTurns
PROPERTIES
  NotFoundIsHistory
  ExclusiveReceiptIsSeen
  RefusalIsJustified
