SPECIFICATION FairSpec
CONSTANTS
  old = old
  new = new
  Replicas = {old, new}
  Files <- TwoBinaries
  q1 = q1
  Requests <- OneRequest
  ConnectBudget = 1
  TotalBudget = 6
  LockBudget = 3
  UnlockBudget = 1
  StartPeriod = 9
  None = None
INVARIANTS MigratedOnce ServesMigrated WithinStartPeriod JobHasPool
PROPERTIES AnsweredFirst EveryPhaseEnds
CHECK_DEADLOCK FALSE
