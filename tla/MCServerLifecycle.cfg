SPECIFICATION FairSpec
CONSTANTS
  Request = {c1, c2, c3}
  PoolSize = 1
  InsertTimeout = 1
  ShutdownTimeout = 1
  DrainTimeout = 1
INVARIANTS TypeOK CrashOnlyAfterGivingUp
PROPERTIES CleanStopKeepsClicks InsertsEnd ExitsUnlessQueryHangs
CHECK_DEADLOCK FALSE
