SPECIFICATION Spec
CONSTANTS
  Request = {c1, c2}
  PoolSize = 1
  InsertTimeout = 1
  ShutdownTimeout = 1
  DrainTimeout = 1
PROPERTIES NoRecordWhileDraining
CHECK_DEADLOCK FALSE
