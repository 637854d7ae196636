SPECIFICATION Spec
CONSTANTS
  old = old
  new = new
  Process <- MCProcess
  Argument <- MCArgument
  Ships <- MCShips
  Environment <- MCEnvironment
  MaxRestarts = 1
  None = None
INVARIANTS TypeOK MigrationsInOrder ServesMigrated OneMigrator WholeConfig
PROPERTIES Settles
CHECK_DEADLOCK FALSE
