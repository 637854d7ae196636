SPECIFICATION Spec
CONSTANTS
  NoServer = NoServer
  MaxHops = 2
  Forged <- MCForged
CHECK_DEADLOCK FALSE
INVARIANTS TypeOK GuardedAsPromised KnowsItsCaller PrivateMail
PROPERTIES OneAnswer
