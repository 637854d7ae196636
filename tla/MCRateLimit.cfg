SPECIFICATION Spec
CONSTANTS
  Request = {r1, r2, r3}
  Bucket = {b1}
  Limit = 1
  Window = 2
  MaxStall = 3
  MaxSkew = 1
  MaxTime = 5
SYMMETRY Symmetry
INVARIANTS TypeOK WindowLimit OnlyExcessLimited RetryReachesFreshBucket
CHECK_DEADLOCK FALSE
