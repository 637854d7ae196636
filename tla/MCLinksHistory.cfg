SPECIFICATION Spec
CONSTANTS
  Request = {r1, r2, r3}
  Slug = {s1}
  Target = {t1, t2}
  None = None
  MaxSlugAttempts = 2
SYMMETRY Symmetry
PROPERTIES TargetChangesRecorded
CHECK_DEADLOCK FALSE
