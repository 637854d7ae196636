SPECIFICATION Spec
CONSTANTS
  Request = {r1, r2, r3}
  Slug = {s1, s2}
  Target = {t1, t2}
  None = None
  MaxSlugAttempts = 2
SYMMETRY Symmetry
INVARIANTS TypeOK SlugUnique NoOrphans BornOnce HistoryConnected ClicksWereServed DeletedStaysDeleted
PROPERTIES ImplementsRegistry
CHECK_DEADLOCK FALSE
