SPECIFICATION MCSpec
CONSTANTS
  Request = {r1, r2}
  Founding = {"ann", "bob", "cyd", "acme", "beta", "sales", "ops", "to cyd", "to new"}
  Email = {"ann", "bob", "cyd", "new"}
  Word = {"sales", "legal"}
  None = None
SYMMETRY Symmetry
INVARIANTS EveryOrgHasOwner
CHECK_DEADLOCK FALSE
