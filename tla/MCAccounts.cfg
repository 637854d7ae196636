SPECIFICATION MCSpec
CONSTANTS
  Request = {r1, r2}
  Seed = {"laptop", "phone", "tablet", "desk", "link", "photo"}
  User = {"ann", "bob"}
  Address = {"ann", "bob", "new"}
  Typed = {"bob", "new", " NEW "}
  Lower <- MCLower
  None = None
  Torn = Torn
  Writer <- Request
  Key <- MCId
  Object <- MCId
SYMMETRY Symmetry
INVARIANTS TypeOK OldLinksDie RevokedStayOut ImageIsStored
PROPERTIES AddressProven ImplementsStore
CHECK_DEADLOCK FALSE
