SPECIFICATION Spec
CONSTANTS
  u1 = u1
  u2 = u2
  Users = {u1, u2}
  MaxRequests = 1
  Clients = {"async"}
  Callbacks = {"null", "erase"}
  Calls = {"advance", "erase"}
SYMMETRY UserSymmetry
INVARIANT ClaimsJustified
CHECK_DEADLOCK FALSE
