SPECIFICATION Spec
CONSTANTS
  u1 = u1
  Users = {u1}
  MaxRequests = 1
  Clients = {"async"}
  Callbacks = {"advance"}
  Calls = {"eraseResult"}
INVARIANT NoDanglingAccess
