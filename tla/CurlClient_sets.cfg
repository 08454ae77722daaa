SPECIFICATION Spec
CONSTANTS
  MaxSets = 3
  Size = 1
  Max429 = 1
  Faults = {"transport", "setup"}
  Calls = {}
INVARIANT TypeOK
INVARIANT DeliveredOwn
INVARIANT CalledOnce
INVARIANT SetsPaired
CHECK_DEADLOCK FALSE
