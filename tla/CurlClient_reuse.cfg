SPECIFICATION Spec
CONSTANTS
  MaxSets = 2
  Size = 1
  Max429 = 0
  Faults = {}
  Calls = {}
INVARIANT NoDanglingUse
CHECK_DEADLOCK FALSE
