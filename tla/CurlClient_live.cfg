SPECIFICATION FairSpec
CONSTANTS
  MaxSets = 2
  Size = 1
  Max429 = 1
  Faults = {"transport", "setup", "multi"}
  Calls = {"erase"}
INVARIANT CalledOnce
PROPERTY EventuallyCalledBack
CHECK_DEADLOCK FALSE
