SPECIFICATION FairSpec
CONSTANTS
  Clients = {"sync", "fetch"}
  MaxSets = 3
  Sizes = {0, 2}
  max_attempts = 1
  Max429 = 1
INVARIANTS TypeOK DeliveredOwn CalledOnce SetsPaired
PROPERTY SubmissionsSettle
CHECK_DEADLOCK FALSE
