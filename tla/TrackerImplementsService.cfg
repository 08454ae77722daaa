SPECIFICATION FairSpec
CONSTANTS
  Users = {u1, u2}
  MaxRequests = 2
  Clients = {"sync", "async"}
  Callbacks = {"advance"}
  Calls = {}
INVARIANT TypeOK
INVARIANT FinishedIsVerified
INVARIANT CallbackOnce
INVARIANT NothingOutstanding
INVARIANT ResultAfterFinished
PROPERTY StateOnlyAdvances
PROPERTY ImplementsService
PROPERTY NeverForgotten
