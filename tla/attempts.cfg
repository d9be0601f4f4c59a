SPECIFICATION Spec
CONSTANTS
  e1 = e1  e2 = e2  e3 = e3  e4 = e4  e5 = e5  e6 = e6
  None = None
  Events = {e1, e2, e3, e4, e5, e6}
  KindOf <- QueueKinds
  PullRequestOf <- QueuePullRequests
  UpdatedAt <- QueueUpdatedAt
  Resolution = 2
  MaxDuration = 3
  Retention = 1
  PruneBatch = 1
  MaxTime = 5
  MaxCrashes = 1
INVARIANTS ObservationsAreGenuine OrderedIsAuthoritative
PROPERTIES KeepsAttemptPromise OnlyExpiredRowsVanish
