SPECIFICATION Spec
CONSTANTS
  e1 = e1  e2 = e2  e3 = e3  e4 = e4  e5 = e5  e6 = e6
  None = None
  Events = {e1, e2, e3, e4}
  KindOf <- HistoryKinds
  PullRequestOf <- HistoryPullRequests
  UpdatedAt <- HistoryUpdatedAt
  Resolution = 2
  MaxDuration = 8
  Retention = 1
  PruneBatch = 1
  MaxTime = 0
  MaxCrashes = 0
INVARIANT MetricIsAuthoritative
