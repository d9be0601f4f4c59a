SPECIFICATION FairSpec
CONSTANTS
  j1 = j1  j2 = j2  j3 = j3  b1 = b1  b2 = b2
  None = None
  Jobs = {j1, j2, j3}
  Branches = {b1, b2}
  BranchOf <- JobBranches
  QueueCapacity = 1
  TimeToLive = 1
  Retention = 1
  StoreTimeout = 1
  RequestTimeout = 1
  TokenLifetime = 4
  RenewalSkew = 2
  MaxTime = 5
  MaxCrashes = 1
INVARIANTS AnswersAreRecent TokenIsLive
PROPERTIES OneAnswerPerWindow PruningHidesNothing HandlersEnd QueueDrains
