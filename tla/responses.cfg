\* Every kind of event, with what each request records.
CONSTANTS
  d1 = d1  d2 = d2  d3 = d3  d4 = d4  d5 = d5  d6 = d6  d7 = d7  d8 = d8  d9 = d9
  s1 = s1

  registered = registered
  stranger = stranger
  None = None
  r1 = r1
  r2 = r2
  Requests = {r1, r2}
  Deliveries = {d1, d2, d3, d4, d5, d6, d7, d8, d9}
  Subjects = {s1}
  EventOf <- MCEvents
  SubjectOf <- MCSubjects
  RawOf <- MCRaw
  Registered = registered
  Names = {registered, stranger}
  TracingEnabled = TRUE
  MaxJobs = 0
  Retention = 1
  PruneBatch = 1
  MaxTime = 0
  MaxCrashes = 1
SPECIFICATION FairSpecObserved
INVARIANTS IdentityIsAuthenticated LayersAgree
PROPERTY EveryRequestEnds
