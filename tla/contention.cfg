SPECIFICATION Spec
CONSTANTS
  d1 = d1  d2 = d2  d3 = d3  d4 = d4  d5 = d5  d6 = d6  d7 = d7
  s1 = s1  s2 = s2  r1 = r1  r2 = r2  r3 = r3
  None = None
  Requests = {r1, r2, r3}
  Deliveries = {d1, d2, d3, d4, d5, d6, d7}
  Subjects = {s1, s2}
  EventOf <- ContentionEvents
  SubjectOf <- ContentionSubjects
  TracingEnabled = TRUE
  MaxJobs = 1
  Retention = 1
  PruneBatch = 1
  MaxTime = 0
  MaxCrashes = 1
SYMMETRY Symmetry
INVARIANTS PipelineLinksEmittedTraces QueueConservation OutcomesFollowCommits UnavailableIsAccounted
