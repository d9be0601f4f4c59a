\* Two records for one slot, with everything that is told of drops and failed exports.
CONSTANTS
  Records = {r1, r2}
  Capacity = 1
  BatchSize = 2
  Interval = 2
  MaxClock = 2
  Closer = closer
SPECIFICATION FairSpecTold
INVARIANTS QueueNeverOverflows PendingCountsHolders DroppedIsNotExported NothingIsLost DropsAreReported FailuresAreClassifiedOnce
PROPERTY EveryRecordSettles
