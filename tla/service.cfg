\* From the environment to the exit code, with retention passes in between.
CONSTANTS
    None = None
    Stores <- MCStores
    Age <- MCAge
    BatchSize = 1
    MaxAge = 4
    Horizon = 8
    Start = 2
    MaxRows = 3
    MaxTime = 4
    U64 = 9
    I64 = 7
    Day = 2
    Caps = 3
    Default <- MCDefault
    Worlds <- MCWorlds
    MaxRequests = 1
SPECIFICATION FairSpec
INVARIANTS SuccessMeansEmptied OutcomeIsTrue OneBatchAfterCancel QuietBeforeTelemetry ExitTellsTheTruth
PROPERTIES OnePassPerInterval  EveryPathEnds
