SPECIFICATION FairSpec
CONSTANTS
    Search = {s1}
    Insert = {i1, i2}
    QueueLength = 2
    QueueCapacity = 1
    ProcessGranularity = 1
    ProbeGranularity = 1
    MaxWaits = 2
    MaxRefused = 2
INVARIANTS
    TypeOK
    SlotsMatchPools
    SyncMeansAnswered
    ContextNotForgotten
    ExitIsClean
PROPERTIES
    RequestsReturn
    CloseReturns
