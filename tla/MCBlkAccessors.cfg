SPECIFICATION MCSpec
CONSTANTS
    Context = {c1, c2}
    Block = {0, 1, 2}
    Capacities = {2, 3}
    MaxWrites = 3
    MaxRefused = 1
    QPair = {q1, q2}
    QueueLength = 1
    SyncBlock = {0, 1}
    SyncCapacities = {1, 2}
INVARIANTS
    AccessorsTypeOK
    OnlyEvictedBlocksErr
    CommandInOnePlace
PROPERTIES
    ImplementsBlockDevice
    AllAnswered
    CloseReturns
