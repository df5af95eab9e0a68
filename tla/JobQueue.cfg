CONSTANTS
    Jobs = {j1, j2, j3, j4}
    Workers = 2
    Nil = Nil
SPECIFICATION FairSpec
INVARIANTS
    TypeOK
    AtMostWorkers
    SendNeverBlocks
    ErrorDeliveredOnce
PROPERTIES
    CallsReturn
    ImplementsPool
CHECK_DEADLOCK FALSE
