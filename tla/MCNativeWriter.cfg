SPECIFICATION FairSpec
CONSTANTS
    QueueSize = 2
    BatchSize = 2
    FlushCalls = {f1, f2}
    Message = Message
    Shutdown = Shutdown
    MaxAccepted = 4
CHECK_DEADLOCK FALSE
INVARIANTS
    TypeOK
    FlushWaitsForWrite
    ShutdownSettles
PROPERTIES
    ImplementsPromise
    FlushReturns
    OwnerEnds
