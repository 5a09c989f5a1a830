SPECIFICATION FairSpec
CONSTANTS
    QueueSize = 2
    BatchSize = 2
    FlushCalls = {f1, f2}
    NoLatch = NoLatch
    MaxAccepted = 3
    MaxDropped = 1
INVARIANTS
    TypeOK
    Conserved
    FlushEmptiesQueue
    ExitSettles
PROPERTIES
    ImplementsPromise
    AcceptedIsSettled
    ShutdownStopsWorker
CHECK_DEADLOCK FALSE
