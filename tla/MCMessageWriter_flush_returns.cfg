SPECIFICATION FairFlushSpec
CONSTANTS
    QueueSize = 1
    BatchSize = 1
    FlushCalls = {f1}
    NoLatch = NoLatch
    MaxAccepted = 2
    MaxDropped = 0
PROPERTIES
    FlushReturns
CHECK_DEADLOCK FALSE
