SPECIFICATION FairSpec
CONSTANTS
    Sessions = {a, b}
    Subscribes = {c1, c2}
    Unsubscribes = {u1}
    None = None
    QueueSize = 1
    BatchSize = 1
    FlushCalls = {f1}
    Message = Message
    Shutdown = Shutdown
    MaxAccepted = 1
CHECK_DEADLOCK FALSE
INVARIANTS
    TypeOK
    NoTaskLeaks
    ShutdownIsComplete
PROPERTIES
    CallsReturn
    EngineEnds
