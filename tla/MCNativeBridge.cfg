SPECIFICATION FairSpec
CONSTANTS
    Threads = {t1, t2}
    None = None
    QueueSize = 1
    BatchSize = 2
    MaxEngines = 3
    MaxSent = 2
CHECK_DEADLOCK FALSE
INVARIANTS
    TypeOK
    SettledUnlessReplaced
    OrderedUnlessReplaced
PROPERTIES
    AcceptedIsWritten
    LockIsReleased
    DeadlockLasts
