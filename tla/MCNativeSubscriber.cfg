SPECIFICATION FairSpec
CONSTANTS
    Writers = {w1}
    MaxId = 3
    Limit = 2
    CatchUpLimit = 3
CHECK_DEADLOCK FALSE
INVARIANTS
    TypeOK
    HeardInOrder
    SkipsNothing
PROPERTIES
    StopEndsTask
    PolledIsHeard
