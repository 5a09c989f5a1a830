SPECIFICATION FairSpec
CONSTANTS
    Writers = {w1}
    MaxId = 2
    Limit = 2
    CatchUpLimit = 2
CHECK_DEADLOCK FALSE
PROPERTIES
    ListenedIsHeard
