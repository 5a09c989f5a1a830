SPECIFICATION Spec
CONSTANTS
    Writers = {w1}
    MaxId = 2
    Subscribers = {s1}
    Limit = 2
    MaxRetries = 2
    LimitedRetries = FALSE
CHECK_DEADLOCK FALSE
INVARIANTS
    DeliveredIsHeard
