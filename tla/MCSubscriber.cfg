SPECIFICATION Spec
CONSTANTS
    Writers = {w1}
    MaxId = 2
    Subscribers = {s1, s2}
    Limit = 2
    MaxRetries = 2
    LimitedRetries = TRUE
CHECK_DEADLOCK FALSE
SYMMETRY Symmetric
INVARIANTS
    TypeOK
    HeardInOrder
    LostOnlyByCallbacks
    CursorSkipsNothing
