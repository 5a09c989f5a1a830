SPECIFICATION PipelineFairSpec
CONSTANTS
    w1 = w1
    w2 = w2
    Writers = {w1, w2}
    MaxId = 3
    Subscribers = {s1}
    Limit = 1
    MaxRetries = 1
    LimitedRetries = FALSE
    Capacity = 2
    BatchSize = 2
    MaxAccepted <- TwoAndOne
CHECK_DEADLOCK FALSE
INVARIANTS
    PipelineTypeOK
PROPERTIES
    DeliversInOrder
    AcceptedIsPassedOn
