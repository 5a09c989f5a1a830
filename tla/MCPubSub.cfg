SPECIFICATION Spec
CONSTANTS
    Subscribes = {c1, c2, c3}
    Unsubscribes = {u1, u2}
    None = None
SYMMETRY Symmetric
CHECK_DEADLOCK FALSE
INVARIANTS
    TypeOK
    ListenedUnlessRaced
    NoListenerLeaks
    UnsubscribedIsSilent
