CONSTANTS
    e1 = e1
    e2 = e2
    Emitters = {e1, e2}
    MaxSubscribers = 3
    MaxWalks = 2
    NoId = NoId
SPECIFICATION Spec
SYMMETRY Symmetry
INVARIANTS
    NoSubscriberLost
    CallbackNotReentered
PROPERTY DroppedNeverCalled
CHECK_DEADLOCK FALSE
