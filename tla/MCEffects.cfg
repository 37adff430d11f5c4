SPECIFICATION MCSpec
CONSTANTS
    Windows = {w1, w2}
    Entities = {e1, e2}
    Globals = {g}
    Observers = {o1, o2}
    MaxDepth = 2
    MaxSteps = 5
    None = None
    w1 = w1
    w2 = w2
    e1 = e1
    e2 = e2
    g = g
    o1 = o1
    o2 = o2
SYMMETRY Symmetry
INVARIANTS
    PendingIsQueued
    AllDelivered
    NoneCalledEarly
    TrackedIsInvalidated
    NotifiedIsScheduled
