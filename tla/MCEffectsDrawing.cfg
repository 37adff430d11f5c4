SPECIFICATION MCSpec
CONSTANTS
    Windows = {w1}
    Entities = {e1}
    Globals = {}
    Observers = {o1}
    MaxDepth = 1
    MaxSteps = 4
    None = None
    w1 = w1
    e1 = e1
    o1 = o1
SYMMETRY Symmetry
INVARIANTS
    ObservedWhileDrawing
