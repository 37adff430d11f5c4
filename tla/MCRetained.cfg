SPECIFICATION MCSpec
CONSTANTS
    Views = {1, 2}
    Parent <- Pair
    Cached = {}
    Models = {m}
    Active = {1, m}
    WhileDrawing = TRUE
    Globals = {}
    States = {}
    MaxReads = 2
    MaxChanges = 2
    MaxFrames = 3
INVARIANTS
    WriterSettles
PROPERTIES
    ReusedUnchanged
    ReusedUnderNotified
    ReusedUnwritten
