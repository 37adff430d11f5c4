SPECIFICATION MCSpec
CONSTANTS
    Views = {1, 2}
    Parent <- Pair
    Cached = {}
    Models = {m}
    Active = {m}
    WhileDrawing = TRUE
    Globals = {}
    States = {}
    MaxReads = 1
    MaxChanges = 1
    MaxFrames = 3
PROPERTIES
    WrittenWhileReused
