SPECIFICATION MCSpec
CONSTANTS
    Views = {1, 2}
    Parent <- Pair
    Cached = {}
    Models = {m}
    Active = {m}
    WhileDrawing = TRUE
    Globals = {}
    States = {}
    MaxReads = 2
    MaxChanges = 1
    MaxFrames = 2
PROPERTIES
    WrittenWhileBuilt
