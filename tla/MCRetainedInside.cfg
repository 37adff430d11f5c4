SPECIFICATION MCSpec
CONSTANTS
    Views = {1, 2, 3, 4}
    Parent <- Nested
    Cached = {2}
    Models = {m}
    Active = {2, m}
    WhileDrawing = FALSE
    Globals = {}
    States = {}
    MaxReads = 1
    MaxChanges = 2
    MaxFrames = 3
PROPERTIES
    UpdatedInsideCached
