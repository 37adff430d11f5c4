SPECIFICATION MCSpec
CONSTANTS
    Views = {1, 2, 3}
    Parent <- Chain
    Cached = {2}
    Models = {m}
    Active = {m}
    WhileDrawing = FALSE
    Globals = {g}
    States = {s}
    MaxReads = 1
    MaxChanges = 2
    MaxFrames = 3
PROPERTIES
    ReusedUnchanged
