SPECIFICATION Spec
CONSTANTS
    Entities = {e1, e2}
    MaxLog = 5
    MaxDepth = 3
    MaxNested = 2
INVARIANTS
    RecordingsAreExact
