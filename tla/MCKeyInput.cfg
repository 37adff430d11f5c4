SPECIFICATION Spec
CONSTANTS
    a = a
    b = b
    f = f
    g = g
    KEYMAPS <- MCKeymaps
    Keys = {a, b}
    Text = {a}
    Focuses = {f, g}
    Owners = {o}
    TIMEOUT = 2
    LATE = 1
    MAX_KEYS = 3
\* A state with no step left is one in which nothing is held and nobody does anything.
CHECK_DEADLOCK FALSE
INVARIANTS
    HeldAreOfFocus
    TextIsTimed
PROPERTIES
    KeysAreKept
    GivenWhereTyped
    NotFlushedEarly
    HoldingEnds
