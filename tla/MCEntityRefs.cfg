CONSTANTS
    main = main
    bg = bg
    e1 = e1
    e2 = e2
    h1 = h1
    h2 = h2
    h3 = h3
    Threads = {main, bg}
    Main = main
    Entities = {e1, e2}
    Handles = {h1, h2, h3}
    MaxUpdates = 2
    None = None
SPECIFICATION Spec
SYMMETRY Symmetry
INVARIANTS
    CountsAreExact
    LeasedNotReleased
    HandleFindsEntity
    FlushReleasesAll
PROPERTY NoResurrection
