SPECIFICATION MCSpec
CONSTANTS
    Threads = {t1}
    Receivers = {r1, r2}
    MaxItems = 2
    None = None
INVARIANTS
    TryIterEnds
