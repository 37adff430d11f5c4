SPECIFICATION MCFairSpec
CONSTANTS
    Threads = {t1, t2}
    Receivers = {r1, r2}
    MaxItems = 3
    None = None
INVARIANTS
    NoSleepOnWork
PROPERTIES
    ImplementsChannel
    Received
    PopReturns
