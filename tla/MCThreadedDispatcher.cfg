SPECIFICATION Spec
CONSTANTS
    w1 = w1
    w2 = w2
    Workers = {w1, w2}
    PANICS = {w1}
    SCOPES <- MCScopes
    MAX_TASKS = 2
    MAX_TIME = 1
INVARIANTS InflightIsExact
PROPERTIES IdleIsQuiet Returns EveryTaskRuns
\* A state without a step is one where the main thread hangs: Returns forbids
\* it, and reports the wait that caused it.
CHECK_DEADLOCK FALSE
