SPECIFICATION Spec
CONSTANTS
    w1 = w1
    w2 = w2
    Workers = {w1, w2}
    PANICS = {}
    SCOPES = {}
    MAX_TASKS = 2
    MAX_TIME = 0
PROPERTY IdleHasNoDueTimer
CHECK_DEADLOCK FALSE
