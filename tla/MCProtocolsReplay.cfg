CONSTANTS
    Parts = {"redis_replay"}
    Tokens = {1, 2, 3}  NoPool = NoPool  MaxTime = 1  MaxConnections = 2  MaxClears = 1
SPECIFICATION Spec
INVARIANT AnswersMatch
CHECK_DEADLOCK FALSE
