CONSTANTS
    Parts = {"decode_split"}
    Tokens = {1, 2, 3}  NoPool = NoPool  MaxTime = 1  MaxConnections = 2  MaxClears = 1
SPECIFICATION Spec
INVARIANT ConsumesTheGiven
CHECK_DEADLOCK FALSE
