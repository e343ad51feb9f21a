SPECIFICATION Spec
CONSTANTS
    Producers = {p1, p2}
    Posts = {v1, v2, v3}
    PostCapacity = 2
    EventsPerTurn = 2
    OutCapacity = 1
    WakeFails = TRUE
SYMMETRY Interchangeable
INVARIANTS TypeOK NoLostWake WakesCoalesce PostedOnce
