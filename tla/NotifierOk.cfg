SPECIFICATION Spec
CONSTANTS
    Producers = {p1, p2}
    Posts = {v1, v2}
    PostCapacity = 2
    EventsPerTurn = 1
    OutCapacity = 1
    WakeFails = TRUE
SYMMETRY Interchangeable
INVARIANTS OkMeansWoken
