\* The credit invariant that complete() asserts.
CONSTANTS
    Parts = {"port"}
    Producers = {w1, w2}
    Values = {a, b, c, d}
    Capacity = 2
    MaxUndelivered = 2
    NoValue = none
SPECIFICATION Suite
SYMMETRY Interchangeable
INVARIANT RingNeverFull
CHECK_DEADLOCK FALSE
