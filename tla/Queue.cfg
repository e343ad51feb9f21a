\* Two threads deliver three values through a ring of two slots: every scan can
\* collide, and the ring wraps.  Liveness rules out a symmetry reduction.  A port
\* whose driver was dropped comes to rest.
CONSTANTS
    Parts = {"ring", "port"}
    Producers = {w1, w2}
    Values = {a, b, c}
    Capacity = 2
    MaxUndelivered = 2
    NoValue = none
SPECIFICATION Suite
INVARIANTS ExclusiveSlots AcceptedOnce EmptyIsHonest PortWithinCredits
PROPERTIES AcceptedIsPopped CreditReturns
CHECK_DEADLOCK FALSE
