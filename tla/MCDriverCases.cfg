CONSTANTS
    Handles = {h1, h2}  ManyHandles = {h1, h2, h3}
    Ops = {o1, o2}  ManyOps = {o1, o2, o3}
    EventsPerTurn = 1
    MaxUndelivered = 1
    MaxPosts = 1
    OutCapacity = 1
    Calls = {"open", "connect", "io", "read_start", "accept", "accept_start", "fs", "job", "lookup", "watch", "spawn",
             "timer", "interval", "timer_reset", "cancel", "close", "detach", "set_ref", "rebuild"}
    CancelFails = TRUE
    FilesOnPool = TRUE
    None = None
SPECIFICATION CasesSpec
SYMMETRY Interchangeable
INVARIANTS TypeOK AcceptsAreHoused DeadlinesAreLive BooksAreExact ClosedIsLast EveryOpHasOwner QueueFits
PROPERTIES RefusalLeavesNoTrace
