CONSTANTS
    Handles = {h1, h2}  ManyHandles = {h1, h2, h3}
    Ops = {o1, o2}  ManyOps = {o1, o2, o3}
    EventsPerTurn = 1
    MaxUndelivered = 1
    MaxPosts = 1
    OutCapacity = 1
    Calls = {"open", "io", "accept_start", "cancel", "close"}
    CancelFails = FALSE
    FilesOnPool = TRUE
    None = None
SPECIFICATION LiveSpec
PROPERTIES CloseCompletes CancelCompletes
