CONSTANTS
    Parts = {"long", "fs", "pool", "wait", "agent", "exec", "exec_again", "heap", "keys",
             "unix", "unix_dialed", "unix_listen", "unix_order", "files", "files_order", "signals",
             "signals_again", "children", "inotify", "inotify_errors", "fsevents", "iocp",
             "iocp_leases", "iocp_dialed", "iocp_listen", "iocp_pipes", "iocp_dial", "iocp_send",
             "port", "port_timer", "sync", "sync_pipe", "controls", "exits", "exits_again",
             "directory", "directory_errors", "p2", "p2_dialed", "p2_listen", "p2_lookup",
             "p2_file", "p2_files", "p2_directory", "p2_long_name", "p3", "p3_dialed", "p3_listen",
             "p3_end", "p3_datagrams"}
    LongJobs = {j1, j2, j3}  Threads = {t1, t2}  LongMax = 2  Loops = 2
    FsOps = {r1, r2}  OpenFiles = {f1}  NoFile = NoFile
    Boxed = {b1}  Workers = {k1, k2}  QueueCapacity = 2
    wait1 = wait1  wait2 = wait2  owner1 = owner1  owner2 = owner2  Waits = {wait1, wait2}  Owners = {owner1, owner2}
    Conditions = {c1}  WaitSlots = 2  MaxTime = 2  MaxNotifies = 2
    Futures = {u1, u2}  Task = task  LoopHandles = {h1}
SPECIFICATION Spec
INVARIANTS WorkersAreSafe NobodySleeps ResultsMatch ResourcesAreOwned TableIsSound NothingIsLost
CHECK_DEADLOCK FALSE
