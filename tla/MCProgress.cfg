CONSTANTS
    Parts = {"long", "fs", "wait", "agent", "exec", "sql", "mongo", "h2", "redis"}
    o1 = o1  o2 = o2  t1 = t1  t2 = t2  w1 = w1  w2 = w2
    Files = {f1}  NoFile = NoFile  Workers = {k1}
    Conditions = {c1}  Task = task  LoopHandles = {h1}  NoPool = NoPool
SPECIFICATION Spec
PROPERTIES AcceptedIsAnswered ShutdownReturns ImplementsFileOrder
CHECK_DEADLOCK FALSE
