SPECIFICATION WaitsSpec
CONSTANTS
    r1 = r1  r2 = r2  r3 = r3  t1 = t1  t2 = t2
    b1 = b1  b2 = b2  d1 = d1  d2 = d2
    Kinds = {"RLock"}
    Threads = {r1, r2}
    Goids = {r1, r2}
    None = None
    ThreadOf <- OwnThread
    MaxDepth = 2
    Conditions = {r1, r2}
    Tidy = TRUE
    MaxNest = 2
    MaxPuts = 3
INVARIANTS NoGateGilDeadlock
CHECK_DEADLOCK FALSE
