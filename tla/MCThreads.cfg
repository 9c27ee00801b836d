SPECIFICATION ThreadsSpec
CONSTANTS
    t1 = t1  t2 = t2  t3 = t3  l1 = l1  h1 = h1  h2 = h2
    Kinds = {"EvalLoop", "ThreadLock", "ThreadHandle"}
    Threads = {t1, t2, t3}
    Goids = {t1, t2, t3}
    None = None
    ThreadOf <- OwnThread
    Locks = {l1}
    Careless = {}
    Tidy = TRUE
INVARIANTS OneRuns NoLostSignal ArmedYields LocksSound HandleInv
PROPERTIES RequestIsHonoured BlockingCallsReturn
CHECK_DEADLOCK FALSE
