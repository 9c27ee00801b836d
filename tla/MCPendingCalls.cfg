SPECIFICATION PendingFairSpec
CONSTANTS
    main = main  t1 = t1
    Threads = {main, t1}
    MainThread = main
    QueueSize = 2
    ChanSize = 1
    MaxSignals = 3
    MaxFinalizers = 2
    Failing = {2}
    Stoppable = TRUE
INVARIANT PendingInv
PROPERTY QueuedWorkRuns
CHECK_DEADLOCK FALSE
