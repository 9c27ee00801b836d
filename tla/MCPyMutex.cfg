SPECIFICATION Spec
CONSTANTS
    t1 = t1  t2 = t2  t3 = t3  m1 = m1  b1 = b1
    Threads = {t1, t2, t3}
    Nobody = Nobody
    Addrs = {m1}
    Buckets = {b1}
    BucketOf <- OneBucket
    Limits <- AllLimits
SYMMETRY Sym
INVARIANTS MutualExclusion UnlockNeverPanics NoLostWakeup SignalNeverBlocks
PROPERTY ImplementsLock
