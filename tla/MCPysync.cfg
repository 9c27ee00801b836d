SPECIFICATION PysyncSpec
CONSTANTS
    t1 = t1  t2 = t2  t3 = t3  t4 = t4  b1 = b1
    Kinds = {"RWMutex", "Event", "PyMutex", "RecursiveMutex", "SeqLock"}
    Nobody = Nobody
    Addr = a1  Addrs = {a1}
    Buckets = {b1}
    BucketOf <- OneBucket
INVARIANTS RWInv EventInv RecInv SeqInv
PROPERTIES WritersAreServed WaitersAreServed
