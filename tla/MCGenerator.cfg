SPECIFICATION GenFairSpec
CONSTANTS
    t1 = t1  t2 = t2  b1 = b1  b2 = b2  b3 = b3  x = x
    Threads = {t1, t2}
    Goids = {t1, b1, b2, b3, x}
    None = None
    ThreadOf <- ThreadOfGoid
    Bodies = {b1, b2, b3}
    Bare = {x}
    MayDrive <- Drivers
    MayThrow <- Throwers
INVARIANTS GenInv AnsweredDriverHolds AnswerIsComing
PROPERTIES DriverIsAnswered
