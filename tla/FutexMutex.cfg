SPECIFICATION MutexSpec
CONSTANTS
    Lockers = {t1, t2, t3, t4}
    Nobody = Nobody
INVARIANTS
    MutualExclusion
    NoLostWaiter
PROPERTIES
    ImplementsLock
