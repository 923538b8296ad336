SPECIFICATION Spec
CONSTANTS
    Tasks = 5
    Capacity = 4
    IndexSize = 8
    FirstIndex = 6
    Thieves = {t1, t2}
CHECK_DEADLOCK FALSE
INVARIANTS
    TakenOnce
    NothingLost
