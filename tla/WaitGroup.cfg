SPECIFICATION GroupSpec
CONSTANTS
    Tasks = {t1, t2, t3, t4}
    Owner = Owner
    Free = Free
INVARIANTS
    FinishedBeforeReturn
PROPERTIES
    LastFinishReleases
