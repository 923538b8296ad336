SPECIFICATION SafeSpec
CONSTANTS
    Workers = {w1, w2}
    Clients = {c1}
    Owner = c1
    NoWorker = NoWorker
    Capacity = 2
    MaxTasks = 4
    MaxBatch = 3
    MaxIdlePushes = 1
SYMMETRY WorkerSymmetry
INVARIANTS
    SyncCounts
    OneWakingThread
    TaskConservation
    NoStrandedTask
    NothingDangles
    IdleTasksRunBeforeExit
