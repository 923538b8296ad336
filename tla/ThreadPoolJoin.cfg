SPECIFICATION SafeSpec
CONSTANTS
    Workers = {w1, w2}
    Clients = {c1}
    Owner = c1
    NoWorker = NoWorker
    Capacity = 2
    MaxTasks = 1
    MaxBatch = 1
    MaxIdlePushes = 0
INVARIANTS
    PoolOutlivesNotify
