SPECIFICATION Spec
CONSTANTS
    Workers = {w1, w2}
    Clients = {c1}
    Owner = c1
    NoWorker = NoWorker
    Capacity = 2
    MaxTasks = 2
    MaxBatch = 2
    MaxIdlePushes = 0
PROPERTIES
    TasksRun
    ShutdownCompletes
