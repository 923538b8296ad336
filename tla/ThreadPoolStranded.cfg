SPECIFICATION TurnSpec
CONSTANTS
    filler = filler
    taker = taker
    seeker = seeker
    newcomer = newcomer
    Workers = {filler, taker, seeker, newcomer}
    Clients = {c1}
    Owner = c1
    NoWorker = NoWorker
    Capacity = 2
    MaxTasks = 6
    MaxBatch = 5
    MaxIdlePushes = 0
INVARIANTS
    QueuedIsRun
CHECK_DEADLOCK FALSE
