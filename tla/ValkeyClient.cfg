SPECIFICATION Spec
CONSTANTS
    Commands = {"get", "set", "multi"}
    Pipelined = {"get", "set"}
    MaxRetries = 1
    MaxConnects = 2
    MaxDrops = 1
INVARIANTS RepliesMatch PendingInOrder SerialCommandsWait OneDial
PROPERTIES PromisesSettle
