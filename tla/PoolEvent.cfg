SPECIFICATION Spec
CONSTANTS
    Waiters = {w1, w2}
    Notifiers = {n1, n2}
    MaxEpoch = 2
INVARIANTS
    NoLostNotification
    NoStrandedIdleTask
    ShutdownWakes
PROPERTIES
    IdleTaskRuns
    ImplementsBinaryEvent
