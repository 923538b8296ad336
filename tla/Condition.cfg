SPECIFICATION Spec
CONSTANTS
    Threads = {t1, t2, t3}
    Null = Null
    MaxWakes = 3
INVARIANTS
    NoLostSignal
PROPERTIES
    SignalsConsumed
