SPECIFICATION Spec
CONSTANTS
    Nodes = {n1, n2, n3}
    Producers = {p1, p2}
    Null = Null
    MaxPushed = 6
INVARIANTS
    Fifo
    LinksAreSafe
PROPERTIES
    PushedIsPopped
