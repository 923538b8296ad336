SPECIFICATION Spec
CONSTANTS
    Nodes = {n1, n2, n3, n4}
    Consumers = {c1, c2}
    Null = Null
INVARIANTS
    NoNodeLost
PROPERTIES
    ImplementsTaskBag
