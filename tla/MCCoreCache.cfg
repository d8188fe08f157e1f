CONSTANTS
    Null = Null
    Payload = Payload
    Threads = {t1, t2}
    Cpus = {k1}
    Nodes = {n1, n2, n3}
    TagMod = 4
    MaxBatch = 2
SPECIFICATION Spec
SYMMETRY Symmetry
INVARIANTS
    StacksLinked
    ObservationsFresh
    NodesPartitioned
PROPERTY
    ImplementsNodeStacks
