CONSTANTS
    Threads = {t1, t2}
    Ranges = {1, 2, 3}
    Anchor = {3}
    SizeOf <- MCSizeOf
    NumNodes = 2
    Capacity = 1
    ByteMod = 8
    Unbound = Unbound
SPECIFICATION Spec
SYMMETRY Symmetry
INVARIANTS
    MapMatchesSpace
    NodeBytesExact
