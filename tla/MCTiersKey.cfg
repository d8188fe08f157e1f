CONSTANTS
    Threads = {t1, t2}
    Cpus = {k1, k2}
    Slots = {s1, s2}
    Lifetime = {e1}
    Blocks = {b1, b2, b3}
    Caps = {1, 2}
    DefaultCap = 2
    Batches = {1, 2}
    DrainBatch = 2
    MediumCap = 1
    None = None
SPECIFICATION Spec
INVARIANT KeyNamesCache
SYMMETRY Symmetry
