CONSTANTS
    Workers = {w1}
    Forker = f
    Bg = b
    Main = m
    Nobody = Nobody
SPECIFICATION FairSpec
INVARIANTS
    ChildSound
    Exclusive
    ForkReleases
PROPERTIES
    ShutdownCompletes
    CallsReturn
CHECK_DEADLOCK FALSE
