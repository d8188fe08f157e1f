CONSTANTS
    None = None
    Threads = {t1}
    Regions <- MCRegions
    Pages = {2, 3}
    Capacity = 3
    Retries = 2
    MaxSeq = 8
    EarlyStores = FALSE
SPECIFICATION Spec
INVARIANT
    OwnsExact
