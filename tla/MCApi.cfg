CONSTANTS
    Word = 16777216
    Threads = {t1, t2}
    Main = t1
    None = None
    SampleRate = 1
    RingSize = 2
    Buckets = 2
    Requests <- MCRequests
    Grown <- MCGrown
    SignalSizes <- MCSignalSizes
    Copies = 2
    FreedRing = 2
    Options <- MCOptions
    MaxCalls = 4
    MaxOther = 3
SPECIFICATION Spec
INVARIANTS
    MemoryHandedOutOnce
    BlocksServe
    SizeClassLeast
    ContentsKept
    NoFalseAlarm
    CountsConserved
    SamplesConserved
    CallSitesFound
    SnapshotNeverOvercounts
CHECK_DEADLOCK FALSE
