CONSTANTS
    Word = 16777216
    Threads = {t1, t2}
    Main = t1
    None = None
    SampleRate = 1
    RingSize = 2
    Buckets = 2
    Requests <- MCAlignedRequests
    Grown = {}
    SignalSizes = {}
    Copies = 2
    FreedRing = 2
    Options <- MCPlain
    MaxCalls = 2
    MaxOther = 0
SPECIFICATION Spec
INVARIANT AlignedAsAsked
CHECK_DEADLOCK FALSE
