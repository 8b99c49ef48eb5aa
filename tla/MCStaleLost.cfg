CONSTANTS
    c1 = c1
    c2 = c2
    Caller <- MCCaller
    Job = {1, 2, 3}
    NoJob = 0
    TTL = 7
    FailureTtl = 2
    RefreshAt = 3
    StaleMax = 10
    FetchMax = 3
    MayEvict = FALSE
SPECIFICATION Spec
INVARIANT StaleBeatsEmpty
