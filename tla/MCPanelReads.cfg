CONSTANTS
    c1 = c1
    c2 = c2
    c3 = c3
    Caller <- MCCaller
    MaxAttempts = 3
    CacheTtl = 3
    FailureTtl = 1
    NegativeTtl = 2
    HeaderTimeout = 2
    SeriesHeaderTimeout = 1
    IdleTimeout = 2
    BodyTimeout = 3
    Longest = 3
SPECIFICATION Spec
INVARIANTS TypeOK TimeoutsAreTrue
PROPERTIES KeepsPromise
