CONSTANTS
    c1 = c1
    c2 = c2
    live = live
    movies = movies
    Caller <- MCCaller
    List <- MCList
    TTL = 4
    FailureTtl = 2
    StaleMax = 8
    FetchMax = 2
    MayEvict = TRUE
SPECIFICATION Spec
INVARIANTS TypeOK EachListIsTheLast FailureRetriedSoon
PROPERTIES EveryCallerAnswered
