CONSTANTS
    r1 = r1
    r2 = r2
    r3 = r3
    a1 = a1
    a2 = a2
    c1 = c1
    c2 = c2
    Request <- MCRequest
    Account <- MCAccount
    Client <- MCClient
    Limits <- MCLimits
SPECIFICATION ShutdownSpec
INVARIANTS TypeOK CountsMatchRelays CapsHold CleanExitDropsNothing
PROPERTIES RefusalIsTruthful ShutdownEnds
