CONSTANTS
    c1 = c1
    c2 = c2
    c3 = c3
    f1 = f1
    h1 = h1
    h2 = h2
    None = None
    Client <- MCClient
    Form <- MCForm
    Host <- MCHost
    HostLists <- MCHostLists
    Limit = 2
    Window = 2
    Second = 2
    MaxClients = 2
SPECIFICATION Spec
INVARIANTS TypeOK PasswordGoesWhereItMay AnswerIsConfirmed
PROPERTIES LimitHolds EveryFormAnswered
