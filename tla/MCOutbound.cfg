CONSTANTS
    t1 = t1
    t2 = t2
    h1 = h1
    h2 = h2
    public = public
    private = private
    Task <- MCTask
    Host <- MCHost
    Origin <- MCOrigin
    Address <- MCAddress
    Private <- MCPrivate
    MaxRedirects = 1
    PinTtl = 1
    PinMax = 1
    VetMax = 2
SPECIFICATION Spec
INVARIANTS TypeOK
PROPERTIES ConnectsToVetted VettingsAreKept EveryTaskEnds
