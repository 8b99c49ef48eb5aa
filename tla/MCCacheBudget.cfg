CONSTANTS
    k1 = k1
    k2 = k2
    k3 = k3
    NoBound = NoBound
    Cache <- MCCache
    Key <- MCKey
    Id = {1, 2}
    Weight <- MCWeight
    MaxEntries <- MCMaxEntries
    MaxBytes <- MCMaxBytes
    Budget = 4
SPECIFICATION BudgetSpec
INVARIANTS BudgetTypeOK LedgerMirrorsMaps BoundsHold
PROPERTY LoopsEnd
