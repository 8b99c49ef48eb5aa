CONSTANTS
    r1 = r1
    r2 = r2
    Request <- MCRequest
    Category <- MCCategory
    Genre <- MCGenre
    Table <- MCTable
    ItemId <- MCItemId
    Skip <- MCSkip
    Version <- MCVersion
    FullList <- MCFullList
    Hash <- MCHash
    PageSize = 1
    MaxArrays = 2
    MaxEpoch = 1
SPECIFICATION CatalogSpec
SYMMETRY Symmetry
CHECK_DEADLOCK FALSE
INVARIANTS CatalogTypeOK PageIsTheShelf
