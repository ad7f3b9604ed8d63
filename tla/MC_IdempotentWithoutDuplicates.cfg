CONSTANTS
    p1 = p1
    l1 = l1
    x1 = x1
    p2 = p2
    y2 = y2
    t1 = t1
    t2 = t2
    nP = nP
    nL = nL
    nX = nX
    nY = nY
    nN = nN
    NULL = NULL
    MaxRows = 4
    Fields <- MCFields
    Tables <- MCTables
    Names <- MCNames
    TableOf <- MCTableOf
    LinkTo <- MCLinkTo
    PrimaryOf <- MCPrimaryOf
    InitName <- MCInitName
    Initial <- MCInitial
    RefChoices <- MCRefChoices
    RenameTo <- MCRenameTo
    Str <- MCStr
SPECIFICATION Spec
INVARIANTS
    IdempotentWithoutDuplicates
