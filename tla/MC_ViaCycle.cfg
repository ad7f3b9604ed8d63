CONSTANTS
    p1 = p1
    l1 = l1
    p2 = p2
    l2 = l2
    y2 = y2
    t1 = t1
    t2 = t2
    nP = nP
    nL = nL
    nM = nM
    nY = nY
    NULL = NULL
    MaxRows = 6
    Fields <- VCFields
    Tables <- VCTables
    Names <- VCNames
    TableOf <- VCTableOf
    LinkTo <- VCLinkTo
    PrimaryOf <- VCPrimaryOf
    InitName <- VCInitName
    Initial <- VCInitial
    RefChoices <- VCRefChoices
    RenameTo <- VCRenameTo
    Str <- VCStr
SPECIFICATION Spec
INVARIANTS
    ViaGraphAcyclic
