SPECIFICATION SigningSpec
SYMMETRY Symmetry
CONSTANTS
    Transactions = {t1, t2}
    Cosigners = {carol}
    t1 = t1
    t2 = t2
    carol = carol
    NoPayload = NoPayload
    Deadlines = {1, 2}
    MaxInner = 2
    MaxCosignatures = 1
    MaxAttached = 2
INVARIANTS
    SigningTypeOK
    CosignaturesMatchContents
    FeeCovers
CHECK_DEADLOCK FALSE
