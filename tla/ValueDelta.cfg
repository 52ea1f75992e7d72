SPECIFICATION Spec
CONSTANTS
    Callers = {"c1", "c2"}
    Accounts = {a1, a2}
    Texts <- MCTexts
    Mosaics = {m1, m2}
    Highest = 1
    MaxChanges = 1
SYMMETRY Symmetry
INVARIANTS
    TypeOK
    MetadataAsAsked
    RestrictionStandsOnWhatWasRead
CHECK_DEADLOCK FALSE
