SPECIFICATION FairSpec
CONSTANTS
    s1 = s1
    s2 = s2
    c1 = c1
    c2 = c2
    Streams = {s1, s2}
    Criteria = {c1, c2}
    Setups <- SafeSetups
    Limit <- TakeFour
    Unlimited = 99
    PageSize = 2
    Sizes = {0, 1, 4, 5}
    MaxSize = 6
INVARIANTS
    TypeOK
    NoPageTooMany
PROPERTIES
    ImplementsListing
    StreamEnds
CHECK_DEADLOCK FALSE
