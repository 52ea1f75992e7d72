\* Three connections, so that one is lost, one closed and one replaces them; no symmetry,
\* for the liveness properties.
SPECIFICATION FairSpec
CONSTANTS
    Opens = {o1, o2, o3}
    Streams = {s1}
    NoOpen = NoOpen
INVARIANTS
    TypeOK
    AwaitedOpenHasFreshUid
    OwnCloseIsNeverReported
    UnsolicitedCloseIsReported
PROPERTIES
    AwaitedSubscribeNeverThrows
    OpenSettles
    AwaitedStreamIsServed
CHECK_DEADLOCK FALSE
