SPECIFICATION Spec
INVARIANTS
    TypeOK
    BytesSurvive
    ShouldResolveAgrees
    NamedIsNotified
CHECK_DEADLOCK FALSE
