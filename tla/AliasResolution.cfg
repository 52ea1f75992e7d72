SPECIFICATION Spec
CONSTANTS
    alice = alice
    bob = bob
    Meanings = {alice, bob}
    MaxPrimary = 3
    MaxSecondary = 3
    NotFound = NotFound
SYMMETRY Symmetry
INVARIANTS
    InnerResolvesToItsUse
    PlainResolvesWhenUnchanged
CHECK_DEADLOCK FALSE
