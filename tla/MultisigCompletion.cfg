SPECIFICATION CompletionSpec
CONSTANTS
    outer = outer
    nested = nested
    second = second
    alice = alice
    bob = bob
    carol = carol
    Accounts = {outer, nested, second, alice, bob, carol}
    Networks <- AllNetworks
    Inner = {1, 2}
    ListsAbove = TRUE
INVARIANTS
    CompleteIsAccepted
    FlatAcceptedIsComplete
CHECK_DEADLOCK FALSE
