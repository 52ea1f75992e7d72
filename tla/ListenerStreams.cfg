SPECIFICATION Spec
CONSTANTS
    alice = alice
    bob = bob
    multi = multi
    fromAlice = fromAlice
    fromBob = fromBob
    NoAddress = NoAddress
    block = block
    Addresses = {alice, bob, multi, NoAddress}
    Transactions = {fromAlice, fromBob, block}
    Involved <- MCInvolved
    Recognised <- MCRecognised
    MultisigOf <- MCMultisigOf
    Streams <- AllStreams
    Scenes <- AllScenes
    AnyHash = AnyHash
    None = None
    MaxReports <- AllReports
    MaxInFlight = 1
INVARIANTS
    TypeOK
    NothingShownIsMissed
PROPERTIES
    ImplementsFeed
CHECK_DEADLOCK FALSE
