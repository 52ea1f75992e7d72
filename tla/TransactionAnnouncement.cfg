SPECIFICATION FairSpec
CONSTANTS
    alice = alice
    FlowsTried = {"announce", "announceAggregateBonded", "announceHashLockAggregateBonded"}
    Signer <- OneSigner
    MayRefuse = TRUE
    MayDrop = TRUE
INVARIANTS
    TypeOK
PROPERTIES
    ImplementsContract
    SettlesWhenServed
    RefusedBondedSettles
CHECK_DEADLOCK FALSE
