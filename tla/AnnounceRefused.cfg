SPECIFICATION FairSpec
CONSTANTS
    alice = alice
    FlowsTried = {"announce"}
    Signer <- OneSigner
    MayRefuse = TRUE
    MayDrop = FALSE
PROPERTY RefusedAnnounceSettles
CHECK_DEADLOCK FALSE
