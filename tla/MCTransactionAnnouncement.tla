------------------------ MODULE MCTransactionAnnouncement ------------------------
(* Instances of TransactionAnnouncement for TLC.                            *)
EXTENDS TransactionAnnouncement, TLC

CONSTANT alice

OneSigner  == [l \in Legs |-> alice]
=============================================================================
