------------------------------ MODULE MCDeadlineService ------------------------------
(* The factories of the runs of DeadlineService: nothing configured, the hash without the   *)
(* public key but the epoch, and both of the node's settings.                               *)
EXTENDS DeadlineService

MCConfigurations == {{}, {"generationHash", "epochAdjustment"},
                     {"generationHash", "nodePublicKey"}}

\* Behind the node, so that the offset is negative.
MCSkews == {-1}
=============================================================================
