-------------------------- MODULE MCPaginationStreamer --------------------------
(* Instances of PaginationStreamer for TLC: s1 takes everything, s2 only    *)
(* the first four elements.                                                 *)
EXTENDS PaginationStreamer, TLC

CONSTANTS s1, s2, c1, c2

Given(c, d) == s1 :> c @@ s2 :> d

\* One criteria object with prompt callers only, or one each with any callers.
SafeSetups == {[criteriaOf |-> Given(c1, c1), consumers |-> {"prompt"}],
               [criteriaOf |-> Given(c1, c2), consumers |-> {"prompt", "late", "reentrant"}]}

TakeFour == s1 :> Unlimited @@ s2 :> 4
=============================================================================
