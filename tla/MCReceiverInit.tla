---------------------------- MODULE MCReceiverInit ----------------------------
(* Two processes that agree on a policy and one that does not. *)
EXTENDS ReceiverInit, TLC

CONSTANTS p1, p2, p3, a, b

MCProcs    == {p1, p2, p3}
MCPolicies == {a, b}
MCPolicyOf == p1 :> a @@ p2 :> a @@ p3 :> b

Symmetry == Permutations({p1, p2})
=============================================================================
